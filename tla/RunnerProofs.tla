---------------------------- MODULE RunnerProofs ----------------------------
(***************************************************************************)
(* Theorems about Runner, for every number of threads, steps and bounds.   *)
(***************************************************************************)
EXTENDS Runner, TLAPS

--------------------------------------------------------------------------
(***************************************************************************)
(* What one event does to the folds of a Track, for every number of steps: *)
(* each event maps a Track to a Track, and, written where the run machine  *)
(* accepts it, takes the run to the state its handler names and changes    *)
(* the completed steps only if it is a step_completed.                     *)
(***************************************************************************)

KeysOrNone == Keys \cup {NoKey}

LEMMA PutType ==
  ASSUME NEW f \in PerStep, NEW s \in Steps, NEW value \in KeysOrNone,
         value # NoKey => value[1] = s
  PROVE  Put(f, s, value) \in PerStep
  BY DEF Put, PerStep, KeysOrNone

LEMMA BumpType ==
  ASSUME NEW f \in [Steps -> Nat], NEW s \in Steps
  PROVE  Bump(f, s) \in [Steps -> Nat]
  BY DEF Bump

LEMMA MoveType ==
  ASSUME NEW T \in Tracks, NEW event, NEW target \in RunStates \cup {"UNREADABLE"}
  PROVE  Move(T, event, target) \in Tracks
  BY DEF Move, Tracks

\* Apart from the state, Move leaves the folds alone.
LEMMA MoveFrame ==
  ASSUME NEW T \in Tracks, NEW event, NEW target
  PROVE  /\ Move(T, event, target).done = T.done
         /\ <<T.state, event, target>> \in Edges => Move(T, event, target).state = target
  BY DEF Move, Tracks

LEMMA NoTokensType ==
  ASSUME NEW T \in Tracks
  PROVE  /\ NoTokens(T) \in Tracks
         /\ NoTokens(T).state = T.state /\ NoTokens(T).done = T.done
  BY DEF NoTokens, Tracks

LEMMA EmptyTrackType ==
  EmptyTrack \in Tracks /\ EmptyTrack.state = "NONE" /\ EmptyTrack.done = {}
<1>1. [s \in Steps |-> NoKey] \in PerStep  BY DEF PerStep
<1> QED  BY <1>1 DEF EmptyTrack, Tracks

LEMMA OpSubmittedType ==
  ASSUME NEW T \in Tracks
  PROVE  /\ OpSubmitted(T) \in Tracks
         /\ OpSubmitted(T).done = T.done
         /\ T.state = "NONE" => OpSubmitted(T).state = "SUBMITTED"
  BY DEF OpSubmitted, Tracks, RunStates

LEMMA RunPickedUpType ==
  ASSUME NEW T \in Tracks
  PROVE  /\ RunPickedUp(T) \in Tracks
         /\ RunPickedUp(T).done = T.done
         /\ T.state = "SUBMITTED" => RunPickedUp(T).state = "RUNNING"
  BY MoveType, MoveFrame DEF RunPickedUp, RunStates, Edges

LEMMA GateEscalatedType ==
  ASSUME NEW T \in Tracks, NEW k \in Keys
  PROVE  /\ GateEscalated(T, k) \in Tracks
         /\ GateEscalated(T, k).done = T.done
         /\ T.state = "RUNNING" => GateEscalated(T, k).state = "WAITING_AT_GATE"
<1> DEFINE M == Move(T, "escalate", "WAITING_AT_GATE")
           counted == Bump(M.esc, k[1])
           latest  == Put(M.shown, k[1], k)
           pending == Put(M.approved, k[1], NoKey)
           raised  == M.raised \cup {k}
<1>0. k[1] \in Steps /\ k \in KeysOrNone /\ NoKey \in KeysOrNone  BY DEF Keys, KeysOrNone
<1>1. /\ M \in Tracks /\ M.done = T.done
      /\ T.state = "RUNNING" => M.state = "WAITING_AT_GATE"
  BY MoveType, MoveFrame DEF RunStates, Edges
<1>2. GateEscalated(T, k) =
        [M EXCEPT !.open = k, !.raised = raised, !.esc = counted,
                  !.shown = latest, !.approved = pending]
  BY DEF GateEscalated
<1> HIDE DEF M
<1>3. counted \in [Steps -> Nat]  BY <1>1, <1>0, BumpType DEF Tracks
<1>4. latest \in PerStep  BY <1>1, <1>0, PutType DEF Tracks, KeysOrNone
<1>5. pending \in PerStep  BY <1>1, <1>0, PutType DEF Tracks, KeysOrNone
<1>6. raised \in SUBSET Keys  BY <1>1 DEF Tracks
<1> HIDE DEF counted, latest, pending, raised
<1> QED  BY ZenonT(60), <1>1, <1>2, <1>3, <1>4, <1>5, <1>6 DEF Tracks, KeysOrNone

LEMMA ApprovedType ==
  ASSUME NEW T \in Tracks, NEW k \in Keys
  PROVE  /\ Approved(T, k) \in Tracks
         /\ Approved(T, k).done = T.done
         /\ T.state = "WAITING_AT_GATE" /\ T.open = k => Approved(T, k).state = "RUNNING"
<1> DEFINE M == Move(T, "decide", IF T.open = k THEN "RUNNING" ELSE "UNREADABLE")
<1>0. k[1] \in Steps /\ k \in KeysOrNone /\ NoKey \in KeysOrNone  BY DEF Keys, KeysOrNone
<1>1. /\ M \in Tracks /\ M.done = T.done
      /\ T.state = "WAITING_AT_GATE" /\ T.open = k => M.state = "RUNNING"
  BY MoveType, MoveFrame DEF RunStates, Edges
<1>2. Approved(T, k) =
        [M EXCEPT !.open = NoKey, !.blessed = @ \cup {k},
                  !.approved = Put(M.approved, k[1], T.shown[k[1]])]
  BY DEF Approved
<1> DEFINE granted == Put(M.approved, k[1], T.shown[k[1]])
           blessed == M.blessed \cup {k}
<1>3. /\ T.shown[k[1]] \in KeysOrNone
      /\ T.shown[k[1]] # NoKey => T.shown[k[1]][1] = k[1]
  BY <1>0 DEF Tracks, PerStep, KeysOrNone
<1> HIDE DEF M
<1>4. granted \in PerStep  BY <1>1, <1>0, <1>3, PutType DEF Tracks, KeysOrNone
<1>5. blessed \in SUBSET Keys  BY <1>1 DEF Tracks
<1>6. Approved(T, k) = [M EXCEPT !.open = NoKey, !.blessed = blessed,
                                 !.approved = granted]  BY <1>2
<1> HIDE DEF granted, blessed
<1> QED  BY <1>1, <1>4, <1>5, <1>6 DEF Tracks, KeysOrNone

LEMMA SentBackType ==
  ASSUME NEW T \in Tracks, NEW k \in Keys
  PROVE  /\ SentBack(T, k) \in Tracks
         /\ SentBack(T, k).done = T.done
         /\ T.state = "WAITING_AT_GATE" /\ T.open = k => SentBack(T, k).state = "RUNNING"
<1> DEFINE M == Move(T, "decide", IF T.open = k THEN "RUNNING" ELSE "UNREADABLE")
<1> DEFINE pending == Put(M.approved, k[1], NoKey)
           counted == Bump(M.sentBack, k[1])
<1>0. k[1] \in Steps /\ k \in KeysOrNone /\ NoKey \in KeysOrNone  BY DEF Keys, KeysOrNone
<1>1. /\ M \in Tracks /\ M.done = T.done
      /\ T.state = "WAITING_AT_GATE" /\ T.open = k => M.state = "RUNNING"
  BY MoveType, MoveFrame DEF RunStates, Edges
<1>2. SentBack(T, k) =
        [M EXCEPT !.open = NoKey, !.approved = pending, !.sentBack = counted]
  BY DEF SentBack
<1> HIDE DEF M
<1>3. counted \in [Steps -> Nat]  BY <1>1, <1>0, BumpType DEF Tracks
<1>4. pending \in PerStep  BY <1>1, <1>0, PutType DEF Tracks, KeysOrNone
<1> HIDE DEF counted, pending
<1> QED  BY ZenonT(60), <1>1, <1>2, <1>3, <1>4 DEF Tracks, KeysOrNone

LEMMA RejectedType ==
  ASSUME NEW T \in Tracks, NEW k \in Keys
  PROVE  /\ Rejected(T, k) \in Tracks
         /\ Rejected(T, k).done = T.done
         /\ T.state = "WAITING_AT_GATE" /\ T.open = k => Rejected(T, k).state = "REJECTED"
<1> DEFINE M == Move(T, "decide", IF T.open = k THEN "REJECTED" ELSE "UNREADABLE")
<1> DEFINE pending == Put(M.approved, k[1], NoKey)
<1>0. k[1] \in Steps /\ k \in KeysOrNone /\ NoKey \in KeysOrNone  BY DEF Keys, KeysOrNone
<1>1. /\ M \in Tracks /\ M.done = T.done
      /\ T.state = "WAITING_AT_GATE" /\ T.open = k => M.state = "REJECTED"
  BY MoveType, MoveFrame DEF RunStates, Ended, Edges
<1>2. Rejected(T, k) =
        [M EXCEPT !.open = NoKey, !.approved = pending]
  BY DEF Rejected
<1> HIDE DEF M
<1>3. pending \in PerStep  BY <1>1, <1>0, PutType DEF Tracks, KeysOrNone
<1> HIDE DEF pending
<1> QED  BY <1>1, <1>2, <1>3 DEF Tracks, KeysOrNone

LEMMA RevisionsExhaustedType ==
  ASSUME NEW T \in Tracks, NEW k \in Keys
  PROVE  /\ RevisionsExhausted(T, k) \in Tracks
         /\ RevisionsExhausted(T, k).done = T.done
         /\ T.state = "WAITING_AT_GATE" /\ T.open = k =>
              RevisionsExhausted(T, k).state = "FAILED"
<1> DEFINE M == Move(T, "decide", IF T.open = k THEN "FAILED" ELSE "UNREADABLE")
           C == [M EXCEPT !.open = NoKey]
<1>1. /\ M \in Tracks /\ M.done = T.done
      /\ T.state = "WAITING_AT_GATE" /\ T.open = k => M.state = "FAILED"
  BY MoveType, MoveFrame DEF RunStates, Ended, Edges
<1> HIDE DEF M
<1>2. C \in Tracks /\ C.done = M.done /\ C.state = M.state  BY <1>1 DEF Tracks
<1>3. RevisionsExhausted(T, k) = NoTokens(C)  BY DEF RevisionsExhausted, M
<1> HIDE DEF C
<1> QED  BY <1>1, <1>2, <1>3, NoTokensType

\* The ends of a run that is RUNNING, and of one that waits.
LEMMA EndTypes ==
  ASSUME NEW T \in Tracks
  PROVE  /\ RunCompleted(T) \in Tracks /\ RunCompleted(T).done = T.done
         /\ RunFailed(T) \in Tracks /\ RunFailed(T).done = T.done
         /\ BudgetStopped(T) \in Tracks /\ BudgetStopped(T).done = T.done
         /\ RunInterrupted(T) \in Tracks /\ RunInterrupted(T).done = T.done
         /\ T.state = "RUNNING" => /\ RunCompleted(T).state = "COMPLETED"
                                   /\ RunFailed(T).state = "FAILED"
                                   /\ BudgetStopped(T).state = "BUDGET_EXCEEDED"
         /\ T.state \in {"RUNNING", "WAITING_AT_GATE"} =>
              RunInterrupted(T).state = "INTERRUPTED"
<1> USE MoveType, MoveFrame, NoTokensType DEF RunStates, Ended
<1>1. /\ RunCompleted(T) \in Tracks /\ RunCompleted(T).done = T.done
      /\ T.state = "RUNNING" => RunCompleted(T).state = "COMPLETED"
  BY DEF RunCompleted, Edges
<1>2. /\ RunFailed(T) \in Tracks /\ RunFailed(T).done = T.done
      /\ T.state = "RUNNING" => RunFailed(T).state = "FAILED"
  BY DEF RunFailed, Edges
<1>3. /\ BudgetStopped(T) \in Tracks /\ BudgetStopped(T).done = T.done
      /\ T.state = "RUNNING" => BudgetStopped(T).state = "BUDGET_EXCEEDED"
  BY DEF BudgetStopped, Edges
<1>4. /\ RunInterrupted(T) \in Tracks /\ RunInterrupted(T).done = T.done
      /\ T.state \in {"RUNNING", "WAITING_AT_GATE"} =>
           RunInterrupted(T).state = "INTERRUPTED"
  BY DEF RunInterrupted, Edges
<1> QED  BY <1>1, <1>2, <1>3, <1>4

LEMMA RunCancelledType ==
  ASSUME NEW T \in Tracks
  PROVE  /\ RunCancelled(T) \in Tracks
         /\ RunCancelled(T).done = T.done
         /\ T.state \in {"SUBMITTED", "RUNNING", "WAITING_AT_GATE"} =>
              RunCancelled(T).state = "CANCELLED"
<1> DEFINE M == Move(T, "cancel", "CANCELLED")
           C == [M EXCEPT !.open = NoKey]
<1>1. /\ M \in Tracks /\ M.done = T.done
      /\ T.state \in {"SUBMITTED", "RUNNING", "WAITING_AT_GATE"} => M.state = "CANCELLED"
  BY MoveType, MoveFrame DEF RunStates, Ended, Edges
<1> HIDE DEF M
<1>2. C \in Tracks /\ C.done = M.done /\ C.state = M.state  BY <1>1 DEF Tracks
<1>3. RunCancelled(T) = NoTokens(C)  BY DEF RunCancelled, M
<1> HIDE DEF C
<1> QED  BY <1>1, <1>2, <1>3, NoTokensType

LEMMA RetryRequestedType ==
  ASSUME NEW T \in Tracks
  PROVE  /\ RetryRequested(T) \in Tracks
         /\ RetryRequested(T).done = T.done
         /\ T.state \in {"FAILED", "INTERRUPTED", "BUDGET_EXCEEDED"} =>
              RetryRequested(T).state = "RUNNING"
<1> DEFINE M == Move(T, "retry", "RUNNING")
<1>1. /\ M \in Tracks /\ M.done = T.done
      /\ T.state \in {"FAILED", "INTERRUPTED", "BUDGET_EXCEEDED"} => M.state = "RUNNING"
  BY MoveType, MoveFrame DEF RunStates, Ended, Edges
<1>2. RetryRequested(T) =
        [M EXCEPT !.retries = IF T.state = "FAILED" THEN @ + 1 ELSE @]
  BY DEF RetryRequested
<1> HIDE DEF M
<1> QED  BY <1>1, <1>2 DEF Tracks

\* Facts about a step or a worker leave the run where it is.
LEMMA UsageType ==
  ASSUME NEW T \in Tracks, NEW known \in BOOLEAN, NEW amount \in Nat
  PROVE  /\ InteractionUsage(T, known, amount) \in Tracks
         /\ InteractionUsage(T, known, amount).state = T.state
         /\ InteractionUsage(T, known, amount).done = T.done
<1> DEFINE sum == IF known THEN T.spent + amount ELSE T.spent
           lost == T.unknown \/ ~known
<1>1. sum \in Nat  BY DEF Tracks
<1>2. lost \in BOOLEAN  OBVIOUS
<1>3. InteractionUsage(T, known, amount) = [T EXCEPT !.spent = sum, !.unknown = lost]
  BY DEF InteractionUsage
<1> HIDE DEF sum, lost
<1> QED  BY ZenonT(60), <1>1, <1>2, <1>3 DEF Tracks

LEMMA WorkerTypes ==
  ASSUME NEW T \in Tracks, NEW k \in Keys
  PROVE  /\ WorkerStarted(T, k) \in Tracks
         /\ WorkerStarted(T, k).state = T.state /\ WorkerStarted(T, k).done = T.done
         /\ WorkerStopped(T, k) \in Tracks
         /\ WorkerStopped(T, k).state = T.state /\ WorkerStopped(T, k).done = T.done
<1>1. /\ WorkerStarted(T, k) \in Tracks
      /\ WorkerStarted(T, k).state = T.state /\ WorkerStarted(T, k).done = T.done
  BY DEF WorkerStarted, Tracks
<1>2. /\ WorkerStopped(T, k) \in Tracks
      /\ WorkerStopped(T, k).state = T.state /\ WorkerStopped(T, k).done = T.done
  BY DEF WorkerStopped, Tracks
<1> QED  BY <1>1, <1>2

LEMMA StepFailedType ==
  ASSUME NEW T \in Tracks, NEW k \in Keys, NEW flag \in BOOLEAN
  PROVE  /\ StepFailed(T, k, flag) \in Tracks
         /\ StepFailed(T, k, flag).state = T.state /\ StepFailed(T, k, flag).done = T.done
  BY DEF StepFailed, Tracks

LEMMA StepCompletedType ==
  ASSUME NEW T \in Tracks, NEW k \in Keys, NEW e \in {k, NoKey}
  PROVE  /\ StepCompleted(T, k, e) \in Tracks
         /\ StepCompleted(T, k, e).state = T.state
         /\ StepCompleted(T, k, e).done = T.done \cup {k[1]}
<1> DEFINE done == T.done \cup {k[1]}
           kept == T.kept \cup {k}
           from == Put(T.from, k[1], e)
           pending == Put(T.approved, k[1], NoKey)
<1>0. k[1] \in Steps /\ e \in KeysOrNone /\ NoKey \in KeysOrNone  BY DEF Keys, KeysOrNone
<1>1. done \in SUBSET Steps  BY <1>0 DEF Tracks
<1>2. kept \in SUBSET Keys  BY DEF Tracks
<1>3. from \in PerStep  BY <1>0, PutType DEF Tracks
<1>4. pending \in PerStep  BY <1>0, PutType DEF Tracks
<1>5. StepCompleted(T, k, e) =
        [T EXCEPT !.done = done, !.approved = pending, !.from = from, !.kept = kept]
  BY DEF StepCompleted
<1>6. done = T.done \cup {k[1]}  OBVIOUS
<1> HIDE DEF done, kept, from, pending
<1> QED  BY ZenonT(60), <1>1, <1>2, <1>3, <1>4, <1>5, <1>6 DEF Tracks

--------------------------------------------------------------------------
(***************************************************************************)
(* Type correctness.  TypeOK is not inductive alone: a record names the    *)
(* attempt it is about, so a driver must have an attempt where it writes   *)
(* one.                                                                    *)
(***************************************************************************)
\* Where the driver works on an attempt.
Attempting == {"attempt", "materialize", "worker_up", "invoke", "interact",
               "read_envelope", "teardown", "td_wait", "td_exec", "stopped",
               "after", "keep"}

HasKey(t) == att[t].key \in Keys

KeyAt(t) ==
  /\ pc[t] \in Attempting => HasKey(t)
  /\ pc[t] = "finish" /\ pass[t].end \in {"fail", "escalate"} => HasKey(t)
  /\ att[t].teardownError => HasKey(t)
  /\ pc[t] = "keep_approved" =>
       \E s \in Steps : IsNext(snap[t], s) /\ snap[t].approved[s] # NoKey
  /\ call[t].kind = "decide" => call[t].named \in Keys

KeyInv == \A t \in Threads : KeyAt(t)

TypeInv == TypeOK /\ KeyInv

\* There is one next step.
LEMMA NextUnique ==
  ASSUME NEW T, NEW r \in Steps, NEW s \in Steps, IsNext(T, r), IsNext(T, s)
  PROVE  r = s
<1>1. r \in Int /\ s \in Int  BY NStepsAssumption DEF Steps
<1> QED  BY <1>1 DEF IsNext

LEMMA NewAttemptType ==
  ASSUME NEW k \in KeysOrNone
  PROVE  /\ NewAttempt(k) \in Attempts /\ NewAttempt(k).key = k
         /\ ~NewAttempt(k).teardownError
  BY DEF NewAttempt, Attempts, KeysOrNone, CogWorkers

LEMMA NewTypes ==
  /\ NewAdvancing \in Advancings /\ NewPass \in Passes
  /\ NoCall \in [kind : Kinds, outcome : Decisions, named : Keys \cup {NoKey}]
  /\ NoCall.kind = "start"
  BY DEF NewAdvancing, Advancings, NewPass, Passes, Ends, NoCall, Kinds, Decisions

LEMMA InitTypeInv == Init => TypeInv
<1> SUFFICES ASSUME Init PROVE TypeInv  OBVIOUS
<1>1. EmptyTrack \in Tracks  BY EmptyTrackType
<1>2. NewAttempt(NoKey) \in Attempts /\ ~NewAttempt(NoKey).teardownError
  BY NewAttemptType DEF KeysOrNone
<1>3. TypeOK
  BY <1>1, <1>2, NewTypes DEF Init, TypeOK, Labels, Hosts
<1>4. KeyInv
  BY <1>2, NewTypes DEF Init, KeyInv, KeyAt, Attempting
<1> QED  BY <1>3, <1>4 DEF TypeInv

\* A cancel's claim of the worker touches no attempt's key.
SameKeys ==
  \A t \in Threads : /\ att'[t].key = att[t].key
                     /\ att'[t].teardownError = att[t].teardownError

LEMMA Replaced ==
  ASSUME TypeOK, NEW h \in Threads, NEW b \in Attempts,
         b.key = att[h].key, b.teardownError = att[h].teardownError,
         att' = [att EXCEPT ![h] = b]
  PROVE  att' \in [Threads -> Attempts] /\ SameKeys
  BY DEF TypeOK, SameKeys

LEMMA Claimed ==
  ASSUME NEW a \in Attempts, NEW x \in {"busy", "ok", "failed"}
  PROVE  /\ [a EXCEPT !.released = TRUE, !.cancelTeardown = x] \in Attempts
         /\ [a EXCEPT !.released = TRUE, !.cancelTeardown = x].key = a.key
         /\ [a EXCEPT !.released = TRUE, !.cancelTeardown = x].teardownError
              = a.teardownError
         /\ [a EXCEPT !.cancelTeardown = x] \in Attempts
         /\ [a EXCEPT !.cancelTeardown = x].key = a.key
         /\ [a EXCEPT !.cancelTeardown = x].teardownError = a.teardownError
  BY DEF Attempts

LEMMA AcceptCancelKeys ==
  ASSUME TypeOK, NEW t \in Threads, AcceptCancel(t)
  PROVE  att' \in [Threads -> Attempts] /\ SameKeys
<1> DEFINE h == waitOn[t]
           b == [att[h] EXCEPT !.released = TRUE, !.cancelTeardown = "busy"]
<1>1. h \in Threads /\ att[h] \in Attempts  BY DEF AcceptCancel, TypeOK
<1>2. /\ b \in Attempts /\ b.key = att[h].key
      /\ b.teardownError = att[h].teardownError
  BY ZenonT(60), <1>1, Claimed
<1>3. att' = [att EXCEPT ![h] = b] \/ att' = att  BY DEF AcceptCancel
<1> HIDE DEF b
<1> QED  BY <1>1, <1>2, <1>3, Replaced DEF TypeOK, SameKeys

LEMMA CancelTeardownKeys ==
  ASSUME TypeOK, NEW t \in Threads, CancelTeardown(t)
  PROVE  att' \in [Threads -> Attempts] /\ SameKeys
<1> DEFINE h == waitOn[t]
<1>1. PICK x \in {"ok", "failed"} : att' = [att EXCEPT ![h].cancelTeardown = x]
  BY DEF CancelTeardown
<1>2. CASE h \in Threads
  <2> DEFINE b == [att[h] EXCEPT !.cancelTeardown = x]
  <2>1. att[h] \in Attempts  BY <1>2 DEF TypeOK
  <2>2. /\ b \in Attempts /\ b.key = att[h].key
        /\ b.teardownError = att[h].teardownError
    BY ZenonT(60), <2>1, Claimed
  <2>3. att' = [att EXCEPT ![h] = b]  BY <1>1
  <2> HIDE DEF b
  <2> QED  BY <1>2, <2>2, <2>3, Replaced
<1>3. CASE h \notin Threads
  <2>1. att' = att  BY <1>1, <1>3 DEF TypeOK
  <2> QED  BY <2>1 DEF TypeOK, SameKeys
<1> QED  BY <1>2, <1>3

LEMMA ClaimStepTypeInv ==
  ASSUME TypeInv, NEW t \in Threads, ClaimStep(t) PROVE TypeInv'
<1> USE DEF At, Goto, TypeInv
<1>0. NewAttempt(NoKey) \in Attempts /\ ~NewAttempt(NoKey).teardownError
  BY NewAttemptType DEF KeysOrNone
<1>1. CASE Acquire(t)
  <2>1. TypeOK'  BY <1>0, <1>1, NewTypes DEF TypeOK, Acquire, Labels, Holding
  <2>2. KeyInv'  BY <1>0, <1>1 DEF TypeOK, KeyInv, KeyAt, HasKey, IsNext, Acquire, Attempting
  <2> QED  BY <2>1, <2>2
<1>2. CASE Busy(t)
  <2>1. TypeOK'  BY <1>2 DEF TypeOK, Busy, Labels
  <2>2. KeyInv'  BY <1>2 DEF TypeOK, KeyInv, KeyAt, HasKey, IsNext, Busy, Attempting
  <2> QED  BY <2>1, <2>2
<1>3. CASE WaitFinished(t)
  <2>1. TypeOK'  BY <1>3 DEF TypeOK, WaitFinished, Labels
  <2>2. KeyInv'  BY <1>3 DEF TypeOK, KeyInv, KeyAt, HasKey, IsNext, WaitFinished, Attempting
  <2> QED  BY <2>1, <2>2
<1>4. CASE WaitAccepting(t)
  <2>1. TypeOK'  BY <1>4 DEF TypeOK, WaitAccepting, Labels
  <2>2. KeyInv'  BY <1>4 DEF TypeOK, KeyInv, KeyAt, HasKey, IsNext, WaitAccepting, Attempting
  <2> QED  BY <2>1, <2>2
<1>5. CASE Status(t)
  <2>1. TypeOK'  BY <1>5 DEF TypeOK, Status, Labels
  <2>2. KeyInv'  BY <1>5 DEF TypeOK, KeyInv, KeyAt, HasKey, IsNext, Status, Attempting
  <2> QED  BY <2>1, <2>2
<1>6. CASE AcceptCancel(t)
  <2> DEFINE h == waitOn[t]
  <2>1. h \in Threads  BY <1>6 DEF AcceptCancel, TypeOK
  <2>2. adv' \in [Threads -> Advancings]
    BY ZenonT(60), <1>6, <2>1 DEF AcceptCancel, TypeOK, Advancings
  <2>3. att' \in [Threads -> Attempts] /\ SameKeys  BY <1>6, AcceptCancelKeys
  <2>4. TypeOK'  BY <1>6, <2>2, <2>3 DEF TypeOK, AcceptCancel, Labels
  <2>5. KeyInv'  BY <1>6, <2>3 DEF SameKeys, TypeOK, KeyInv, KeyAt, HasKey, IsNext, AcceptCancel, Attempting
  <2> QED  BY <2>4, <2>5
<1>7. CASE CancelTeardown(t)
  <2>1. att' \in [Threads -> Attempts] /\ SameKeys  BY <1>7, CancelTeardownKeys
  <2>2. workers' \in SUBSET Keys  BY <1>7 DEF CancelTeardown, TypeOK
  <2>3. TypeOK'  BY <1>7, <2>1, <2>2 DEF TypeOK, CancelTeardown, Labels
  <2>4. KeyInv'  BY <1>7, <2>1 DEF SameKeys, TypeOK, KeyInv, KeyAt, HasKey, IsNext, CancelTeardown, Attempting
  <2> QED  BY <2>3, <2>4
<1>8. CASE Release(t)
  <2>1. TypeOK'  BY <1>8 DEF TypeOK, Release, Labels
  <2>2. KeyInv'  BY <1>8 DEF TypeOK, KeyInv, KeyAt, HasKey, IsNext, Release, Attempting
  <2> QED  BY <2>1, <2>2
<1>9. CASE LetGo(t)
  <2>1. TypeOK'  BY <1>0, <1>9, NewTypes, EmptyTrackType DEF TypeOK, LetGo, Labels
  <2>2. KeyInv'  BY <1>0, <1>9 DEF TypeOK, KeyInv, KeyAt, HasKey, IsNext, LetGo, Attempting
  <2> QED  BY <2>1, <2>2
<1> QED  BY <1>1, <1>2, <1>3, <1>4, <1>5, <1>6, <1>7, <1>8, <1>9 DEF ClaimStep

\* A call that has read the Track records at most one event, and goes on or leaves.
LEMMA EnteredTypeInv ==
  ASSUME TypeInv, NEW t \in Threads, Entered,
         \/ trk' = trk /\ snap' = snap
         \/ trk' \in Tracks /\ \E T \in Tracks : snap' = [snap EXCEPT ![t] = T],
         pc' = [pc EXCEPT ![t] = "open"] \/ pc' = [pc EXCEPT ![t] = "release"]
  PROVE  TypeInv'
<1> USE DEF TypeInv, Entered
<1>1. trk' \in Tracks /\ snap' \in [Threads -> Tracks]  BY DEF TypeOK
<1>2. pc' \in [Threads -> Labels]  BY DEF TypeOK, Labels, Holding, Driving
<1>3. TypeOK'  BY <1>1, <1>2 DEF TypeOK
<1>4. KeyInv'  BY DEF TypeOK, KeyInv, KeyAt, HasKey, IsNext, Attempting
<1> QED  BY <1>3, <1>4

LEMMA EnterStepTypeInv ==
  ASSUME TypeInv, NEW t \in Threads, EnterStep(t) PROVE TypeInv'
<1>0. trk \in Tracks /\ snap[t] \in Tracks  BY DEF TypeInv, TypeOK
<1> USE DEF At, Goto
<1>1. CASE Read(t)
  <2> USE DEF TypeInv
  <2>1. TypeOK'  BY <1>1 DEF TypeOK, Read, Labels, Holding, Driving
  <2>2. KeyInv'  BY <1>1 DEF TypeOK, KeyInv, KeyAt, HasKey, IsNext, Read, Attempting, Holding, Driving
  <2> QED  BY <2>1, <2>2
<1>2. CASE EnterSubmit(t)
  <2>1. OpSubmitted(trk) \in Tracks /\ OpSubmitted(snap[t]) \in Tracks
    BY <1>0, OpSubmittedType
  <2> QED  BY <1>2, <2>1, EnteredTypeInv DEF EnterSubmit, Append
<1>3. CASE EnterRetry(t)
  <2>1. RetryRequested(trk) \in Tracks /\ RetryRequested(snap[t]) \in Tracks
    BY <1>0, RetryRequestedType
  <2> QED  BY <1>3, <2>1, EnteredTypeInv DEF EnterRetry, Append
<1>4. CASE EnterDecide(t)
  <2> DEFINE k == call[t].named
  <2>1. \/ trk' = trk /\ snap' = snap
        \/ trk' \in Tracks /\ \E T \in Tracks : snap' = [snap EXCEPT ![t] = T]
    <3>1. k \in Keys  BY <1>4 DEF EnterDecide, Enters, TypeInv, KeyInv, KeyAt
    <3>2. \A T \in Tracks : /\ Approved(T, k) \in Tracks /\ Rejected(T, k) \in Tracks
                            /\ SentBack(T, k) \in Tracks
                            /\ RevisionsExhausted(T, k) \in Tracks
      <4> HIDE DEF k
      <4> QED  BY <3>1, ApprovedType, RejectedType, SentBackType, RevisionsExhaustedType
    <3> QED  BY <1>0, <1>4, <3>1, <3>2 DEF EnterDecide, Append
  <2>2. pc' = [pc EXCEPT ![t] = "open"] \/ pc' = [pc EXCEPT ![t] = "release"]
    BY <1>4 DEF EnterDecide
  <2>3. Entered  BY <1>4 DEF EnterDecide
  <2> QED  BY <2>1, <2>2, <2>3, EnteredTypeInv
<1>5. CASE EnterCancel(t)
  <2>1. RunCancelled(trk) \in Tracks /\ RunCancelled(snap[t]) \in Tracks
    BY <1>0, RunCancelledType
  <2> QED  BY <1>5, <2>1, EnteredTypeInv DEF EnterCancel, Append
<1>6. CASE EnterStart(t)
  <2>1. RunInterrupted(trk) \in Tracks /\ RunInterrupted(snap[t]) \in Tracks
    BY <1>0, EndTypes
  <2> QED  BY <1>6, <2>1, EnteredTypeInv DEF EnterStart, Append
<1> QED  BY <1>1, <1>2, <1>3, <1>4, <1>5, <1>6 DEF EnterStep

LEMMA TrackFields ==
  ASSUME NEW T \in Tracks
  PROVE  /\ T.spent \in Nat /\ T.unknown \in BOOLEAN
         /\ \A s \in Steps : <<s, Number(T, s)>> \in Keys
  BY DEF Tracks, Number, Keys

\* The values the driver gives the fields of its _Pass fit.
LEMMA PassFields ==
  ASSUME NEW p \in Passes, NEW n \in Nat, NEW b \in BOOLEAN, NEW e \in Ends
  PROVE  /\ [p EXCEPT !.end = e] \in Passes /\ [p EXCEPT !.end = e].end = e
         /\ [p EXCEPT !.reached = TRUE] \in Passes
         /\ [p EXCEPT !.tally = n, !.end = e] \in Passes
         /\ [p EXCEPT !.tally = n, !.end = e].end = e
         /\ [p EXCEPT !.tally = n, !.over = b, !.end = e] \in Passes
         /\ [p EXCEPT !.tally = n, !.over = b, !.end = e].end = e
  BY DEF Passes

\* A step in which t changes its own locals, the Track and the workers.
Own(t) ==
  /\ \A u \in Threads \ {t} :
       pc'[u] = pc[u] /\ snap'[u] = snap[u] /\ pass'[u] = pass[u] /\ att'[u] = att[u]
  /\ UNCHANGED <<claim, call, waitOn, late>>

OwnTypes ==
  /\ trk' \in Tracks
  /\ pc' \in [Threads -> Labels]
  /\ snap' \in [Threads -> Tracks]
  /\ adv' \in [Threads -> Advancings]
  /\ pass' \in [Threads -> Passes]
  /\ att' \in [Threads -> Attempts]
  /\ workers' \in SUBSET Keys
  /\ host' \in Hosts

LEMMA OwnStep ==
  ASSUME TypeInv, NEW t \in Threads, Own(t), OwnTypes, KeyAt(t)'
  PROVE  TypeInv'
<1>1. TypeOK'  BY DEF TypeInv, TypeOK, Own, OwnTypes
<1>2. ASSUME NEW u \in Threads \ {t} PROVE KeyAt(u)'
  <2>1. KeyAt(u)  BY DEF TypeInv, KeyInv
  <2>2. /\ pc'[u] = pc[u] /\ snap'[u] = snap[u] /\ pass'[u] = pass[u] /\ att'[u] = att[u]
        /\ call' = call
    BY DEF Own
  <2> QED  BY <2>1, <2>2 DEF KeyAt, HasKey, IsNext
<1>3. KeyInv'  BY <1>2 DEF KeyInv
<1> QED  BY <1>1, <1>3 DEF TypeInv

LEMMA EndEffect ==
  ASSUME TypeOK, NEW t \in Threads, NEW how \in Ends, End(t, how)
  PROVE  /\ pass' \in [Threads -> Passes] /\ pass'[t].end = how
         /\ pc' \in [Threads -> Labels] /\ pc'[t] = "finish"
         /\ \A u \in Threads \ {t} : pc'[u] = pc[u] /\ pass'[u] = pass[u]
<1>1. pass[t] \in Passes  BY DEF TypeOK
<1> DEFINE p == [pass[t] EXCEPT !.end = how]
<1>2. p \in Passes /\ p.end = how  BY <1>1, PassFields, 0 \in Nat, TRUE \in BOOLEAN
<1>3. pass' = [pass EXCEPT ![t] = p] /\ pc' = [pc EXCEPT ![t] = "finish"]
  BY DEF End, Goto
<1> HIDE DEF p
<1> QED  BY <1>2, <1>3 DEF TypeOK, Labels, Holding, Driving


LEMMA DriverStepTypeInv ==
  ASSUME TypeInv, NEW t \in Threads, DriverStep(t) PROVE TypeInv'
<1> USE DEF TypeInv
<1>0. TypeOK /\ KeyAt(t)  BY DEF KeyInv
<1>1. CASE Open(t)
  <2>1. adv' \in [Threads -> Advancings]  BY <1>0, <1>1 DEF Open, TypeOK, Advancings
  <2>2. OwnTypes /\ Own(t)
    BY <1>0, <1>1, <2>1 DEF OwnTypes, Own, TypeOK, Open, Goto, Labels, Holding, Driving
  <2>3. KeyAt(t)'  BY <1>0, <1>1 DEF KeyAt, HasKey, TypeOK, Open, Goto, Attempting
  <2> QED  BY <2>2, <2>3, OwnStep
<1>2. CASE PickUp(t)
  <2>1. PICK p \in Passes : pass' = [pass EXCEPT ![t] = p] /\ p.end \in {"usage", "none"}
    <3>1. pass[t] \in Passes /\ snap[t].spent \in Nat /\ TRUE \in BOOLEAN
          /\ "usage" \in Ends /\ "none" \in Ends
      BY <1>0, TrackFields DEF TypeOK, Ends
    <3>2. \A e \in Ends : /\ [pass[t] EXCEPT !.tally = snap[t].spent, !.end = e] \in Passes
                          /\ [pass[t] EXCEPT !.tally = snap[t].spent, !.end = e].end = e
      BY <3>1 DEF Passes
    <3> QED  BY <1>2, <3>1, <3>2 DEF PickUp
  <2>2. /\ trk' \in Tracks /\ snap' \in [Threads -> Tracks]
        /\ \A u \in Threads \ {t} : snap'[u] = snap[u]
    BY <1>0, <1>2, RunPickedUpType DEF PickUp, Append, TypeOK
  <2>3. /\ pc' = [pc EXCEPT ![t] = "finish"] \/ pc' = [pc EXCEPT ![t] = "loop"]
        /\ UNCHANGED <<claim, call, waitOn, adv, att, workers, late, host>>
    BY <1>2 DEF PickUp, Goto
  <2>4. OwnTypes /\ Own(t)
    BY <1>0, <2>1, <2>2, <2>3
       DEF OwnTypes, Own, TypeOK, Labels, Holding, Driving
  <2>5. KeyAt(t)'
    BY <1>0, <2>1, <2>3 DEF KeyAt, HasKey, TypeOK, Attempting
  <2> QED  BY <2>4, <2>5, OwnStep
<1>3. CASE LoopCancelled(t)
  <2>1. End(t, "cancel") /\ "cancel" \in Ends  BY <1>3 DEF LoopCancelled, Ends
  <2>2. OwnTypes /\ Own(t)
    BY <1>0, <1>3, <2>1, EndEffect DEF OwnTypes, Own, TypeOK, LoopCancelled, InLoop
  <2>3. KeyAt(t)'
    BY <1>0, <1>3, <2>1, EndEffect DEF KeyAt, HasKey, LoopCancelled, InLoop, Attempting
  <2> QED  BY <2>2, <2>3, OwnStep
<1>4. CASE LoopApproved(t)
  <2>1. PICK p \in Passes : pass' = [pass EXCEPT ![t] = p]
    <3>1. pass[t] \in Passes  BY <1>0 DEF TypeOK
    <3>2. [pass[t] EXCEPT !.reached = TRUE] \in Passes  BY <3>1 DEF Passes
    <3> QED  BY <1>4, <3>2 DEF LoopApproved
  <2>2. OwnTypes /\ Own(t)
    BY <1>0, <1>4, <2>1
       DEF OwnTypes, Own, TypeOK, LoopApproved, InLoop, Goto, Labels, Holding, Driving
  <2>3. KeyAt(t)'
    BY <1>0, <1>4 DEF KeyAt, HasKey, IsNext, TypeOK, LoopApproved, InLoop, Goto, Attempting
  <2> QED  BY <2>2, <2>3, OwnStep
<1>5. CASE LoopBudget(t)
  <2>1. End(t, "budget") /\ "budget" \in Ends  BY <1>5 DEF LoopBudget, Ends
  <2>2. OwnTypes /\ Own(t)
    BY <1>0, <1>5, <2>1, EndEffect DEF OwnTypes, Own, TypeOK, LoopBudget, InLoop
  <2>3. KeyAt(t)'
    BY <1>0, <1>5, <2>1, EndEffect DEF KeyAt, HasKey, LoopBudget, InLoop, Attempting
  <2> QED  BY <2>2, <2>3, OwnStep
<1>6. CASE Resolve(t)
  <2>1. PICK s \in Steps : att' = [att EXCEPT ![t] = NewAttempt(<<s, Number(snap[t], s)>>)]
    BY <1>6 DEF Resolve
  <2> DEFINE k == <<s, Number(snap[t], s)>>
             a == NewAttempt(k)
  <2>2. k \in Keys  BY <1>0, TrackFields DEF TypeOK
  <2>3. a \in Attempts /\ a.key = k /\ ~a.teardownError
    BY <2>2, NewAttemptType DEF KeysOrNone
  <2>4. att' = [att EXCEPT ![t] = a]  BY <2>1
  <2> HIDE DEF a
  <2>5. PICK p \in Passes : pass' = [pass EXCEPT ![t] = p]
    <3>1. pass[t] \in Passes  BY <1>0 DEF TypeOK
    <3>2. [pass[t] EXCEPT !.reached = TRUE] \in Passes  BY <3>1 DEF Passes
    <3> QED  BY <1>6, <3>2 DEF Resolve
  <2>6. OwnTypes /\ Own(t)
    BY <1>0, <1>6, <2>3, <2>4, <2>5
       DEF OwnTypes, Own, TypeOK, Resolve, InLoop, Goto, Labels, Holding, Driving
  <2>7. KeyAt(t)'
    BY <1>0, <1>6, <2>2, <2>3, <2>4
       DEF KeyAt, HasKey, TypeOK, Resolve, InLoop, Goto, Attempting
  <2> QED  BY <2>6, <2>7, OwnStep
<1>7. CASE LoopEnd(t)
  <2>1. PICK how \in {"budget", "complete"} : End(t, how) /\ how \in Ends
    BY <1>7 DEF LoopEnd, Ends
  <2>2. OwnTypes /\ Own(t)
    BY <1>0, <1>7, <2>1, EndEffect DEF OwnTypes, Own, TypeOK, LoopEnd, InLoop
  <2>3. KeyAt(t)'
    BY <1>0, <1>7, <2>1, EndEffect DEF KeyAt, HasKey, LoopEnd, InLoop, Attempting
  <2> QED  BY <2>2, <2>3, OwnStep
<1> QED  BY <1>1, <1>2, <1>3, <1>4, <1>5, <1>6, <1>7 DEF DriverStep

\* The updates the driver makes of its Attempt keep its key.
LEMMA AttemptFields ==
  ASSUME NEW a \in Attempts
  PROVE  /\ [a EXCEPT !.worker = TRUE] \in Attempts
         /\ [a EXCEPT !.worker = TRUE].key = a.key
         /\ [a EXCEPT !.started = TRUE] \in Attempts
         /\ [a EXCEPT !.started = TRUE].key = a.key
         /\ [a EXCEPT !.released = TRUE] \in Attempts
         /\ [a EXCEPT !.released = TRUE].key = a.key
         /\ [a EXCEPT !.teardownError = TRUE] \in Attempts
         /\ [a EXCEPT !.teardownError = TRUE].key = a.key
         /\ [a EXCEPT !.outcome = "escaped"] \in Attempts
         /\ [a EXCEPT !.outcome = "escaped"].key = a.key
  BY DEF Attempts

LEMMA OutcomeFields ==
  ASSUME NEW a \in Attempts, NEW answered \in BOOLEAN,
         NEW outcome \in {"broken", "ok", "error", "escaped"}
  PROVE  /\ [a EXCEPT !.answered = answered] \in Attempts
         /\ [a EXCEPT !.answered = answered].key = a.key
         /\ [a EXCEPT !.answered = answered, !.outcome = outcome] \in Attempts
         /\ [a EXCEPT !.answered = answered, !.outcome = outcome].key = a.key
  BY DEF Attempts

LEMMA CogFields ==
  ASSUME NEW a \in Attempts, NEW c \in CogWorkers
  PROVE  /\ [a EXCEPT !.cog = c] \in Attempts
         /\ [a EXCEPT !.cog = c].key = a.key
         /\ [a EXCEPT !.started = TRUE, !.cog = c] \in Attempts
         /\ [a EXCEPT !.started = TRUE, !.cog = c].key = a.key
         /\ [a EXCEPT !.released = TRUE, !.cog = c] \in Attempts
         /\ [a EXCEPT !.released = TRUE, !.cog = c].key = a.key
         /\ [a EXCEPT !.teardownError = TRUE, !.cog = c] \in Attempts
         /\ [a EXCEPT !.teardownError = TRUE, !.cog = c].key = a.key
  BY DEF Attempts

\* Where the worker's machine goes, it is in a state of its own.
LEMMA DispatchType ==
  ASSUME NEW state, NEW event PROVE Dispatch(state, event) \in CogWorkers
  BY DEF Dispatch, CogWorkers

LEMMA MovedType ==
  ASSUME NEW a \in Attempts
  PROVE  MovedForTeardown(a) \in CogWorkers /\ MovedByFailure(a) \in CogWorkers
<1>1. a.cog \in CogWorkers /\ "none" \in CogWorkers  BY DEF Attempts, CogWorkers
<1> QED  BY <1>1, DispatchType DEF MovedForTeardown, MovedByFailure

\* A step of the attempt of t: the attempt becomes a, the run's record is a fact.
LEMMA AttemptOwnStep ==
  ASSUME TypeInv, NEW t \in Threads, NEW l \in Labels, NEW a \in Attempts,
         HasKey(t), a.key = att[t].key, l # "keep_approved",
         pc' = [pc EXCEPT ![t] = l], att' = [att EXCEPT ![t] = a],
         trk' \in Tracks, snap' \in [Threads -> Tracks],
         \A u \in Threads \ {t} : snap'[u] = snap[u],
         workers' \in SUBSET Keys, host' \in Hosts,
         UNCHANGED <<claim, call, waitOn, adv, pass, late>>
  PROVE  TypeInv'
<1>1. OwnTypes /\ Own(t)  BY DEF TypeInv, TypeOK, OwnTypes, Own
<1>2. KeyAt(t)'
  <2>1. att'[t].key \in Keys  BY DEF TypeInv, TypeOK, HasKey
  <2>2. call'[t] = call[t] /\ pc'[t] # "keep_approved"  BY DEF TypeInv, TypeOK
  <2>3. KeyAt(t)  BY DEF TypeInv, KeyInv
  <2> QED  BY <2>1, <2>2, <2>3 DEF KeyAt, HasKey
<1> QED  BY <1>1, <1>2, OwnStep

LEMMA AttemptStepTypeInv ==
  ASSUME TypeInv, NEW t \in Threads, AttemptStep(t) PROVE TypeInv'
<1> USE DEF TypeInv
<1>0. /\ TypeOK /\ KeyAt(t) /\ att[t] \in Attempts /\ snap[t] \in Tracks /\ trk \in Tracks
      /\ att[t].known \in BOOLEAN /\ att[t].amount \in Nat /\ host \in Hosts
  BY SMTT(40) DEF KeyInv, TypeOK, Attempts
<1>1. CASE BeginAttempt(t)
  <2>1. HasKey(t)  BY <1>0, <1>1 DEF KeyAt, BeginAttempt, At, Attempting
  <2>2. \E l \in {"after", "materialize"} : pc' = [pc EXCEPT ![t] = l]  BY <1>1 DEF BeginAttempt, Goto
  <2>3. att' = [att EXCEPT ![t] = att[t]]  BY <1>0, <1>1 DEF BeginAttempt, TypeOK
  <2>4. UNCHANGED <<trk, snap, workers, claim, call, waitOn, adv, pass, late, host>>
    BY <1>1 DEF BeginAttempt, InAttempt
  <2> QED  BY <1>0, <2>1, <2>2, <2>3, <2>4, AttemptOwnStep DEF TypeOK, Labels, Holding, Driving
<1>2. CASE Materialize(t)
  <2>1. HasKey(t)  BY SMTT(40), <1>0, <1>2 DEF KeyAt, Materialize, At, Attempting
  <2>2. CASE workers' = workers \cup {att[t].key} /\ att' = [att EXCEPT ![t].worker = TRUE]
              /\ pc' = [pc EXCEPT ![t] = "worker_up"]
    <3> DEFINE a == [att[t] EXCEPT !.worker = TRUE]
    <3>1. a \in Attempts /\ a.key = att[t].key /\ att' = [att EXCEPT ![t] = a]
      BY <1>0, <2>2, AttemptFields
    <3>2. workers' \in SUBSET Keys  BY <2>1, <2>2 DEF TypeOK, HasKey
    <3>3. UNCHANGED <<trk, snap, claim, call, waitOn, adv, pass, late, host>>
      BY <1>2 DEF Materialize, InAttempt
    <3> HIDE DEF a
    <3> QED  BY ZenonT(60), <1>0, <2>1, <2>2, <3>1, <3>2, <3>3, AttemptOwnStep
             DEF TypeOK, Labels, Holding, Driving
  <2>3. CASE pc' = [pc EXCEPT ![t] = "after"] /\ UNCHANGED <<att, workers>>
    <3>1. UNCHANGED <<trk, snap, claim, call, waitOn, adv, pass, late, host>>
      BY <1>2 DEF Materialize, InAttempt
    <3>2. att' = [att EXCEPT ![t] = att[t]]  BY <2>3 DEF TypeOK
    <3> QED  BY <1>0, <2>1, <2>3, <3>1, <3>2, AttemptOwnStep
             DEF TypeOK, Labels, Holding, Driving
  <2> QED  BY <1>2, <2>2, <2>3 DEF Materialize, Goto
<1>3. CASE WorkerUp(t)
  <2>1. HasKey(t)  BY <1>0, <1>3 DEF KeyAt, WorkerUp, At, Attempting
  <2> DEFINE c == Dispatch("MATERIALIZED", "ready")
             a == [att[t] EXCEPT !.started = TRUE, !.cog = c]
  <2>2. a \in Attempts /\ a.key = att[t].key /\ att' = [att EXCEPT ![t] = a]
    <3>1. c \in CogWorkers /\ att' = [att EXCEPT ![t] = a]  BY <1>3, DispatchType DEF WorkerUp
    <3> HIDE DEF c
    <3> QED  BY <1>0, <3>1, CogFields
  <2>3. /\ trk' \in Tracks /\ snap' \in [Threads -> Tracks]
        /\ \A u \in Threads \ {t} : snap'[u] = snap[u]
    <3>1. WorkerStarted(trk, att[t].key) \in Tracks /\ WorkerStarted(snap[t], att[t].key) \in Tracks
      BY <1>0, <2>1, WorkerTypes DEF HasKey
    <3> QED  BY <1>3, <3>1 DEF WorkerUp, Append, TypeOK
  <2>4. /\ UNCHANGED <<workers, claim, call, waitOn, adv, pass, late, host>>
        /\ pc' = [pc EXCEPT ![t] = "invoke"]
    BY SMTT(40), <1>3 DEF WorkerUp, InAttempt, Goto
  <2> HIDE DEF a
  <2> QED  BY <1>0, <2>1, <2>2, <2>3, <2>4, AttemptOwnStep DEF TypeOK, Labels, Holding, Driving
<1>4. CASE Invoke(t)
  <2>1. HasKey(t)  BY <1>0, <1>4 DEF KeyAt, Invoke, At, Attempting
  <2> DEFINE c == Dispatch(att[t].cog, "invoke")
             a == [att[t] EXCEPT !.cog = c]
  <2>2. \E l \in {"teardown", "interact"} : pc' = [pc EXCEPT ![t] = l]  BY <1>4 DEF Invoke, Goto
  <2>3. att' = [att EXCEPT ![t] = att[t]] \/ att' = [att EXCEPT ![t] = a]
    BY <1>0, <1>4 DEF Invoke, TypeOK
  <2>4. UNCHANGED <<trk, snap, workers, claim, call, waitOn, adv, pass, late, host>>
    BY <1>4 DEF Invoke, InAttempt
  <2>5. a \in Attempts /\ a.key = att[t].key
    <3>1. c \in CogWorkers  BY SMTT(40), DispatchType
    <3> HIDE DEF c
    <3> QED  BY ZenonT(60), <1>0, <3>1, CogFields
  <2> HIDE DEF a
  <2> QED  BY ZenonT(60), <1>0, <2>1, <2>2, <2>3, <2>4, <2>5, AttemptOwnStep DEF TypeOK, Labels, Holding, Driving
<1>5. CASE Interact(t)
  <2>1. PICK kind \in {"ok", "error", "not_json", "raised"}, severity \in {"none", "warn", "error"},
             known \in BOOLEAN, amount \in Nat : Answer(t, kind, severity, known, amount)
    <3>1. \A u \in Reports : u.known \in BOOLEAN /\ u.amount \in Nat
      <4>1. ASSUME NEW u \in [known : {TRUE}, amount : Usages]
            PROVE  u.known \in BOOLEAN /\ u.amount \in Nat
        BY PolicyAssumption
      <4>2. ASSUME NEW u \in [known : {FALSE}, amount : {0}]
            PROVE  u.known \in BOOLEAN /\ u.amount \in Nat
        <5>1. u.known \in BOOLEAN  BY Zenon
        <5>2. u.amount \in Nat  OBVIOUS
        <5> QED  BY <5>1, <5>2
      <4> QED  BY <4>1, <4>2 DEF Reports
    <3> QED  BY <1>5, <3>1, PolicyAssumption DEF Interact
  <2>2. HasKey(t)  BY <1>0, <2>1 DEF KeyAt, Answer, At, Attempting
  <2> DEFINE a == [att[t] EXCEPT !.answer = kind, !.severity = severity,
                                 !.known = known, !.amount = amount]
  <2>3. a \in Attempts /\ a.key = att[t].key
    BY ZenonT(60), <1>0, <2>1 DEF Attempts
  <2>4. /\ UNCHANGED <<trk, snap, workers, claim, call, waitOn, adv, pass, late, host>>
        /\ pc' = [pc EXCEPT ![t] = "read_envelope"] /\ att' = [att EXCEPT ![t] = a]
    BY <2>1 DEF Answer, InAttempt, Goto
  <2> HIDE DEF a
  <2> QED  BY <1>0, <2>2, <2>3, <2>4, AttemptOwnStep DEF TypeOK, Labels, Holding, Driving
<1>6. CASE ReadEnvelope(t)
  <2>1. HasKey(t)  BY <1>0, <1>6 DEF KeyAt, ReadEnvelope, At, Attempting
  <2> DEFINE b == att[t].answer \in {"ok", "error"}
             o == Outcome(att[t])
             a == [att[t] EXCEPT !.answered = b, !.outcome = o]
  <2>2. a \in Attempts /\ a.key = att[t].key /\ att' = [att EXCEPT ![t] = a]
    <3>1. b \in BOOLEAN /\ o \in {"broken", "ok", "error", "escaped"}  BY DEF Outcome
    <3>2. att' = [att EXCEPT ![t] = a]  BY <1>6 DEF ReadEnvelope
    <3> HIDE DEF b, o
    <3> QED  BY ZenonT(60), <1>0, <3>1, <3>2, OutcomeFields
  <2>3. /\ trk' \in Tracks /\ snap' \in [Threads -> Tracks]
        /\ \A u \in Threads \ {t} : snap'[u] = snap[u]
    <3>1. /\ InteractionUsage(trk, att[t].known, att[t].amount) \in Tracks
          /\ InteractionUsage(snap[t], att[t].known, att[t].amount) \in Tracks
      BY <1>0, UsageType
    <3> QED  BY <1>6, <3>1 DEF ReadEnvelope, Append, TypeOK
  <2>4. /\ UNCHANGED <<workers, claim, call, waitOn, adv, pass, late, host>>
        /\ pc' = [pc EXCEPT ![t] = "teardown"]
    BY <1>6 DEF ReadEnvelope, InAttempt, Goto
  <2> HIDE DEF a
  <2> QED  BY <1>0, <2>1, <2>2, <2>3, <2>4, AttemptOwnStep DEF TypeOK, Labels, Holding, Driving
<1>7. CASE ClaimTeardown(t)
  <2>1. HasKey(t)  BY <1>0, <1>7 DEF KeyAt, ClaimTeardown, At, Attempting
  <2> DEFINE c == MovedForTeardown(att[t])
             a == [att[t] EXCEPT !.released = TRUE, !.cog = c]
  <2>2. a \in Attempts /\ a.key = att[t].key /\ att' = [att EXCEPT ![t] = a]
    <3>1. c \in CogWorkers /\ att' = [att EXCEPT ![t] = a]  BY <1>0, <1>7, MovedType DEF ClaimTeardown
    <3> HIDE DEF c
    <3> QED  BY <1>0, <3>1, CogFields
  <2>3. /\ UNCHANGED <<trk, snap, workers, claim, call, waitOn, adv, pass, late, host>>
        /\ \E l \in {"td_wait", "td_exec"} : pc' = [pc EXCEPT ![t] = l]
    BY <1>7 DEF ClaimTeardown, InAttempt, Goto
  <2> HIDE DEF a
  <2> QED  BY ZenonT(60), <1>0, <2>1, <2>2, <2>3, AttemptOwnStep DEF TypeOK, Labels, Holding, Driving
<1>8. CASE TeardownWait(t)
  <2>1. HasKey(t)  BY <1>0, <1>8 DEF KeyAt, TeardownWait, At, Attempting
  <2>2. \E l \in {"td_exec", "stopped"} : pc' = [pc EXCEPT ![t] = l]  BY <1>8 DEF TeardownWait, Goto
  <2>3. att' = [att EXCEPT ![t] = att[t]]  BY <1>0, <1>8 DEF TeardownWait, TypeOK
  <2>4. UNCHANGED <<trk, snap, workers, claim, call, waitOn, adv, pass, late, host>>
    BY <1>8 DEF TeardownWait, InAttempt
  <2> QED  BY ZenonT(60), <1>0, <2>1, <2>2, <2>3, <2>4, AttemptOwnStep DEF TypeOK, Labels, Holding, Driving
<1>9. CASE Teardown(t)
  <2>1. HasKey(t)  BY SMTT(40), <1>0, <1>9 DEF KeyAt, Teardown, At, Attempting
  <2> DEFINE c == MovedByFailure(att[t])
             a == [att[t] EXCEPT !.teardownError = TRUE, !.cog = c]
  <2>2. a \in Attempts /\ a.key = att[t].key
    <3>1. c \in CogWorkers  BY <1>0, MovedType
    <3> HIDE DEF c
    <3> QED  BY <1>0, <3>1, CogFields
  <2>3. /\ UNCHANGED <<trk, snap, claim, call, waitOn, adv, pass, late, host>>
        /\ pc' = [pc EXCEPT ![t] = "stopped"]
        /\ workers' \in SUBSET Keys
        /\ att' = [att EXCEPT ![t] = a] \/ att' = [att EXCEPT ![t] = att[t]]
    BY SMTT(40), <1>9 DEF Teardown, InAttempt, Goto, TypeOK
  <2> HIDE DEF a
  <2> QED  BY ZenonT(60), <1>0, <2>1, <2>2, <2>3, AttemptOwnStep DEF TypeOK, Labels, Holding, Driving
<1>10. CASE Stopped(t)
  <2>1. HasKey(t)  BY <1>0, <1>10 DEF KeyAt, Stopped, At, Attempting
  <2>2. /\ trk' \in Tracks /\ snap' \in [Threads -> Tracks]
        /\ \A u \in Threads \ {t} : snap'[u] = snap[u]
    <3>1. WorkerStopped(trk, att[t].key) \in Tracks /\ WorkerStopped(snap[t], att[t].key) \in Tracks
      BY <1>0, <2>1, WorkerTypes DEF HasKey
    <3> QED  BY <1>10, <3>1 DEF Stopped, Append, TypeOK
  <2>3. att' = [att EXCEPT ![t] = att[t]]  BY <1>0, <1>10 DEF Stopped, TypeOK
  <2>4. /\ UNCHANGED <<workers, claim, call, waitOn, adv, pass, late, host>>
        /\ pc' = [pc EXCEPT ![t] = "after"]
    BY <1>10 DEF Stopped, InAttempt, Goto
  <2> QED  BY <1>0, <2>1, <2>2, <2>3, <2>4, AttemptOwnStep DEF TypeOK, Labels, Holding, Driving
<1> QED  BY <1>1, <1>2, <1>3, <1>4, <1>5, <1>6, <1>7, <1>8, <1>9, <1>10 DEF AttemptStep

\* A step with which t leaves what it did, its attempt unchanged.
LEMMA LeavingStep ==
  ASSUME TypeInv, NEW t \in Threads, NEW l \in {"release", "finish_second", "loop"},
         pc' = [pc EXCEPT ![t] = l],
         trk' \in Tracks, snap' \in [Threads -> Tracks],
         \A u \in Threads \ {t} : snap'[u] = snap[u],
         adv' \in [Threads -> Advancings], host' \in Hosts,
         UNCHANGED <<claim, call, waitOn, pass, att, workers, late>>
  PROVE  TypeInv'
<1>1. OwnTypes /\ Own(t)
  BY DEF TypeInv, TypeOK, OwnTypes, Own, Labels, Holding, Driving
<1>2. KeyAt(t)'
  <2>1. KeyAt(t) /\ pc'[t] = l  BY DEF TypeInv, KeyInv, TypeOK
  <2> QED  BY <2>1 DEF KeyAt, HasKey, Attempting
<1> QED  BY <1>1, <1>2, OwnStep

\* A step with which t goes to write the run's end.
LEMMA EndingStep ==
  ASSUME TypeInv, NEW t \in Threads, NEW how \in Ends, End(t, how),
         how \in {"fail", "escalate"} => HasKey(t),
         trk' \in Tracks, snap' \in [Threads -> Tracks],
         \A u \in Threads \ {t} : snap'[u] = snap[u],
         UNCHANGED <<claim, call, waitOn, adv, att, workers, late, host>>
  PROVE  TypeInv'
<1>1. OwnTypes /\ Own(t)  BY EndEffect DEF TypeInv, TypeOK, OwnTypes, Own
<1>2. KeyAt(t)'
  <2>1. KeyAt(t) /\ pc'[t] = "finish" /\ pass'[t].end = how
    BY EndEffect DEF TypeInv, KeyInv
  <2> QED  BY <2>1 DEF KeyAt, HasKey, Attempting
<1> QED  BY <1>1, <1>2, OwnStep

LEMMA KeepTypeInv ==
  ASSUME TypeInv, NEW t \in Threads, NEW T1 \in Tracks, NEW T2 \in Tracks,
         UNCHANGED <<claim, call, waitOn, adv, att, workers, late, host>>,
         \/ End(t, "cancel") /\ UNCHANGED <<trk, snap>>
         \/ /\ trk' = T1 /\ snap' = [snap EXCEPT ![t] = T2]
            /\ End(t, "budget") \/ (pc' = [pc EXCEPT ![t] = "loop"] /\ UNCHANGED pass)
  PROVE  TypeInv'
<1>1. TypeOK /\ "cancel" \in Ends /\ "budget" \in Ends  BY DEF TypeInv, Ends
<1>2. CASE End(t, "cancel") /\ UNCHANGED <<trk, snap>>
  BY <1>1, <1>2, EndingStep DEF TypeOK
<1>3. CASE /\ trk' = T1 /\ snap' = [snap EXCEPT ![t] = T2]
           /\ End(t, "budget") \/ (pc' = [pc EXCEPT ![t] = "loop"] /\ UNCHANGED pass)
  <2>1. /\ trk' \in Tracks /\ snap' \in [Threads -> Tracks]
        /\ \A u \in Threads \ {t} : snap'[u] = snap[u]
    BY <1>1, <1>3 DEF TypeOK
  <2>2. CASE End(t, "budget")  BY <1>1, <2>1, <2>2, EndingStep
  <2>3. CASE pc' = [pc EXCEPT ![t] = "loop"] /\ UNCHANGED pass
    BY <1>1, <2>1, <2>3, LeavingStep DEF TypeOK
  <2> QED  BY <1>3, <2>2, <2>3
<1> QED  BY <1>2, <1>3

LEMMA EndStepTypeInv ==
  ASSUME TypeInv, NEW t \in Threads, EndStep(t) PROVE TypeInv'
<1> USE DEF TypeInv
<1>0. /\ TypeOK /\ KeyAt(t) /\ att[t] \in Attempts /\ snap[t] \in Tracks /\ trk \in Tracks
      /\ att[t].teardownError \in BOOLEAN /\ host \in Hosts
  BY DEF KeyInv, TypeOK, Attempts
<1>a. ASSUME Finishes(t)
      PROVE  /\ adv' \in [Threads -> Advancings]
             /\ UNCHANGED <<claim, call, waitOn, pass, att, workers, late, host>>
  BY <1>0, <1>a DEF Finishes, TypeOK, Advancings
<1>b. ASSUME HasKey(t), NEW flag \in BOOLEAN
      PROVE  /\ StepFailed(trk, att[t].key, flag) \in Tracks
             /\ StepFailed(snap[t], att[t].key, flag) \in Tracks
             /\ GateEscalated(trk, att[t].key) \in Tracks
             /\ GateEscalated(snap[t], att[t].key) \in Tracks
             /\ StepCompleted(trk, att[t].key, NoKey) \in Tracks
             /\ StepCompleted(snap[t], att[t].key, NoKey) \in Tracks
  BY <1>0, <1>b, StepFailedType, StepCompletedType, GateEscalatedType DEF HasKey
<1>1. CASE AfterNoResult(t)
  <2>1. PICK how \in {"cancel", "fail"} : End(t, how)  BY <1>1 DEF AfterNoResult
  <2>2. how \in Ends /\ HasKey(t)  BY <1>0, <1>1 DEF Ends, AfterNoResult, At, KeyAt, Attempting
  <2>3. UNCHANGED <<trk, snap, claim, call, waitOn, adv, att, workers, late, host>>
    BY <1>1 DEF AfterNoResult, InLoop
  <2> QED  BY <1>0, <2>1, <2>2, <2>3, EndingStep DEF TypeOK
<1>2. CASE AfterResult(t)
  <2>1. HasKey(t)  BY <1>0, <1>2 DEF AfterResult, At, KeyAt, Attempting
  <2>2. PICK p \in Passes, l \in {"finish", "keep"} :
          pass' = [pass EXCEPT ![t] = p] /\ pc' = [pc EXCEPT ![t] = l]
    <3> DEFINE n == Consumed(t)
               b == Exceeded(Consumed(t))
               e == IF Escalates(GateOf[att[t].key[1]], att[t].severity)
                    THEN "escalate" ELSE "none"
               p == [pass[t] EXCEPT !.tally = n, !.over = b, !.end = e]
    <3>1. /\ pass' = [pass EXCEPT ![t] = p]
          /\ pc' = [pc EXCEPT ![t] = "finish"] \/ pc' = [pc EXCEPT ![t] = "keep"]
      BY <1>2 DEF AfterResult, Goto
    <3>2. n \in Nat  BY <1>0 DEF Consumed, TypeOK, Passes, Attempts
    <3>3. b \in BOOLEAN /\ e \in Ends  BY DEF Exceeded, Ends
    <3>4. pass[t] \in Passes  BY <1>0 DEF TypeOK
    <3> HIDE DEF n, b, e
    <3>5. p \in Passes  BY <3>2, <3>3, <3>4 DEF Passes
    <3> HIDE DEF p
    <3> QED  BY <3>1, <3>5
  <2>3. UNCHANGED <<trk, snap, claim, call, waitOn, adv, att, workers, late, host>>
    BY <1>2 DEF AfterResult, InLoop
  <2>4. OwnTypes /\ Own(t)
    BY <1>0, <2>2, <2>3 DEF OwnTypes, Own, TypeOK, Labels, Holding, Driving
  <2>5. KeyAt(t)'
    <3>1. pc'[t] # "keep_approved"  BY <1>0, <2>2 DEF TypeOK
    <3> QED  BY <1>0, <2>1, <2>3, <3>1 DEF KeyAt, HasKey
  <2> QED  BY <2>4, <2>5, OwnStep
<1>3. CASE AfterEscaped(t)
  <2>1. /\ UNCHANGED <<trk, snap, pass, claim, call, waitOn, adv, att, workers, late, host>>
        /\ pc' = [pc EXCEPT ![t] = "release"]
    BY <1>3 DEF AfterEscaped, InLoop, Goto
  <2> QED  BY <1>0, <2>1, LeavingStep DEF TypeOK
<1>4. CASE Keep(t)
  <2>1. HasKey(t)  BY <1>0, <1>4 DEF Keep, At, KeyAt, Attempting
  <2>2. /\ \/ End(t, "cancel") /\ UNCHANGED <<trk, snap>>
           \/ /\ trk' = StepCompleted(trk, att[t].key, NoKey)
              /\ snap' = [snap EXCEPT ![t] = StepCompleted(snap[t], att[t].key, NoKey)]
              /\ End(t, "budget") \/ (pc' = [pc EXCEPT ![t] = "loop"] /\ UNCHANGED pass)
        /\ UNCHANGED <<claim, call, waitOn, adv, att, workers, late, host>>
    BY <1>4 DEF Keep, KeepUnlessCancelled, Append, InLoop, Goto
  <2>3. /\ StepCompleted(trk, att[t].key, NoKey) \in Tracks
        /\ StepCompleted(snap[t], att[t].key, NoKey) \in Tracks
    BY <2>1, <1>b
  <2> QED  BY <2>2, <2>3, KeepTypeInv
<1>5. CASE KeepApproved(t)
  <2>1. PICK s \in Steps :
          /\ IsNext(snap[t], s)
          /\ KeepUnlessCancelled(t, LAMBDA T : StepCompleted(T, snap[t].approved[s],
                                                             snap[t].approved[s]))
    BY <1>5 DEF KeepApproved
  <2> DEFINE k == snap[t].approved[s]
  <2>2. k \in Keys
    <3>1. PICK r \in Steps : IsNext(snap[t], r) /\ snap[t].approved[r] # NoKey
      BY <1>0, <1>5 DEF KeepApproved, At, KeyAt
    <3>2. r = s  BY <2>1, <3>1, NextUnique
    <3> QED  BY <1>0, <3>1, <3>2 DEF Tracks, PerStep
  <2>3. /\ \/ End(t, "cancel") /\ UNCHANGED <<trk, snap>>
           \/ /\ trk' = StepCompleted(trk, k, k)
              /\ snap' = [snap EXCEPT ![t] = StepCompleted(snap[t], k, k)]
              /\ End(t, "budget") \/ (pc' = [pc EXCEPT ![t] = "loop"] /\ UNCHANGED pass)
        /\ UNCHANGED <<claim, call, waitOn, adv, att, workers, late, host>>
    BY <1>5, <2>1 DEF KeepApproved, KeepUnlessCancelled, Append, InLoop, Goto
  <2> HIDE DEF k
  <2>4. StepCompleted(trk, k, k) \in Tracks /\ StepCompleted(snap[t], k, k) \in Tracks
    BY <1>0, <2>2, StepCompletedType
  <2> QED  BY <2>3, <2>4, KeepTypeInv
<1>6. CASE FinishCancelled(t)
  <2>1. Finishes(t)  BY <1>6 DEF FinishCancelled
  <2>2. CASE att[t].teardownError
    <3>1. HasKey(t)  BY <1>0, <2>2 DEF KeyAt
    <3>2. /\ trk' = StepFailed(trk, att[t].key, TRUE)
          /\ snap' = [snap EXCEPT ![t] = StepFailed(snap[t], att[t].key, TRUE)]
          /\ pc' = [pc EXCEPT ![t] = "finish_second"]
      BY <1>6, <2>2 DEF FinishCancelled, Append, Goto
    <3>3. /\ StepFailed(trk, att[t].key, TRUE) \in Tracks
          /\ StepFailed(snap[t], att[t].key, TRUE) \in Tracks
      BY <3>1, <1>b
    <3> QED  BY <1>0, <1>a, <2>1, <3>2, <3>3, LeavingStep DEF TypeOK
  <2>3. CASE ~att[t].teardownError
    <3>1. /\ trk' = RunCancelled(trk)
          /\ snap' = [snap EXCEPT ![t] = RunCancelled(snap[t])]
          /\ pc' = [pc EXCEPT ![t] = "release"]
      BY <1>6, <2>3 DEF FinishCancelled, Append, Goto
    <3> QED  BY <1>0, <1>a, <2>1, <3>1, RunCancelledType, LeavingStep DEF TypeOK
  <2> QED  BY <2>2, <2>3
<1>7. CASE FailStep(t)
  <2>1. Finishes(t) /\ HasKey(t)
    BY <1>0, <1>7 DEF FailStep, Ending, Finishes, At, KeyAt
  <2>2. /\ trk' = StepFailed(trk, att[t].key, att[t].teardownError)
        /\ snap' = [snap EXCEPT ![t] = StepFailed(snap[t], att[t].key, att[t].teardownError)]
        /\ pc' = [pc EXCEPT ![t] = "finish_second"]
    BY <1>7 DEF FailStep, Append, Goto
  <2>3. /\ StepFailed(trk, att[t].key, att[t].teardownError) \in Tracks
        /\ StepFailed(snap[t], att[t].key, att[t].teardownError) \in Tracks
    BY <1>0, <2>1, <1>b
  <2> QED  BY <1>0, <1>a, <2>1, <2>2, <2>3, LeavingStep DEF TypeOK
<1>8. CASE Escalate(t)
  <2>1. Finishes(t) /\ HasKey(t)
    BY <1>0, <1>8 DEF Escalate, Ending, Finishes, At, KeyAt
  <2>2. /\ trk' = GateEscalated(trk, att[t].key)
        /\ snap' = [snap EXCEPT ![t] = GateEscalated(snap[t], att[t].key)]
        /\ pc' = [pc EXCEPT ![t] = "release"]
    BY <1>8 DEF Escalate, Append, Goto
  <2>3. /\ GateEscalated(trk, att[t].key) \in Tracks
        /\ GateEscalated(snap[t], att[t].key) \in Tracks
    BY <2>1, GateEscalatedType, <1>0 DEF HasKey
  <2> QED  BY <1>0, <1>a, <2>1, <2>2, <2>3, LeavingStep DEF TypeOK
<1>9. CASE StopForBudget(t)
  <2>1. /\ Finishes(t)
        /\ trk' = BudgetStopped(trk) /\ snap' = [snap EXCEPT ![t] = BudgetStopped(snap[t])]
        /\ pc' = [pc EXCEPT ![t] = "release"]
    BY <1>9 DEF StopForBudget, Ending, Append, Goto
  <2> QED  BY <1>0, <1>a, <2>1, EndTypes, LeavingStep DEF TypeOK
<1>10. CASE FailUnaccounted(t)
  <2>1. /\ Finishes(t)
        /\ trk' = RunFailed(trk) /\ snap' = [snap EXCEPT ![t] = RunFailed(snap[t])]
        /\ pc' = [pc EXCEPT ![t] = "release"]
    BY <1>10 DEF FailUnaccounted, Ending, Append, Goto
  <2> QED  BY <1>0, <1>a, <2>1, EndTypes, LeavingStep DEF TypeOK
<1>11. CASE Complete(t)
  <2>1. /\ Finishes(t)
        /\ trk' = RunCompleted(trk) /\ snap' = [snap EXCEPT ![t] = RunCompleted(snap[t])]
        /\ pc' = [pc EXCEPT ![t] = "release"]
    BY <1>11 DEF Complete, Ending, Append, Goto
  <2> QED  BY <1>0, <1>a, <2>1, EndTypes, LeavingStep DEF TypeOK
<1>12. CASE FinishSecond(t)
  <2>1. /\ \/ trk' = RunCancelled(trk) /\ snap' = [snap EXCEPT ![t] = RunCancelled(snap[t])]
           \/ trk' = RunFailed(trk) /\ snap' = [snap EXCEPT ![t] = RunFailed(snap[t])]
        /\ pc' = [pc EXCEPT ![t] = "release"]
        /\ UNCHANGED <<claim, call, waitOn, adv, pass, att, workers, late, host>>
    BY <1>12 DEF FinishSecond, Append, Goto
  <2>2. /\ RunCancelled(trk) \in Tracks /\ RunCancelled(snap[t]) \in Tracks
        /\ RunFailed(trk) \in Tracks /\ RunFailed(snap[t]) \in Tracks
    BY <1>0, RunCancelledType, EndTypes
  <2>3. /\ trk' \in Tracks /\ snap' \in [Threads -> Tracks]
        /\ \A u \in Threads \ {t} : snap'[u] = snap[u]
    BY <1>0, <2>1, <2>2 DEF TypeOK
  <2> QED  BY <1>0, <2>1, <2>3, LeavingStep DEF TypeOK
<1> QED  BY <1>1, <1>2, <1>3, <1>4, <1>5, <1>6, <1>7, <1>8, <1>9, <1>10, <1>11, <1>12
         DEF EndStep

LEMMA FailedWriteTypeInv ==
  ASSUME TypeInv, NEW t \in Threads, FailedWrite(t) PROVE TypeInv'
<1> USE DEF TypeInv
<1>0. /\ TypeOK /\ KeyAt(t) /\ att[t] \in Attempts /\ snap[t] \in Tracks /\ trk \in Tracks
  BY DEF KeyInv, TypeOK
<1>a. ASSUME NEW l, WriteFailed(t, l)
      PROVE  /\ host' \in Hosts /\ pc' = [pc EXCEPT ![t] = l]
             /\ UNCHANGED <<claim, call, waitOn, adv, pass, workers, late>>
  BY <1>0, <1>a DEF WriteFailed, Goto, TypeOK, Hosts
<1>b. "teardown" \in Labels /\ "release" \in Labels  BY DEF Labels, Holding, Driving
<1>1. CASE WorkerWriteFails(t)
  <2>1. HasKey(t)  BY <1>0, <1>1 DEF WorkerWriteFails, At, KeyAt, Attempting
  <2>2. PICK c \in CogWorkers :
           /\ WriteFailed(t, "teardown") /\ UNCHANGED <<trk, snap>>
           /\ att' = [att EXCEPT ![t].cog = c] \/ att' = [att EXCEPT ![t] = att[t]]
    BY SMTT(40), <1>0, <1>1 DEF WorkerWriteFails, TypeOK, CogWorkers
  <2> DEFINE a == [att[t] EXCEPT !.cog = c]
  <2>3. a \in Attempts /\ a.key = att[t].key  BY <1>0, CogFields
  <2>4. att' = [att EXCEPT ![t] = a] \/ att' = [att EXCEPT ![t] = att[t]]  BY <2>2
  <2> HIDE DEF a
  <2>9. /\ host' \in Hosts /\ pc' = [pc EXCEPT ![t] = "teardown"]
        /\ UNCHANGED <<claim, call, waitOn, adv, pass, workers, late>>
    BY <1>a, <2>2
  <2> QED  BY <1>0, <1>b, <2>1, <2>2, <2>3, <2>4, <2>9, AttemptOwnStep DEF TypeOK
<1>5. CASE ReadyWriteFails(t)
  <2>1. HasKey(t)  BY <1>0, <1>5 DEF ReadyWriteFails, At, KeyAt, Attempting
  <2> DEFINE a == [att[t] EXCEPT !.started = TRUE, !.cog = "MATERIALIZED"]
  <2>2. a \in Attempts /\ a.key = att[t].key
    <3>1. "MATERIALIZED" \in CogWorkers  BY DEF CogWorkers
    <3> QED  BY <1>0, <3>1, CogFields
  <2>3. /\ WriteFailed(t, "teardown") /\ att' = [att EXCEPT ![t] = a]
        /\ trk' = WorkerStarted(trk, att[t].key)
        /\ snap' = [snap EXCEPT ![t] = WorkerStarted(snap[t], att[t].key)]
    BY <1>5 DEF ReadyWriteFails, Append
  <2>4. WorkerStarted(trk, att[t].key) \in Tracks /\ WorkerStarted(snap[t], att[t].key) \in Tracks
    BY <1>0, <2>1, WorkerTypes DEF HasKey
  <2> HIDE DEF a
  <2>9. /\ host' \in Hosts /\ pc' = [pc EXCEPT ![t] = "teardown"]
        /\ UNCHANGED <<claim, call, waitOn, adv, pass, workers, late>>
    BY <1>a, <2>3
  <2> QED  BY ZenonT(60), <1>0, <1>b, <2>1, <2>2, <2>3, <2>4, <2>9, AttemptOwnStep DEF TypeOK
<1>2. CASE UsageWriteFails(t)
  <2>1. HasKey(t)  BY <1>0, <1>2 DEF UsageWriteFails, At, KeyAt, Attempting
  <2> DEFINE b == att[t].answer \in {"ok", "error"}
             a == [att[t] EXCEPT !.answered = b]
  <2>2. a \in Attempts /\ a.key = att[t].key
    <3>1. b \in BOOLEAN  OBVIOUS
    <3> HIDE DEF b
    <3> QED  BY <1>0, <3>1 DEF Attempts
  <2>3. /\ WriteFailed(t, "teardown") /\ att' = [att EXCEPT ![t] = a]
        /\ trk' = InteractionUsage(trk, FALSE, 0)
        /\ snap' = [snap EXCEPT ![t] = InteractionUsage(snap[t], FALSE, 0)]
    BY <1>2 DEF UsageWriteFails, Append
  <2>4. InteractionUsage(trk, FALSE, 0) \in Tracks /\ InteractionUsage(snap[t], FALSE, 0) \in Tracks
    <3>1. FALSE \in BOOLEAN /\ 0 \in Nat  OBVIOUS
    <3> QED  BY <1>0, <3>1, UsageType
  <2> HIDE DEF a
  <2>9. /\ host' \in Hosts /\ pc' = [pc EXCEPT ![t] = "teardown"]
        /\ UNCHANGED <<claim, call, waitOn, adv, pass, workers, late>>
    BY <1>a, <2>3
  <2> QED  BY <1>0, <1>b, <2>1, <2>2, <2>3, <2>4, <2>9, AttemptOwnStep DEF TypeOK
<1>3. CASE HandlerWriteFails(t)
  <2>1. HasKey(t)  BY <1>0, <1>3 DEF HandlerWriteFails, At, KeyAt, Attempting
  <2> DEFINE a == [att[t] EXCEPT !.outcome = "escaped"]
  <2>2. /\ a \in Attempts /\ a.key = att[t].key
        /\ WriteFailed(t, "teardown") /\ UNCHANGED <<trk, snap>> /\ att' = [att EXCEPT ![t] = a]
    BY <1>0, <1>3, AttemptFields DEF HandlerWriteFails
  <2> HIDE DEF a
  <2>9. /\ host' \in Hosts /\ pc' = [pc EXCEPT ![t] = "teardown"]
        /\ UNCHANGED <<claim, call, waitOn, adv, pass, workers, late>>
    BY <1>a, <2>2
  <2> QED  BY <1>0, <1>b, <2>1, <2>2, <2>9, AttemptOwnStep DEF TypeOK
<1>4. CASE DriverWriteFails(t)
  <2>1. WriteFailed(t, "release") /\ UNCHANGED <<trk, snap, att>>  BY <1>4 DEF DriverWriteFails
  <2> QED  BY <1>0, <1>a, <2>1, LeavingStep DEF TypeOK
<1> QED  BY <1>1, <1>2, <1>3, <1>4, <1>5 DEF FailedWrite

LEMMA HostStepTypeInv ==
  ASSUME TypeInv,
         (\E t \in Threads : Begin(t) \/ StartHost(t))
           \/ ApiSubmit \/ DeadlinePasses \/ Crash \/ Boot \/ AtRest \/ UNCHANGED vars
  PROVE  TypeInv'
<1> USE DEF TypeInv
<1>0. NewAttempt(NoKey) \in Attempts /\ ~NewAttempt(NoKey).teardownError
  BY NewAttemptType DEF KeysOrNone
<1>1. ASSUME NEW t \in Threads, Begin(t) PROVE TypeInv'
  <2>1. PICK c \in Calls : BeginCall(t, c)  BY <1>1 DEF Begin
  <2>2. /\ c \in [kind : Kinds, outcome : Decisions, named : Keys \cup {NoKey}]
        /\ c.kind = "decide" => c.named \in Keys
    <3>1. trk.raised \in SUBSET Keys  BY DEF TypeOK, Tracks
    <3> QED  BY <3>1 DEF Calls, Kinds, Decisions
  <2>3. TypeOK'  BY <2>1, <2>2 DEF TypeOK, BeginCall, Goto, Labels, Hosts
  <2>4. KeyInv'
    BY <2>1, <2>2 DEF TypeOK, KeyInv, KeyAt, HasKey, IsNext, BeginCall, Goto, Attempting
  <2> QED  BY <2>3, <2>4
<1>2. ASSUME NEW t \in Threads, StartHost(t) PROVE TypeInv'
  <2>1. TypeOK'  BY <1>2, NewTypes DEF TypeOK, StartHost, Goto, Labels, Hosts
  <2>2. KeyInv'
    BY <1>2, NewTypes DEF TypeOK, KeyInv, KeyAt, HasKey, IsNext, StartHost, Goto, Attempting
  <2> QED  BY <2>1, <2>2
<1>3. CASE ApiSubmit
  BY <1>3, OpSubmittedType DEF ApiSubmit, TypeOK, KeyInv, KeyAt, HasKey, IsNext
<1>4. CASE DeadlinePasses
  BY <1>4 DEF DeadlinePasses, TypeOK, KeyInv, KeyAt, HasKey, IsNext
<1>5. CASE Crash
  <2>1. TypeOK'  BY <1>0, <1>5, NewTypes, EmptyTrackType DEF TypeOK, Crash, Labels, Hosts
  <2>2. KeyInv'  BY <1>0, <1>5, NewTypes DEF KeyInv, KeyAt, HasKey, Crash, Attempting
  <2> QED  BY <2>1, <2>2
<1>6. CASE Boot
  <2>0. host' \in Hosts
    <3>1. host \in Hosts /\ host.boots + 1 \in Nat  BY DEF TypeOK, Hosts
    <3>2. host' = [host EXCEPT !.up = TRUE, !.boots = host.boots + 1, !.starting = TRUE]
      BY <1>6 DEF Boot
    <3> QED  BY <3>1, <3>2 DEF Hosts
  <2>1. TypeOK'  BY <1>6, <2>0 DEF TypeOK, Boot
  <2>2. KeyInv'  BY <1>6 DEF Boot, KeyInv, KeyAt, HasKey, IsNext
  <2> QED  BY <2>1, <2>2
<1>7. CASE AtRest \/ UNCHANGED vars
  BY <1>7 DEF AtRest, vars, TypeOK, KeyInv, KeyAt, HasKey, IsNext
<1> QED  BY <1>1, <1>2, <1>3, <1>4, <1>5, <1>6, <1>7

\* One step keeps the inductive invariant.
LEMMA NextTypeInv == TypeInv /\ [Next]_vars => TypeInv'
<1> SUFFICES ASSUME TypeInv, [Next]_vars PROVE TypeInv'  OBVIOUS
<1>1. ASSUME NEW t \in Threads, ThreadStep(t) PROVE TypeInv'
  BY <1>1, ClaimStepTypeInv, EnterStepTypeInv, DriverStepTypeInv, AttemptStepTypeInv,
     EndStepTypeInv DEF ThreadStep
<1>2. ASSUME NEW t \in Threads, FailedWrite(t) PROVE TypeInv'
  BY <1>2, FailedWriteTypeInv
<1> QED  BY <1>1, <1>2, HostStepTypeInv DEF Next

\* Type correctness of the runner: TypeOK holds throughout every behaviour.
THEOREM TypeCorrect == Spec => []TypeOK
<1>1. TypeInv => TypeOK  BY DEF TypeInv
<1> QED  BY <1>1, InitTypeInv, NextTypeInv, PTL DEF Spec

--------------------------------------------------------------------------
(***************************************************************************)
(* One claim, one reader of the Track, and what a reader of the run sees:  *)
(* for every number of threads and steps, every Gate, every budget, and    *)
(* any number of calls, crashes and failed writes,                         *)
(*   - a driver's snapshot is the Track (SnapshotCurrent),                 *)
(*   - the Track stays readable (TrackReadable),                           *)
(*   - the run implements RunLifecycle (ImplementsLifecycle).              *)
(*                                                                         *)
(* The inductive invariant says who may write: a thread inside a claimed   *)
(* stretch of its call is the one the claim names, so nobody else moves    *)
(* the Track under it, except the API's submission, which needs a Track    *)
(* no driver has begun on.  And it says what the driver knows where it is: *)
(* the run is RUNNING once picked up, its attempt is of the next step, and *)
(* it completes a run whose steps are all done.                            *)
(***************************************************************************)

SyncAt(t) ==
  /\ pc[t] \in Holding <=> claim = t
  /\ pc[t] = "enter" =>
       \/ snap[t] = trk
       \/ snap[t].state = "NONE" /\ trk.state = "SUBMITTED"
  /\ pc[t] \in Driving => snap[t] = trk
  /\ pc[t] \in {"open", "pickup"} => trk.state \in {"SUBMITTED", "RUNNING"}
  /\ pc[t] \in Driving \ {"open", "pickup"} => trk.state = "RUNNING"
  /\ pc[t] \in Attempting => IsNext(trk, att[t].key[1])
  /\ pc[t] = "finish" /\ pass[t].end = "escalate" => IsNext(trk, att[t].key[1])
  /\ pc[t] = "finish" /\ pass[t].end = "complete" => trk.done = Steps

SyncInv == TrackReadable /\ \A t \in Threads : SyncAt(t)

\* One event of the run, as a reader sees it.
Moves ==
  { <<"NONE", "SUBMITTED">>, <<"SUBMITTED", "RUNNING">>,
    <<"WAITING_AT_GATE", "RUNNING">>, <<"WAITING_AT_GATE", "REJECTED">>,
    <<"WAITING_AT_GATE", "FAILED">>, <<"RUNNING", "FAILED">>,
    <<"RUNNING", "BUDGET_EXCEEDED">>, <<"RUNNING", "INTERRUPTED">>,
    <<"WAITING_AT_GATE", "INTERRUPTED">>, <<"SUBMITTED", "CANCELLED">>,
    <<"RUNNING", "CANCELLED">>, <<"WAITING_AT_GATE", "CANCELLED">>,
    <<"FAILED", "RUNNING">>, <<"INTERRUPTED", "RUNNING">> }

Follows(T, U) ==
  \/ U.state = T.state /\ U.done = T.done
  \/ <<T.state, U.state>> \in Moves /\ U.done = T.done
  \/ /\ T.state = "RUNNING" /\ U.state = "WAITING_AT_GATE"
     /\ T.done # Steps /\ U.done = T.done
  \/ /\ T.state = "RUNNING" /\ U.state = "COMPLETED"
     /\ T.done = Steps /\ U.done = T.done
  \/ /\ T.state = "RUNNING" /\ U.state = "RUNNING"
     /\ \E s \in Steps : IsNext(T, s) /\ U.done = T.done \cup {s}

LEMMA FollowsLifecycle ==
  ASSUME Follows(trk, trk') PROVE [Lifecycle!Next]_(Lifecycle!lifecycle)
<1> USE DEF Lifecycle!Goes, Lifecycle!lifecycle
<1>1. CASE trk'.state = trk.state /\ trk'.done = trk.done
  BY <1>1
<1>2. CASE <<trk.state, trk'.state>> \in Moves /\ trk'.done = trk.done
  BY <1>2 DEF Moves, Lifecycle!Next, Lifecycle!Submit, Lifecycle!PickUp, Lifecycle!Decide,
              Lifecycle!Stop, Lifecycle!Interrupt, Lifecycle!Cancel, Lifecycle!Retry
<1>3. CASE /\ trk.state = "RUNNING" /\ trk'.state = "WAITING_AT_GATE"
           /\ trk.done # Steps /\ trk'.done = trk.done
  BY <1>3 DEF Lifecycle!Next, Lifecycle!Hold
<1>4. CASE /\ trk.state = "RUNNING" /\ trk'.state = "COMPLETED"
           /\ trk.done = Steps /\ trk'.done = trk.done
  BY <1>4 DEF Lifecycle!Next, Lifecycle!Complete
<1>5. CASE /\ trk.state = "RUNNING" /\ trk'.state = "RUNNING"
           /\ \E s \in Steps : IsNext(trk, s) /\ trk'.done = trk.done \cup {s}
  <2>1. PICK s \in Steps : IsNext(trk, s) /\ trk'.done = trk.done \cup {s}  BY <1>5
  <2>2. Lifecycle!KeepResult(s)  BY <1>5, <2>1 DEF Lifecycle!KeepResult, IsNext
  <2> QED  BY <2>2 DEF Lifecycle!Next
<1> QED  BY <1>1, <1>2, <1>3, <1>4, <1>5 DEF Follows

LEMMA FollowsReadable ==
  ASSUME TrackReadable, Follows(trk, trk') PROVE TrackReadable'
  BY DEF TrackReadable, Follows, Moves

--------------------------------------------------------------------------
(***************************************************************************)
(* Who moves: the holder of the claim, or somebody the Track does not see. *)
(***************************************************************************)
Others(t) ==
  \A u \in Threads \ {t} :
    /\ pc'[u] = pc[u] /\ snap'[u] = snap[u] /\ pass'[u] = pass[u]
    /\ att'[u].key = att[u].key

LEMMA Places ==
  /\ Driving \subseteq Holding /\ Attempting \subseteq Holding
  /\ {"open", "pickup", "enter", "finish"} \subseteq Holding
  BY DEF Driving, Holding, Attempting

LEMMA NotHolding ==
  ASSUME NEW u \in Threads, pc[u] \notin Holding, claim # u PROVE SyncAt(u)
  BY Places DEF SyncAt

\* The holder's own step: only its own part of the invariant is at stake.
LEMMA HolderStep ==
  ASSUME SyncInv, NEW t \in Threads, pc[t] \in Holding, Others(t), UNCHANGED claim,
         SyncAt(t)', Follows(trk, trk')
  PROVE  SyncInv' /\ Follows(trk, trk')
<1>1. claim = t  BY DEF SyncInv, SyncAt
<1>2. ASSUME NEW u \in Threads \ {t} PROVE SyncAt(u)'
  <2>1. pc[u] \notin Holding  BY <1>1 DEF SyncInv, SyncAt
  <2>2. pc'[u] \notin Holding /\ claim' # u  BY <1>1, <2>1 DEF Others
  <2> QED  BY <2>2, Places DEF SyncAt
<1> QED  BY <1>2, FollowsReadable DEF SyncInv

\* A step outside the claim leaves the Track alone.
LEMMA BystanderStep ==
  ASSUME SyncInv, NEW t \in Threads, pc[t] \notin Holding, pc'[t] \notin Holding,
         Others(t), UNCHANGED <<trk, claim>>
  PROVE  SyncInv' /\ Follows(trk, trk')
<1>1. SyncAt(t)'
  <2>1. claim' # t  BY DEF SyncInv, SyncAt
  <2> QED  BY <2>1, Places DEF SyncAt
<1>2. ASSUME NEW u \in Threads \ {t} PROVE SyncAt(u)'
  <2>1. SyncAt(u)  BY DEF SyncInv
  <2> QED  BY <2>1 DEF Others, SyncAt, IsNext
<1> QED  BY <1>1, <1>2 DEF SyncInv, TrackReadable, Follows

LEMMA InitSyncInv == Init => SyncInv
  BY NobodyAssumption, EmptyTrackType
     DEF Init, SyncInv, SyncAt, TrackReadable, Holding, Driving, Attempting

--------------------------------------------------------------------------
(***************************************************************************)
(* The shapes of a holder's step.                                          *)
(***************************************************************************)
\* On its way out, whatever it has written.
LEMMA ReleasingSync ==
  ASSUME SyncInv, NEW t \in Threads, pc[t] \in Holding, pc'[t] = "release",
         Others(t), UNCHANGED claim, Follows(trk, trk')
  PROVE  SyncInv' /\ Follows(trk, trk')
<1>1. SyncAt(t)'
  <2>1. claim' = t  BY DEF SyncInv, SyncAt
  <2> QED  BY <2>1 DEF SyncAt, Holding, Driving, Attempting
<1> QED  BY <1>1, HolderStep

\* Within an attempt: what it records leaves the run and its results alone.
LEMMA AttemptSync ==
  ASSUME SyncInv, NEW t \in Threads, pc[t] \in Attempting, pc'[t] \in Attempting,
         Others(t), UNCHANGED claim, att'[t].key = att[t].key,
         trk'.state = trk.state, trk'.done = trk.done, snap'[t] = trk'
  PROVE  SyncInv' /\ Follows(trk, trk')
<1>1. pc[t] \in Holding /\ pc'[t] \in Holding /\ pc[t] \in Driving \ {"open", "pickup"}
      /\ pc'[t] \notin {"open", "pickup", "enter", "finish"}
  BY DEF Attempting, Driving, Holding
<1>2. SyncAt(t)  BY DEF SyncInv
<1>3. SyncAt(t)'  BY <1>1, <1>2 DEF SyncAt, IsNext
<1>4. Follows(trk, trk')  BY DEF Follows
<1> QED  BY <1>1, <1>3, <1>4, HolderStep

\* Deciding how to end, after writing nothing or keeping a result.
LEMMA EndingSync ==
  ASSUME TypeOK, SyncInv, NEW t \in Threads, pc[t] \in Holding, NEW how \in Ends, End(t, how),
         trk'.state = "RUNNING", snap'[t] = trk', Follows(trk, trk'),
         \A u \in Threads \ {t} : snap'[u] = snap[u], UNCHANGED <<claim, att>>,
         how = "escalate" => IsNext(trk', att[t].key[1]),
         how = "complete" => trk'.done = Steps
  PROVE  SyncInv' /\ Follows(trk, trk')
<1>1. Others(t) /\ pc'[t] = "finish" /\ pass'[t].end = how
  BY EndEffect DEF Others
<1>2. claim' = t  BY DEF SyncInv, SyncAt
<1>3. SyncAt(t)'
  BY <1>1, <1>2 DEF SyncAt, IsNext, Holding, Driving, Attempting
<1> QED  BY <1>1, <1>3, HolderStep

LEMMA ClaimStepSync ==
  ASSUME TypeInv, SyncInv, NEW t \in Threads, ClaimStep(t) PROVE SyncInv' /\ Follows(trk, trk')
<1> USE DEF At, Goto
<1>0. TypeOK /\ SyncAt(t)  BY DEF TypeInv, SyncInv
<1>1. CASE Acquire(t)
  <2>1. \A u \in Threads : pc[u] \notin Holding
    BY <1>1, NobodyAssumption DEF Acquire, SyncInv, SyncAt
  <2>2. pc' = [pc EXCEPT ![t] = "read"] /\ claim' = t /\ trk' = trk  BY <1>1 DEF Acquire
  <2>3. ASSUME NEW u \in Threads \ {t} PROVE SyncAt(u)'
    <3>1. pc'[u] \notin Holding /\ claim' # u  BY <1>0, <2>1, <2>2 DEF TypeOK
    <3> QED  BY <3>1, Places DEF SyncAt
  <2>4. SyncAt(t)'  BY <1>0, <2>2 DEF SyncAt, TypeOK, Holding, Driving, Attempting
  <2> QED  BY <2>2, <2>3, <2>4 DEF SyncInv, TrackReadable, Follows
<1>2. CASE Busy(t)
  <2>1. pc[t] \notin Holding /\ pc'[t] \notin Holding
    BY <1>0, <1>2 DEF Busy, TypeOK, Holding, Driving
  <2>2. Others(t) /\ UNCHANGED <<trk, claim>>
    BY <1>0, <1>2 DEF Busy, Others, TypeOK
  <2> QED  BY <2>1, <2>2, BystanderStep
<1>3. CASE WaitFinished(t)
  <2>1. pc[t] \notin Holding /\ pc'[t] \notin Holding
    BY <1>0, <1>3 DEF WaitFinished, TypeOK, Holding, Driving
  <2>2. Others(t) /\ UNCHANGED <<trk, claim>>
    BY <1>0, <1>3 DEF WaitFinished, Others, TypeOK
  <2> QED  BY <2>1, <2>2, BystanderStep
<1>4. CASE WaitAccepting(t)
  <2>1. pc[t] \notin Holding /\ pc'[t] \notin Holding
    BY <1>0, <1>4 DEF WaitAccepting, TypeOK, Holding, Driving
  <2>2. Others(t) /\ UNCHANGED <<trk, claim>>
    BY <1>0, <1>4 DEF WaitAccepting, Others, TypeOK
  <2> QED  BY <2>1, <2>2, BystanderStep
<1>5. CASE Status(t)
  <2>1. pc[t] \notin Holding /\ pc'[t] \notin Holding
    BY <1>0, <1>5 DEF Status, TypeOK, Holding, Driving
  <2>2. Others(t) /\ UNCHANGED <<trk, claim>>
    BY <1>0, <1>5 DEF Status, Others, TypeOK
  <2> QED  BY <2>1, <2>2, BystanderStep
<1>6. CASE AcceptCancel(t)
  <2>1. pc[t] \notin Holding /\ pc'[t] \notin Holding
    BY <1>0, <1>6 DEF AcceptCancel, TypeOK, Holding, Driving
  <2>2. \A u \in Threads : att'[u].key = att[u].key
    BY <1>0, <1>6, AcceptCancelKeys DEF SameKeys
  <2>3. Others(t) /\ UNCHANGED <<trk, claim>>
    BY <1>0, <1>6, <2>2 DEF AcceptCancel, Others, TypeOK
  <2> QED  BY <2>1, <2>3, BystanderStep
<1>7. CASE CancelTeardown(t)
  <2>1. pc[t] \notin Holding /\ pc'[t] \notin Holding
    BY <1>0, <1>7 DEF CancelTeardown, TypeOK, Holding, Driving
  <2>2. \A u \in Threads : att'[u].key = att[u].key
    BY <1>0, <1>7, CancelTeardownKeys DEF SameKeys
  <2>3. Others(t) /\ UNCHANGED <<trk, claim>>
    BY <1>0, <1>7, <2>2 DEF CancelTeardown, Others, TypeOK
  <2> QED  BY <2>1, <2>3, BystanderStep
<1>8. CASE Release(t)
  <2>1. pc' = [pc EXCEPT ![t] = "let_go"] /\ claim' = Nobody
        /\ UNCHANGED <<trk, snap, pass, att>>
    BY <1>8 DEF Release
  <2>2. claim = t  BY <1>0, <1>8 DEF Release, SyncAt, Holding
  <2>3. ASSUME NEW u \in Threads PROVE pc'[u] \notin Holding /\ claim' # u
    BY <1>0, <2>1, <2>2, NobodyAssumption DEF SyncInv, SyncAt, TypeOK, Holding, Driving
  <2>4. ASSUME NEW u \in Threads PROVE SyncAt(u)'  BY <2>3, Places DEF SyncAt
  <2> QED  BY <2>1, <2>4 DEF SyncInv, TrackReadable, Follows
<1>9. CASE LetGo(t)
  <2>1. pc[t] \notin Holding /\ pc'[t] \notin Holding
    BY <1>0, <1>9 DEF LetGo, TypeOK, Holding, Driving
  <2>2. Others(t) /\ UNCHANGED <<trk, claim>>
    BY <1>0, <1>9 DEF LetGo, Others, TypeOK
  <2> QED  BY <2>1, <2>2, BystanderStep
<1> QED  BY <1>1, <1>2, <1>3, <1>4, <1>5, <1>6, <1>7, <1>8, <1>9 DEF ClaimStep

\* A call that holds the claim and has checked what it read: it goes on to
\* drive the run, or lets it go.
LEMMA OpeningSync ==
  ASSUME SyncInv, NEW t \in Threads, pc[t] = "enter", pc'[t] = "open",
         Others(t), UNCHANGED claim, Follows(trk, trk'), snap'[t] = trk',
         trk'.state \in {"SUBMITTED", "RUNNING"}
  PROVE  SyncInv' /\ Follows(trk, trk')
<1>1. claim' = t /\ pc[t] \in Holding  BY DEF SyncInv, SyncAt, Holding
<1>2. SyncAt(t)'  BY <1>1 DEF SyncAt, Holding, Driving, Attempting
<1> QED  BY <1>1, <1>2, HolderStep

LEMMA EnterStepSync ==
  ASSUME TypeInv, SyncInv, NEW t \in Threads, EnterStep(t) PROVE SyncInv' /\ Follows(trk, trk')
<1> USE DEF At, Goto
<1>0. /\ TypeOK /\ SyncAt(t) /\ trk \in Tracks /\ snap[t] \in Tracks
      /\ trk.state # "UNREADABLE"
  BY DEF TypeInv, TypeOK, SyncInv, TrackReadable
<1>a. ASSUME pc[t] = "enter", Entered, \E T : snap' = [snap EXCEPT ![t] = T] \/ snap' = snap,
             NEW l, pc' = [pc EXCEPT ![t] = l]
      PROVE  /\ Others(t) /\ UNCHANGED claim /\ pc'[t] = l /\ pc[t] \in Holding
             /\ snap[t].state # "NONE" => snap[t] = trk
             /\ snap[t].state = "NONE" /\ trk.state = "NONE" => snap[t] = trk
  BY <1>0, <1>a DEF Entered, Others, TypeOK, SyncAt, Holding
<1>1. CASE Read(t)
  <2>1. /\ pc' = [pc EXCEPT ![t] = "enter"] /\ snap' = [snap EXCEPT ![t] = trk]
        /\ UNCHANGED <<trk, claim, pass, att>> /\ pc[t] = "read"
    BY <1>1 DEF Read
  <2>2. Others(t) /\ pc[t] \in Holding /\ Follows(trk, trk') /\ snap'[t] = trk' /\ pc'[t] = "enter"
    BY <1>0, <2>1 DEF Others, TypeOK, Holding, Follows
  <2>3. claim' = t  BY <1>0, <2>1, <2>2 DEF SyncAt
  <2>4. SyncAt(t)'  BY <2>2, <2>3 DEF SyncAt, Holding, Driving, Attempting
  <2> QED  BY <2>1, <2>2, <2>4, HolderStep
<1>2. CASE EnterSubmit(t)
  <2>0. pc[t] = "enter" /\ Entered  BY <1>2 DEF EnterSubmit, Enters
  <2>1. CASE /\ snap[t].state = "NONE" /\ trk.state = "NONE"
             /\ trk' = OpSubmitted(trk) /\ snap' = [snap EXCEPT ![t] = OpSubmitted(snap[t])]
             /\ pc' = [pc EXCEPT ![t] = "open"]
    <3>1. Others(t) /\ UNCHANGED claim /\ pc'[t] = "open" /\ snap[t] = trk
      BY <1>a, <2>0, <2>1
    <3>2. trk'.state = "SUBMITTED" /\ trk'.done = trk.done /\ snap'[t] = trk'
      BY <1>0, <2>1, <3>1, OpSubmittedType DEF TypeOK
    <3>3. Follows(trk, trk')  BY <2>1, <3>2 DEF Follows, Moves
    <3> QED  BY <2>0, <3>1, <3>2, <3>3, OpeningSync
  <2>2. CASE snap[t].state = "SUBMITTED" /\ pc' = [pc EXCEPT ![t] = "open"]
             /\ UNCHANGED <<trk, snap>>
    <3>1. Others(t) /\ UNCHANGED claim /\ pc'[t] = "open" /\ snap[t] = trk
      BY <1>a, <2>0, <2>2
    <3>2. Follows(trk, trk') /\ snap'[t] = trk' /\ trk'.state = "SUBMITTED"
      BY <2>2, <3>1 DEF Follows
    <3> QED  BY <2>0, <3>1, <3>2, OpeningSync
  <2>3. CASE pc' = [pc EXCEPT ![t] = "release"] /\ UNCHANGED <<trk, snap>>
    <3>1. Others(t) /\ UNCHANGED claim /\ pc'[t] = "release" /\ pc[t] \in Holding
      BY <1>a, <2>0, <2>3
    <3> QED  BY <2>3, <3>1, ReleasingSync DEF Follows
  <2> QED  BY <1>2, <2>1, <2>2, <2>3 DEF EnterSubmit, Append
<1>3. CASE EnterRetry(t)
  <2>0. pc[t] = "enter" /\ Entered  BY <1>3 DEF EnterRetry, Enters
  <2>1. CASE Retriable(snap[t])
    <3>1. /\ trk' = RetryRequested(trk) /\ snap' = [snap EXCEPT ![t] = RetryRequested(snap[t])]
          /\ pc' = [pc EXCEPT ![t] = "open"]
      BY <1>3, <2>1 DEF EnterRetry, Append
    <3>2. snap[t].state \in {"FAILED", "INTERRUPTED"}
      BY <2>1 DEF Retriable, Ended, Accepts, Edges
    <3>3. Others(t) /\ UNCHANGED claim /\ pc'[t] = "open" /\ snap[t] = trk
      BY <1>a, <2>0, <3>1, <3>2
    <3>4. trk'.state = "RUNNING" /\ trk'.done = trk.done /\ snap'[t] = trk'
      BY <1>0, <3>1, <3>2, <3>3, RetryRequestedType DEF TypeOK
    <3>5. Follows(trk, trk')  BY <3>2, <3>3, <3>4 DEF Follows, Moves
    <3> QED  BY <2>0, <3>3, <3>4, <3>5, OpeningSync
  <2>2. CASE ~Retriable(snap[t])
    <3>1. pc' = [pc EXCEPT ![t] = "release"] /\ UNCHANGED <<trk, snap>>
      BY <1>3, <2>2 DEF EnterRetry
    <3>2. Others(t) /\ UNCHANGED claim /\ pc'[t] = "release" /\ pc[t] \in Holding
      BY <1>a, <2>0, <3>1
    <3> QED  BY <3>1, <3>2, ReleasingSync DEF Follows
  <2> QED  BY <2>1, <2>2
<1>4. CASE EnterDecide(t)
  <2> DEFINE k == call[t].named
  <2>0. pc[t] = "enter" /\ Entered  BY <1>4 DEF EnterDecide, Enters
  <2>1. k \in Keys  BY <1>4 DEF EnterDecide, Enters, TypeInv, KeyInv, KeyAt
  <2> HIDE DEF k
  <2>2. CASE pc' = [pc EXCEPT ![t] = "release"] /\ UNCHANGED <<trk, snap>>
    <3>1. Others(t) /\ UNCHANGED claim /\ pc'[t] = "release" /\ pc[t] \in Holding
      BY <1>a, <2>0, <2>2
    <3> QED  BY <2>2, <3>1, ReleasingSync DEF Follows
  <2>3. CASE /\ Decidable(snap[t], k) /\ pc' = [pc EXCEPT ![t] = "open"]
             /\ trk' = Approved(trk, k) /\ snap' = [snap EXCEPT ![t] = Approved(snap[t], k)]
    <3>1. snap[t].state = "WAITING_AT_GATE" /\ snap[t].open = k  BY <2>3 DEF Decidable
    <3>2. Others(t) /\ UNCHANGED claim /\ pc'[t] = "open" /\ snap[t] = trk /\ pc[t] \in Holding
      BY <1>a, <2>0, <2>3, <3>1
    <3>3. trk'.state = "RUNNING" /\ trk'.done = trk.done /\ snap'[t] = trk'
      BY <1>0, <2>1, <2>3, <3>1, <3>2, ApprovedType DEF TypeOK
    <3>4. Follows(trk, trk')  BY <3>1, <3>2, <3>3 DEF Follows, Moves
    <3> QED  BY <2>0, <3>2, <3>3, <3>4, OpeningSync
  <2>4. CASE /\ Decidable(snap[t], k) /\ pc' = [pc EXCEPT ![t] = "open"]
             /\ trk' = SentBack(trk, k) /\ snap' = [snap EXCEPT ![t] = SentBack(snap[t], k)]
    <3>1. snap[t].state = "WAITING_AT_GATE" /\ snap[t].open = k  BY <2>4 DEF Decidable
    <3>2. Others(t) /\ UNCHANGED claim /\ pc'[t] = "open" /\ snap[t] = trk /\ pc[t] \in Holding
      BY <1>a, <2>0, <2>4, <3>1
    <3>3. trk'.state = "RUNNING" /\ trk'.done = trk.done /\ snap'[t] = trk'
      BY <1>0, <2>1, <2>4, <3>1, <3>2, SentBackType DEF TypeOK
    <3>4. Follows(trk, trk')  BY <3>1, <3>2, <3>3 DEF Follows, Moves
    <3> QED  BY <2>0, <3>2, <3>3, <3>4, OpeningSync
  <2>5. CASE /\ Decidable(snap[t], k) /\ pc' = [pc EXCEPT ![t] = "release"]
             /\ trk' = Rejected(trk, k) /\ snap' = [snap EXCEPT ![t] = Rejected(snap[t], k)]
    <3>1. snap[t].state = "WAITING_AT_GATE" /\ snap[t].open = k  BY <2>5 DEF Decidable
    <3>2. Others(t) /\ UNCHANGED claim /\ pc'[t] = "release" /\ snap[t] = trk /\ pc[t] \in Holding
      BY <1>a, <2>0, <2>5, <3>1
    <3>3. trk'.state = "REJECTED" /\ trk'.done = trk.done /\ snap'[t] = trk'
      BY <1>0, <2>1, <2>5, <3>1, <3>2, RejectedType DEF TypeOK
    <3>4. Follows(trk, trk')  BY <3>1, <3>2, <3>3 DEF Follows, Moves
    <3> QED  BY <2>0, <3>2, <3>3, <3>4, ReleasingSync
  <2>6. CASE /\ Decidable(snap[t], k) /\ pc' = [pc EXCEPT ![t] = "release"]
             /\ trk' = RevisionsExhausted(trk, k) /\ snap' = [snap EXCEPT ![t] = RevisionsExhausted(snap[t], k)]
    <3>1. snap[t].state = "WAITING_AT_GATE" /\ snap[t].open = k  BY <2>6 DEF Decidable
    <3>2. Others(t) /\ UNCHANGED claim /\ pc'[t] = "release" /\ snap[t] = trk /\ pc[t] \in Holding
      BY <1>a, <2>0, <2>6, <3>1
    <3>3. trk'.state = "FAILED" /\ trk'.done = trk.done /\ snap'[t] = trk'
      BY <1>0, <2>1, <2>6, <3>1, <3>2, RevisionsExhaustedType DEF TypeOK
    <3>4. Follows(trk, trk')  BY <3>1, <3>2, <3>3 DEF Follows, Moves
    <3> QED  BY <2>0, <3>2, <3>3, <3>4, ReleasingSync
  <2> QED  BY <1>4, <2>2, <2>3, <2>4, <2>5, <2>6 DEF EnterDecide, Append, k
<1>5. CASE EnterCancel(t)
  <2>0. pc[t] = "enter" /\ Entered /\ pc' = [pc EXCEPT ![t] = "release"]
    BY <1>5 DEF EnterCancel, Enters
  <2>1. CASE UNCHANGED <<trk, snap>>
    <3>1. Others(t) /\ UNCHANGED claim /\ pc'[t] = "release" /\ pc[t] \in Holding
      BY <1>a, <2>0, <2>1
    <3> QED  BY <2>1, <3>1, ReleasingSync DEF Follows
  <2>2. CASE /\ Accepts(snap[t].state, "cancel")
             /\ trk' = RunCancelled(trk) /\ snap' = [snap EXCEPT ![t] = RunCancelled(snap[t])]
    <3>1. snap[t].state \in {"SUBMITTED", "RUNNING", "WAITING_AT_GATE"}  BY <2>2 DEF Accepts, Edges
    <3>2. Others(t) /\ UNCHANGED claim /\ pc'[t] = "release" /\ snap[t] = trk /\ pc[t] \in Holding
      BY <1>a, <2>0, <2>2, <3>1
    <3>3. trk'.state = "CANCELLED" /\ trk'.done = trk.done
      BY <1>0, <2>2, <3>1, <3>2, RunCancelledType
    <3>4. Follows(trk, trk')  BY <3>1, <3>2, <3>3 DEF Follows, Moves
    <3> QED  BY <3>2, <3>4, ReleasingSync
  <2> QED  BY <1>5, <2>1, <2>2 DEF EnterCancel, Append
<1>6. CASE EnterStart(t)
  <2>0. pc[t] = "enter" /\ Entered /\ pc' = [pc EXCEPT ![t] = "release"]
    BY <1>6 DEF EnterStart, Enters
  <2>1. CASE UNCHANGED <<trk, snap>>
    <3>1. Others(t) /\ UNCHANGED claim /\ pc'[t] = "release" /\ pc[t] \in Holding
      BY <1>a, <2>0, <2>1
    <3> QED  BY <2>1, <3>1, ReleasingSync DEF Follows
  <2>2. CASE /\ snap[t].state \in {"RUNNING", "WAITING_AT_GATE"}
             /\ trk' = RunInterrupted(trk) /\ snap' = [snap EXCEPT ![t] = RunInterrupted(snap[t])]
    <3>1. snap[t].state \in {"RUNNING", "WAITING_AT_GATE"}  BY <2>2 DEF Accepts
    <3>2. Others(t) /\ UNCHANGED claim /\ pc'[t] = "release" /\ snap[t] = trk /\ pc[t] \in Holding
      BY <1>a, <2>0, <2>2, <3>1
    <3>3. trk'.state = "INTERRUPTED" /\ trk'.done = trk.done
      BY <1>0, <2>2, <3>1, <3>2, EndTypes
    <3>4. Follows(trk, trk')  BY <3>1, <3>2, <3>3 DEF Follows, Moves
    <3> QED  BY <3>2, <3>4, ReleasingSync
  <2> QED  BY <1>6, <2>1, <2>2 DEF EnterStart, Append
<1> QED  BY <1>1, <1>2, <1>3, <1>4, <1>5, <1>6 DEF EnterStep

\* What the holder knows while it drives.
LEMMA Drives ==
  ASSUME TypeInv, SyncInv, NEW t \in Threads, pc[t] \in Driving
  PROVE  /\ TypeOK /\ SyncAt(t) /\ KeyAt(t) /\ claim = t /\ pc[t] \in Holding
         /\ snap[t] = trk /\ trk \in Tracks
         /\ pc[t] \notin {"open", "pickup"} => trk.state = "RUNNING"
  BY Places DEF TypeInv, TypeOK, KeyInv, SyncInv, SyncAt

LEMMA DriverStepSync ==
  ASSUME TypeInv, SyncInv, NEW t \in Threads, DriverStep(t) PROVE SyncInv' /\ Follows(trk, trk')
<1> USE DEF At, Goto
<1>0. pc[t] \in Driving
  BY DEF DriverStep, Open, PickUp, LoopCancelled, LoopApproved, LoopBudget, Resolve, LoopEnd,
         Driving
<1>a. /\ TypeOK /\ SyncAt(t) /\ claim = t /\ pc[t] \in Holding /\ snap[t] = trk /\ trk \in Tracks
      /\ pc[t] \notin {"open", "pickup"} => trk.state = "RUNNING"
  BY <1>0, Drives
<1>1. CASE Open(t)
  <2>1. Others(t) /\ UNCHANGED <<trk, claim>> /\ pc'[t] = "pickup" /\ snap'[t] = trk' /\ pc[t] = "open"
    BY <1>1, <1>a DEF Open, Others, TypeOK
  <2>2. trk'.state \in {"SUBMITTED", "RUNNING"}  BY <1>a, <2>1 DEF SyncAt
  <2>3. SyncAt(t)'  BY <1>a, <2>1, <2>2 DEF SyncAt, Holding, Driving, Attempting
  <2> QED  BY <1>a, <2>1, <2>3, HolderStep DEF Follows
<1>2. CASE PickUp(t)
  <2>1. /\ pc[t] = "pickup" /\ UNCHANGED <<claim, att>>
        /\ \/ snap[t].state = "SUBMITTED" /\ trk' = RunPickedUp(trk)
              /\ snap' = [snap EXCEPT ![t] = RunPickedUp(snap[t])]
           \/ snap[t].state # "SUBMITTED" /\ UNCHANGED <<trk, snap>>
    BY <1>2 DEF PickUp, Append
  <2>2. trk.state \in {"SUBMITTED", "RUNNING"}  BY <1>a, <2>1 DEF SyncAt
  <2>3. trk'.state = "RUNNING" /\ trk'.done = trk.done /\ snap'[t] = trk'
    BY <1>a, <2>1, <2>2, RunPickedUpType DEF TypeOK
  <2>4. Follows(trk, trk')  BY <2>2, <2>3 DEF Follows, Moves
  <2>5. \/ pc' = [pc EXCEPT ![t] = "loop"]
        \/ /\ pc' = [pc EXCEPT ![t] = "finish"]
           /\ pass' = [pass EXCEPT ![t] = [pass[t] EXCEPT !.tally = snap[t].spent, !.end = "usage"]]
    BY <1>2 DEF PickUp
  <2>6. Others(t)
    <3>1. \A u \in Threads \ {t} : pass'[u] = pass[u] /\ pc'[u] = pc[u]
      BY <1>2, <1>a DEF PickUp, TypeOK
    <3>2. \A u \in Threads \ {t} : snap'[u] = snap[u]  BY <2>1, <1>a DEF TypeOK
    <3> QED  BY <2>1, <3>1, <3>2 DEF Others
  <2>7. pc'[t] = "loop" \/ (pc'[t] = "finish" /\ pass'[t].end = "usage")
    <3> DEFINE p == [pass[t] EXCEPT !.tally = snap[t].spent, !.end = "usage"]
    <3>1. p.end = "usage"
      <4>1. pass[t] \in Passes  BY <1>a DEF TypeOK
      <4> QED  BY <4>1 DEF Passes
    <3>2. pc' = [pc EXCEPT ![t] = "loop"]
          \/ (pc' = [pc EXCEPT ![t] = "finish"] /\ pass' = [pass EXCEPT ![t] = p])
      BY <2>5
    <3> HIDE DEF p
    <3> QED  BY <1>a, <3>1, <3>2 DEF TypeOK
  <2>8. SyncAt(t)'
    BY <1>a, <2>1, <2>3, <2>7 DEF SyncAt, Holding, Driving, Attempting
  <2> QED  BY <1>a, <2>1, <2>4, <2>6, <2>8, HolderStep
<1>3. CASE LoopCancelled(t)
  <2>1. /\ End(t, "cancel") /\ "cancel" \in Ends /\ pc[t] = "loop"
        /\ UNCHANGED <<trk, snap, att, claim>>
    BY <1>3 DEF LoopCancelled, InLoop, Ends
  <2> QED  BY <1>a, <2>1, EndingSync DEF Follows
<1>4. CASE LoopApproved(t)
  <2>1. /\ pc[t] = "loop" /\ pc'[t] = "keep_approved" /\ Others(t)
        /\ UNCHANGED <<trk, snap, claim>>
    BY <1>4, <1>a DEF LoopApproved, InLoop, Others, TypeOK
  <2>2. SyncAt(t)'  BY <1>a, <2>1 DEF SyncAt, Holding, Driving, Attempting
  <2> QED  BY <1>a, <2>1, <2>2, HolderStep DEF Follows
<1>5. CASE LoopBudget(t)
  <2>1. /\ End(t, "budget") /\ "budget" \in Ends /\ pc[t] = "loop"
        /\ UNCHANGED <<trk, snap, att, claim>>
    BY <1>5 DEF LoopBudget, InLoop, Ends
  <2> QED  BY <1>a, <2>1, EndingSync DEF Follows
<1>6. CASE Resolve(t)
  <2>1. PICK s \in Steps : /\ IsNext(snap[t], s)
                           /\ att' = [att EXCEPT ![t] = NewAttempt(<<s, Number(snap[t], s)>>)]
    BY <1>6 DEF Resolve
  <2>2. att'[t].key[1] = s  BY <1>a, <2>1 DEF TypeOK, NewAttempt
  <2>3. /\ pc[t] = "loop" /\ pc'[t] = "attempt" /\ Others(t)
        /\ UNCHANGED <<trk, snap, claim>>
    BY <1>6, <1>a, <2>1 DEF Resolve, InLoop, Others, TypeOK
  <2>4. IsNext(trk', att'[t].key[1])  BY <1>a, <2>1, <2>2, <2>3
  <2>5. SyncAt(t)'  BY <1>a, <2>3, <2>4 DEF SyncAt, IsNext, Holding, Driving, Attempting
  <2> QED  BY <1>a, <2>3, <2>5, HolderStep DEF Follows
<1>7. CASE LoopEnd(t)
  <2>1. PICK how \in {"budget", "complete"} : End(t, how)  BY <1>7 DEF LoopEnd
  <2>2. /\ how \in Ends /\ pc[t] = "loop" /\ trk'.done = Steps
        /\ UNCHANGED <<trk, snap, att, claim>>
    BY <1>7, <1>a DEF LoopEnd, AllDone, InLoop, Ends
  <2> QED  BY <1>a, <2>1, <2>2, EndingSync DEF Follows
<1> QED  BY <1>1, <1>2, <1>3, <1>4, <1>5, <1>6, <1>7 DEF DriverStep

LEMMA AttemptStepSync ==
  ASSUME TypeInv, SyncInv, NEW t \in Threads, AttemptStep(t) PROVE SyncInv' /\ Follows(trk, trk')
<1> USE DEF At, Goto
<1>0. pc[t] \in Attempting /\ pc[t] \in Driving \ {"open", "pickup"}
  BY ZenonT(60) DEF AttemptStep, BeginAttempt, Materialize, WorkerUp, Invoke, Interact, Answer,
         ReadEnvelope, ClaimTeardown, TeardownWait, Teardown, Stopped, Attempting, Driving
<1>a. /\ TypeOK /\ SyncAt(t) /\ claim = t /\ pc[t] \in Holding /\ snap[t] = trk /\ trk \in Tracks
      /\ HasKey(t) /\ att[t] \in Attempts
      /\ att[t].known \in BOOLEAN /\ att[t].amount \in Nat
  BY <1>0, Drives DEF KeyAt, TypeOK, Attempts
<1>1. CASE BeginAttempt(t)
  <2>1. /\ pc'[t] \in Attempting /\ UNCHANGED <<trk, snap, claim, pass>>
        /\ \A u \in Threads \ {t} : pc'[u] = pc[u]
    BY <1>1, <1>a DEF BeginAttempt, InAttempt, TypeOK, Attempting
  <2>2. \A u \in Threads : att'[u].key = att[u].key
    BY <1>1, <1>a, AttemptFields DEF BeginAttempt, TypeOK
  <2> QED  BY <1>0, <1>a, <2>1, <2>2, AttemptSync DEF Others
<1>2. CASE Materialize(t)
  <2>1. /\ pc'[t] \in Attempting /\ UNCHANGED <<trk, snap, claim, pass>>
        /\ \A u \in Threads \ {t} : pc'[u] = pc[u]
    BY <1>2, <1>a DEF Materialize, InAttempt, TypeOK, Attempting
  <2>2. \A u \in Threads : att'[u].key = att[u].key
    BY <1>2, <1>a, AttemptFields DEF Materialize, TypeOK
  <2> QED  BY <1>0, <1>a, <2>1, <2>2, AttemptSync DEF Others
<1>3. CASE WorkerUp(t)
  <2>1. /\ WorkerStarted(trk, att[t].key).state = trk.state
        /\ WorkerStarted(trk, att[t].key).done = trk.done
    BY <1>a, WorkerTypes DEF HasKey
  <2>2. trk'.state = trk.state /\ trk'.done = trk.done /\ snap'[t] = trk'
        /\ \A u \in Threads \ {t} : snap'[u] = snap[u]
    BY <1>3, <1>a, <2>1 DEF WorkerUp, Append, TypeOK
  <2>3. /\ pc'[t] \in Attempting /\ UNCHANGED <<claim, pass>>
        /\ \A u \in Threads \ {t} : pc'[u] = pc[u]
    BY <1>3, <1>a DEF WorkerUp, InAttempt, TypeOK, Attempting
  <2>4. \A u \in Threads : att'[u].key = att[u].key
    BY <1>3, <1>a DEF WorkerUp, TypeOK, Attempts
  <2> QED  BY <1>0, <1>a, <2>2, <2>3, <2>4, AttemptSync DEF Others
<1>4. CASE Invoke(t)
  <2>1. /\ pc'[t] \in Attempting /\ UNCHANGED <<trk, snap, claim, pass>>
        /\ \A u \in Threads \ {t} : pc'[u] = pc[u]
    BY <1>4, <1>a DEF Invoke, InAttempt, TypeOK, Attempting
  <2>2. \A u \in Threads : att'[u].key = att[u].key
    BY <1>4, <1>a DEF Invoke, TypeOK, Attempts
  <2> QED  BY <1>0, <1>a, <2>1, <2>2, AttemptSync DEF Others
<1>5. CASE Interact(t)
  <2>1. PICK kind, severity, known, amount : Answer(t, kind, severity, known, amount)
    BY <1>5 DEF Interact
  <2>2. /\ pc'[t] \in Attempting /\ UNCHANGED <<trk, snap, claim, pass>>
        /\ \A u \in Threads \ {t} : pc'[u] = pc[u]
    BY <1>a, <2>1 DEF Answer, InAttempt, TypeOK, Attempting
  <2>3. \A u \in Threads : att'[u].key = att[u].key
    BY <1>a, <2>1 DEF Answer, TypeOK, Attempts
  <2> QED  BY <1>0, <1>a, <2>2, <2>3, AttemptSync DEF Others
<1>6. CASE ReadEnvelope(t)
  <2>1. /\ InteractionUsage(trk, att[t].known, att[t].amount).state = trk.state
        /\ InteractionUsage(trk, att[t].known, att[t].amount).done = trk.done
    BY <1>a, UsageType
  <2>2. trk'.state = trk.state /\ trk'.done = trk.done /\ snap'[t] = trk'
        /\ \A u \in Threads \ {t} : snap'[u] = snap[u]
    BY <1>6, <1>a, <2>1 DEF ReadEnvelope, Append, TypeOK
  <2>3. /\ pc'[t] \in Attempting /\ UNCHANGED <<claim, pass>>
        /\ \A u \in Threads \ {t} : pc'[u] = pc[u]
    BY <1>6, <1>a DEF ReadEnvelope, InAttempt, TypeOK, Attempting
  <2>4. \A u \in Threads : att'[u].key = att[u].key
    <3> DEFINE a == [att[t] EXCEPT !.answered = att[t].answer \in {"ok", "error"},
                                   !.outcome = Outcome(att[t])]
    <3>1. att' = [att EXCEPT ![t] = a]  BY <1>6 DEF ReadEnvelope
    <3>2. a.key = att[t].key  BY <1>a DEF Attempts
    <3> HIDE DEF a
    <3> QED  BY <1>a, <3>1, <3>2 DEF TypeOK
  <2> QED  BY <1>0, <1>a, <2>2, <2>3, <2>4, AttemptSync DEF Others
<1>7. CASE ClaimTeardown(t)
  <2>1. /\ pc'[t] \in Attempting /\ UNCHANGED <<trk, snap, claim, pass>>
        /\ \A u \in Threads \ {t} : pc'[u] = pc[u]
    BY <1>7, <1>a DEF ClaimTeardown, InAttempt, TypeOK, Attempting
  <2>2. \A u \in Threads : att'[u].key = att[u].key
    BY <1>7, <1>a DEF ClaimTeardown, TypeOK, Attempts
  <2> QED  BY <1>0, <1>a, <2>1, <2>2, AttemptSync DEF Others
<1>8. CASE TeardownWait(t)
  <2>1. /\ pc'[t] \in Attempting /\ UNCHANGED <<trk, snap, claim, pass>>
        /\ \A u \in Threads \ {t} : pc'[u] = pc[u]
    BY <1>8, <1>a DEF TeardownWait, InAttempt, TypeOK, Attempting
  <2>2. \A u \in Threads : att'[u].key = att[u].key
    BY <1>8, <1>a, AttemptFields DEF TeardownWait, TypeOK
  <2> QED  BY <1>0, <1>a, <2>1, <2>2, AttemptSync DEF Others
<1>9. CASE Teardown(t)
  <2>1. /\ pc'[t] \in Attempting /\ UNCHANGED <<trk, snap, claim, pass>>
        /\ \A u \in Threads \ {t} : pc'[u] = pc[u]
    BY <1>9, <1>a DEF Teardown, InAttempt, TypeOK, Attempting
  <2>2. \A u \in Threads : att'[u].key = att[u].key
    <3> DEFINE a == [att[t] EXCEPT !.teardownError = TRUE, !.cog = MovedByFailure(att[t])]
    <3>1. att' = att \/ att' = [att EXCEPT ![t] = a]  BY <1>9 DEF Teardown
    <3>2. a.key = att[t].key  BY <1>a DEF Attempts
    <3> HIDE DEF a
    <3> QED  BY <1>a, <3>1, <3>2 DEF TypeOK
  <2> QED  BY <1>0, <1>a, <2>1, <2>2, AttemptSync DEF Others
<1>10. CASE Stopped(t)
  <2>1. /\ WorkerStopped(trk, att[t].key).state = trk.state
        /\ WorkerStopped(trk, att[t].key).done = trk.done
    BY <1>a, WorkerTypes DEF HasKey
  <2>2. trk'.state = trk.state /\ trk'.done = trk.done /\ snap'[t] = trk'
        /\ \A u \in Threads \ {t} : snap'[u] = snap[u]
    BY <1>10, <1>a, <2>1 DEF Stopped, Append, TypeOK
  <2>3. /\ pc'[t] \in Attempting /\ UNCHANGED <<claim, pass>>
        /\ \A u \in Threads \ {t} : pc'[u] = pc[u]
    BY <1>10, <1>a DEF Stopped, InAttempt, TypeOK, Attempting
  <2>4. \A u \in Threads : att'[u].key = att[u].key
    BY <1>10, <1>a, AttemptFields DEF Stopped, TypeOK
  <2> QED  BY <1>0, <1>a, <2>2, <2>3, <2>4, AttemptSync DEF Others
<1> QED  BY SMTT(40), <1>1, <1>2, <1>3, <1>4, <1>5, <1>6, <1>7, <1>8, <1>9, <1>10 DEF AttemptStep

\* Keeping the result of the next step, unless a cancel was taken.
LEMMA KeepSync ==
  ASSUME TypeInv, SyncInv, NEW t \in Threads, pc[t] \in {"keep", "keep_approved"},
         NEW k \in Keys, NEW e \in {k, NoKey}, IsNext(trk, k[1]),
         UNCHANGED <<claim, att>>,
         \/ End(t, "cancel") /\ UNCHANGED <<trk, snap>>
         \/ /\ trk' = StepCompleted(trk, k, e)
            /\ snap' = [snap EXCEPT ![t] = StepCompleted(snap[t], k, e)]
            /\ End(t, "budget") \/ (pc' = [pc EXCEPT ![t] = "loop"] /\ UNCHANGED pass)
  PROVE  SyncInv' /\ Follows(trk, trk')
<1>0. pc[t] \in Driving  BY DEF Driving
<1>a. /\ TypeOK /\ SyncAt(t) /\ claim = t /\ pc[t] \in Holding /\ snap[t] = trk /\ trk \in Tracks
      /\ trk.state = "RUNNING" /\ "cancel" \in Ends /\ "budget" \in Ends
  BY <1>0, Drives DEF Ends
<1>1. CASE End(t, "cancel") /\ UNCHANGED <<trk, snap>>
  BY <1>1, <1>a, EndingSync DEF Follows
<1>2. CASE /\ trk' = StepCompleted(trk, k, e)
           /\ snap' = [snap EXCEPT ![t] = StepCompleted(snap[t], k, e)]
           /\ End(t, "budget") \/ (pc' = [pc EXCEPT ![t] = "loop"] /\ UNCHANGED pass)
  <2>1. /\ trk'.state = "RUNNING" /\ trk'.done = trk.done \cup {k[1]}
    BY <1>2, <1>a, StepCompletedType
  <2>2. snap'[t] = trk' /\ \A u \in Threads \ {t} : snap'[u] = snap[u]
    BY <1>2, <1>a DEF TypeOK
  <2>3. Follows(trk, trk')
    <3>1. k[1] \in Steps  BY DEF Keys
    <3> QED  BY <1>a, <2>1, <3>1 DEF Follows
  <2>4. CASE End(t, "budget")  BY <1>a, <2>1, <2>2, <2>3, <2>4, EndingSync
  <2>5. CASE pc' = [pc EXCEPT ![t] = "loop"] /\ UNCHANGED pass
    <3>1. pc'[t] = "loop" /\ Others(t)  BY <1>a, <2>2, <2>5 DEF Others, TypeOK
    <3>2. SyncAt(t)'
      BY <1>a, <2>1, <2>2, <3>1 DEF SyncAt, Holding, Driving, Attempting
    <3> QED  BY <1>a, <2>3, <3>1, <3>2, HolderStep
  <2> QED  BY <1>2, <2>4, <2>5
<1> QED  BY <1>1, <1>2

LEMMA EndStepSync ==
  ASSUME TypeInv, SyncInv, NEW t \in Threads, EndStep(t) PROVE SyncInv' /\ Follows(trk, trk')
<1> USE DEF At, Goto
<1>0. pc[t] \in Driving \ {"open", "pickup"}
  BY DEF EndStep, AfterNoResult, AfterResult, AfterEscaped, Keep, KeepApproved,
         FinishCancelled, FailStep, Escalate, StopForBudget, FailUnaccounted, Complete,
         FinishSecond, Ending, Finishes, Driving
<1>a. /\ TypeOK /\ SyncAt(t) /\ KeyAt(t) /\ claim = t /\ pc[t] \in Holding
      /\ snap[t] = trk /\ trk \in Tracks /\ trk.state = "RUNNING"
  BY <1>0, Drives
<1>b. ASSUME Finishes(t), NEW l, pc' = [pc EXCEPT ![t] = l],
             NEW T, snap' = [snap EXCEPT ![t] = T]
      PROVE  Others(t) /\ UNCHANGED claim /\ pc'[t] = l /\ pc[t] = "finish" /\ UNCHANGED <<att, pass>>
  BY <1>a, <1>b DEF Finishes, Others, TypeOK
<1>c. ASSUME Others(t), UNCHANGED claim, pc'[t] = "finish_second", snap'[t] = trk',
             trk'.state = "RUNNING", trk'.done = trk.done
      PROVE  SyncInv' /\ Follows(trk, trk')
  <2>1. SyncAt(t)'  BY <1>a, <1>c DEF SyncAt, Holding, Driving, Attempting
  <2> QED  BY <1>a, <1>c, <2>1, HolderStep DEF Follows
<1>1. CASE AfterNoResult(t)
  <2>1. PICK how \in {"cancel", "fail"} : End(t, how)  BY <1>1 DEF AfterNoResult
  <2>2. how \in Ends /\ UNCHANGED <<trk, snap, att, claim>>
    BY <1>1 DEF AfterNoResult, InLoop, Ends
  <2> QED  BY <1>a, <2>1, <2>2, EndingSync DEF Follows
<1>2. CASE AfterResult(t)
  <2>1. IsNext(trk, att[t].key[1])  BY <1>2, <1>a DEF AfterResult, SyncAt, Attempting
  <2>2. UNCHANGED <<trk, snap, att, claim>>  BY <1>2 DEF AfterResult, InLoop
  <2>3. Others(t) /\ pc'[t] \in {"finish", "keep"}
    BY <1>2, <1>a, <2>2 DEF AfterResult, Others, TypeOK
  <2>4. pc'[t] = "finish" => pass'[t].end = "escalate"
    <3> DEFINE e == Escalates(GateOf[att[t].key[1]], att[t].severity)
               n == Consumed(t)
               b == Exceeded(Consumed(t))
               p == [pass[t] EXCEPT !.tally = n, !.over = b, !.end = "escalate"]
    <3>1. CASE e
      <4>1. pass' = [pass EXCEPT ![t] = p]  BY <1>2, <3>1 DEF AfterResult
      <4> HIDE DEF n, b
      <4>2. p.end = "escalate"
        <5>1. pass[t] \in Passes  BY <1>a DEF TypeOK
        <5> QED  BY <5>1 DEF Passes
      <4> HIDE DEF p
      <4> QED  BY <1>a, <4>1, <4>2 DEF TypeOK
    <3>2. CASE ~e
      <4>1. pc' = [pc EXCEPT ![t] = "keep"]  BY <1>2, <3>2 DEF AfterResult
      <4> QED  BY <1>a, <4>1 DEF TypeOK
    <3> QED  BY <3>1, <3>2
  <2>5. SyncAt(t)'
    <3>1. IsNext(trk', att'[t].key[1]) /\ snap'[t] = trk' /\ claim' = t /\ trk'.state = "RUNNING"
      BY <1>a, <2>1, <2>2
    <3> QED  BY <2>3, <2>4, <3>1 DEF SyncAt, IsNext, Holding, Driving, Attempting
  <2> QED  BY <1>a, <2>2, <2>3, <2>5, HolderStep DEF Follows
<1>3. CASE AfterEscaped(t)
  <2>1. /\ Others(t) /\ UNCHANGED <<trk, claim>> /\ pc'[t] = "release"
    BY <1>3, <1>a DEF AfterEscaped, InLoop, Others, TypeOK
  <2> QED  BY <1>a, <2>1, ReleasingSync DEF Follows
<1>4. CASE Keep(t)
  <2>1. att[t].key \in Keys /\ IsNext(trk, att[t].key[1]) /\ pc[t] = "keep"
    BY <1>4, <1>a DEF Keep, KeyAt, HasKey, SyncAt, Attempting
  <2>2. /\ \/ End(t, "cancel") /\ UNCHANGED <<trk, snap>>
           \/ /\ trk' = StepCompleted(trk, att[t].key, NoKey)
              /\ snap' = [snap EXCEPT ![t] = StepCompleted(snap[t], att[t].key, NoKey)]
              /\ End(t, "budget") \/ (pc' = [pc EXCEPT ![t] = "loop"] /\ UNCHANGED pass)
        /\ UNCHANGED <<claim, att>>
    BY <1>4 DEF Keep, KeepUnlessCancelled, Append, InLoop
  <2> QED  BY <2>1, <2>2, KeepSync
<1>5. CASE KeepApproved(t)
  <2>1. PICK s \in Steps :
          /\ IsNext(snap[t], s)
          /\ KeepUnlessCancelled(t, LAMBDA T : StepCompleted(T, snap[t].approved[s],
                                                             snap[t].approved[s]))
    BY <1>5 DEF KeepApproved
  <2> DEFINE k == snap[t].approved[s]
  <2>2. k \in Keys
    <3>1. PICK r \in Steps : IsNext(snap[t], r) /\ snap[t].approved[r] # NoKey
      BY <1>a, <1>5 DEF KeepApproved, KeyAt
    <3>2. r = s  BY <2>1, <3>1, NextUnique
    <3> QED  BY <1>a, <3>1, <3>2 DEF Tracks, PerStep
  <2>3. k[1] = s
    <3>1. k # NoKey  BY <2>2, NStepsAssumption DEF Keys, NoKey, Steps
    <3> QED  BY <1>a, <3>1 DEF Tracks, PerStep
  <2>4. /\ \/ End(t, "cancel") /\ UNCHANGED <<trk, snap>>
           \/ /\ trk' = StepCompleted(trk, k, k)
              /\ snap' = [snap EXCEPT ![t] = StepCompleted(snap[t], k, k)]
              /\ End(t, "budget") \/ (pc' = [pc EXCEPT ![t] = "loop"] /\ UNCHANGED pass)
        /\ UNCHANGED <<claim, att>> /\ pc[t] = "keep_approved"
    BY <1>5, <2>1 DEF KeepApproved, KeepUnlessCancelled, Append, InLoop
  <2> HIDE DEF k
  <2> QED  BY <1>a, <2>1, <2>2, <2>3, <2>4, KeepSync
<1>6. CASE FinishCancelled(t)
  <2>1. CASE att[t].teardownError
    <3>1. /\ Finishes(t) /\ trk' = StepFailed(trk, att[t].key, TRUE)
          /\ snap' = [snap EXCEPT ![t] = StepFailed(snap[t], att[t].key, TRUE)]
          /\ pc' = [pc EXCEPT ![t] = "finish_second"]
      BY <1>6, <2>1 DEF FinishCancelled, Append
    <3>2. Others(t) /\ UNCHANGED claim /\ pc'[t] = "finish_second"  BY <1>b, <3>1
    <3>3. trk'.state = trk.state /\ trk'.done = trk.done /\ snap'[t] = trk'
      <4>1. att[t].key \in Keys /\ TRUE \in BOOLEAN
        BY <1>a, <2>1 DEF KeyAt, HasKey
      <4> QED  BY <1>a, <3>1, <4>1, StepFailedType DEF TypeOK
    <3> QED  BY <1>a, <1>c, <3>2, <3>3
  <2>2. CASE ~att[t].teardownError
    <3>1. /\ Finishes(t) /\ trk' = RunCancelled(trk)
          /\ snap' = [snap EXCEPT ![t] = RunCancelled(snap[t])]
          /\ pc' = [pc EXCEPT ![t] = "release"]
      BY <1>6, <2>2 DEF FinishCancelled, Append
    <3>2. Others(t) /\ UNCHANGED claim /\ pc'[t] = "release"  BY <1>b, <3>1
    <3>3. Follows(trk, trk')
      <4>1. trk'.state = "CANCELLED" /\ trk'.done = trk.done  BY <1>a, <3>1, RunCancelledType
      <4> QED  BY <1>a, <4>1 DEF Follows, Moves
    <3> QED  BY <1>a, <3>2, <3>3, ReleasingSync
  <2> QED  BY <2>1, <2>2
<1>7. CASE FailStep(t)
  <2> DEFINE flag == att[t].teardownError
  <2>1. /\ Finishes(t) /\ trk' = StepFailed(trk, att[t].key, flag)
        /\ snap' = [snap EXCEPT ![t] = StepFailed(snap[t], att[t].key, flag)]
        /\ pc' = [pc EXCEPT ![t] = "finish_second"] /\ pass[t].end = "fail"
    BY <1>7 DEF FailStep, Ending, Append
  <2>2. Others(t) /\ UNCHANGED claim /\ pc'[t] = "finish_second" /\ pc[t] = "finish"
    BY <1>b, <2>1
  <2>3. trk'.state = trk.state /\ trk'.done = trk.done /\ snap'[t] = trk'
    <3>1. att[t].key \in Keys /\ TRUE \in BOOLEAN
          /\ flag \in BOOLEAN
      BY <1>a, <2>1, <2>2 DEF KeyAt, HasKey, TypeOK, Attempts
    <3> HIDE DEF flag
    <3> QED  BY <1>a, <2>1, <3>1, StepFailedType DEF TypeOK
  <2> QED  BY <1>a, <1>c, <2>2, <2>3
<1>8. CASE Escalate(t)
  <2>1. /\ Finishes(t) /\ trk' = GateEscalated(trk, att[t].key)
        /\ snap' = [snap EXCEPT ![t] = GateEscalated(snap[t], att[t].key)]
        /\ pc' = [pc EXCEPT ![t] = "release"] /\ pass[t].end = "escalate"
    BY <1>8 DEF Escalate, Ending, Append
  <2>2. Others(t) /\ UNCHANGED claim /\ pc'[t] = "release" /\ pc[t] = "finish"
    BY <1>b, <2>1
  <2>3. att[t].key \in Keys /\ IsNext(trk, att[t].key[1])
    BY <1>a, <2>1, <2>2 DEF KeyAt, HasKey, SyncAt
  <2>4. Follows(trk, trk')
    <3>1. trk'.state = "WAITING_AT_GATE" /\ trk'.done = trk.done
      BY <1>a, <2>1, <2>3, GateEscalatedType
    <3>2. trk.done # Steps  BY <2>3 DEF IsNext, Keys
    <3> QED  BY <1>a, <3>1, <3>2 DEF Follows
  <2> QED  BY <1>a, <2>2, <2>4, ReleasingSync
<1>9. CASE StopForBudget(t)
  <2>1. /\ Finishes(t) /\ trk' = BudgetStopped(trk) /\ snap' = [snap EXCEPT ![t] = BudgetStopped(snap[t])]
        /\ pc' = [pc EXCEPT ![t] = "release"]
    BY <1>9 DEF StopForBudget, Ending, Append
  <2>2. Others(t) /\ UNCHANGED claim /\ pc'[t] = "release" /\ pc[t] = "finish"  BY <1>b, <2>1
  <2>3. Follows(trk, trk')
    <3>1. trk'.state = "BUDGET_EXCEEDED" /\ trk'.done = trk.done  BY <1>a, <2>1, EndTypes
    <3> QED  BY <1>a, <2>1, <2>2, <3>1 DEF Follows, Moves
  <2> QED  BY <1>a, <2>2, <2>3, ReleasingSync
<1>10. CASE FailUnaccounted(t)
  <2>1. /\ Finishes(t) /\ trk' = RunFailed(trk) /\ snap' = [snap EXCEPT ![t] = RunFailed(snap[t])]
        /\ pc' = [pc EXCEPT ![t] = "release"]
    BY <1>10 DEF FailUnaccounted, Ending, Append
  <2>2. Others(t) /\ UNCHANGED claim /\ pc'[t] = "release" /\ pc[t] = "finish"  BY <1>b, <2>1
  <2>3. Follows(trk, trk')
    <3>1. trk'.state = "FAILED" /\ trk'.done = trk.done  BY <1>a, <2>1, EndTypes
    <3> QED  BY <1>a, <2>1, <2>2, <3>1 DEF Follows, Moves
  <2> QED  BY <1>a, <2>2, <2>3, ReleasingSync
<1>11. CASE Complete(t)
  <2>1. /\ Finishes(t) /\ trk' = RunCompleted(trk) /\ snap' = [snap EXCEPT ![t] = RunCompleted(snap[t])]
        /\ pc' = [pc EXCEPT ![t] = "release"] /\ pass[t].end = "complete"
    BY <1>11 DEF Complete, Ending, Append
  <2>2. Others(t) /\ UNCHANGED claim /\ pc'[t] = "release" /\ pc[t] = "finish"  BY <1>b, <2>1
  <2>3. Follows(trk, trk')
    <3>1. trk'.state = "COMPLETED" /\ trk'.done = trk.done  BY <1>a, <2>1, EndTypes
    <3> QED  BY <1>a, <2>1, <2>2, <3>1 DEF Follows, Moves, SyncAt
  <2> QED  BY <1>a, <2>2, <2>3, ReleasingSync
<1>12. CASE FinishSecond(t)
  <2>1. /\ trk' = RunCancelled(trk) \/ trk' = RunFailed(trk)
        /\ pc'[t] = "release" /\ Others(t) /\ UNCHANGED claim
    BY <1>12, <1>a DEF FinishSecond, Append, Others, TypeOK
  <2>2. trk'.state \in {"CANCELLED", "FAILED"} /\ trk'.done = trk.done
    <3>1. RunCancelled(trk).state = "CANCELLED" /\ RunCancelled(trk).done = trk.done
      BY <1>a, RunCancelledType
    <3>2. RunFailed(trk).state = "FAILED" /\ RunFailed(trk).done = trk.done
      BY <1>a, EndTypes
    <3> QED  BY <2>1, <3>1, <3>2
  <2>3. Follows(trk, trk')  BY <1>a, <2>2 DEF Follows, Moves
  <2> QED  BY <1>a, <2>1, <2>3, ReleasingSync
<1> QED  BY <1>1, <1>2, <1>3, <1>4, <1>5, <1>6, <1>7, <1>8, <1>9, <1>10, <1>11, <1>12
         DEF EndStep

LEMMA FailedWriteSync ==
  ASSUME TypeInv, SyncInv, NEW t \in Threads, FailedWrite(t) PROVE SyncInv' /\ Follows(trk, trk')
<1> USE DEF At, Goto
<1>0. pc[t] \in Driving
  BY DEF FailedWrite, WorkerWriteFails, ReadyWriteFails, UsageWriteFails, HandlerWriteFails, DriverWriteFails,
         DriverWrites, Driving
<1>a. /\ TypeOK /\ SyncAt(t) /\ KeyAt(t) /\ claim = t /\ pc[t] \in Holding
      /\ snap[t] = trk /\ trk \in Tracks /\ att[t] \in Attempts
  BY <1>0, Drives DEF TypeOK
<1>b. ASSUME NEW l, WriteFailed(t, l)
      PROVE  /\ pc'[t] = l /\ \A u \in Threads \ {t} : pc'[u] = pc[u]
             /\ UNCHANGED <<claim, pass>>
  BY <1>a, <1>b DEF WriteFailed, TypeOK
<1>1. CASE WorkerWriteFails(t)
  <2>1. WriteFailed(t, "teardown") /\ UNCHANGED <<trk, snap>> /\ pc[t] \in Attempting
    BY <1>1 DEF WorkerWriteFails, Attempting
  <2>3. \A u \in Threads : att'[u].key = att[u].key
    <3>1. PICK c : att' = att \/ att' = [att EXCEPT ![t].cog = c]
      BY <1>1 DEF WorkerWriteFails
    <3> DEFINE a == [att[t] EXCEPT !.cog = c]
    <3>2. a.key = att[t].key  BY <1>a DEF Attempts
    <3>3. att' = att \/ att' = [att EXCEPT ![t] = a]  BY <3>1
    <3> HIDE DEF a
    <3> QED  BY <1>a, <3>2, <3>3 DEF TypeOK
  <2>2. pc'[t] \in Attempting /\ Others(t) /\ UNCHANGED claim
    BY <1>b, <2>1, <2>3 DEF Others, Attempting
  <2> QED  BY <1>a, <2>1, <2>2, <2>3, AttemptSync
<1>5. CASE ReadyWriteFails(t)
  <2> DEFINE a == [att[t] EXCEPT !.started = TRUE, !.cog = "MATERIALIZED"]
  <2>1. /\ WriteFailed(t, "teardown") /\ pc[t] \in Attempting
        /\ trk' = WorkerStarted(trk, att[t].key)
        /\ snap' = [snap EXCEPT ![t] = WorkerStarted(snap[t], att[t].key)]
        /\ att' = [att EXCEPT ![t] = a]
    BY <1>5 DEF ReadyWriteFails, Append, Attempting
  <2>2. trk'.state = trk.state /\ trk'.done = trk.done
    <3>1. HasKey(t)  BY <1>a, <2>1 DEF KeyAt
    <3> QED  BY <1>a, <2>1, <3>1, WorkerTypes DEF HasKey
  <2>3. a.key = att[t].key  BY <1>a DEF Attempts
  <2> HIDE DEF a
  <2>4. /\ \A u \in Threads : att'[u].key = att[u].key
        /\ snap'[t] = trk' /\ \A u \in Threads \ {t} : snap'[u] = snap[u]
    BY <1>a, <2>1, <2>3 DEF TypeOK
  <2>5. pc'[t] \in Attempting /\ Others(t) /\ UNCHANGED claim
    BY <1>b, <2>1, <2>4 DEF Others, Attempting
  <2> QED  BY <2>1, <2>2, <2>4, <2>5, AttemptSync
<1>2. CASE UsageWriteFails(t)
  <2> DEFINE a == [att[t] EXCEPT !.answered = att[t].answer \in {"ok", "error"}]
  <2>1. /\ WriteFailed(t, "teardown") /\ pc[t] \in Attempting
        /\ trk' = InteractionUsage(trk, FALSE, 0)
        /\ snap' = [snap EXCEPT ![t] = InteractionUsage(snap[t], FALSE, 0)]
        /\ att' = [att EXCEPT ![t] = a]
    BY <1>2 DEF UsageWriteFails, Append, Attempting
  <2>2. trk'.state = trk.state /\ trk'.done = trk.done
    <3>1. FALSE \in BOOLEAN /\ 0 \in Nat  OBVIOUS
    <3> QED  BY <1>a, <2>1, <3>1, UsageType
  <2>3. a.key = att[t].key  BY <1>a DEF Attempts
  <2> HIDE DEF a
  <2>4. /\ \A u \in Threads : att'[u].key = att[u].key
        /\ snap'[t] = trk' /\ \A u \in Threads \ {t} : snap'[u] = snap[u]
    BY <1>a, <2>1, <2>3 DEF TypeOK
  <2>5. pc'[t] \in Attempting /\ Others(t) /\ UNCHANGED claim
    BY <1>b, <2>1, <2>4 DEF Others, Attempting
  <2> QED  BY <2>1, <2>2, <2>4, <2>5, AttemptSync
<1>3. CASE HandlerWriteFails(t)
  <2> DEFINE a == [att[t] EXCEPT !.outcome = "escaped"]
  <2>1. /\ WriteFailed(t, "teardown") /\ UNCHANGED <<trk, snap>> /\ pc[t] \in Attempting
        /\ att' = [att EXCEPT ![t] = a]
    BY <1>3 DEF HandlerWriteFails, Attempting
  <2>2. a.key = att[t].key  BY <1>a DEF Attempts
  <2> HIDE DEF a
  <2>3. \A u \in Threads : att'[u].key = att[u].key  BY <1>a, <2>1, <2>2 DEF TypeOK
  <2>4. pc'[t] \in Attempting /\ Others(t) /\ UNCHANGED claim
    BY <1>b, <2>1, <2>3 DEF Others, Attempting
  <2> QED  BY <1>a, <2>1, <2>3, <2>4, AttemptSync
<1>4. CASE DriverWriteFails(t)
  <2>1. WriteFailed(t, "release") /\ UNCHANGED <<trk, snap, att>>  BY <1>4 DEF DriverWriteFails
  <2>2. pc'[t] = "release" /\ Others(t) /\ UNCHANGED claim  BY <1>b, <2>1 DEF Others
  <2> QED  BY <1>a, <2>1, <2>2, ReleasingSync DEF Follows
<1> QED  BY <1>1, <1>2, <1>3, <1>4, <1>5 DEF FailedWrite

LEMMA HostStepSync ==
  ASSUME TypeInv, SyncInv,
         (\E t \in Threads : Begin(t) \/ StartHost(t))
           \/ ApiSubmit \/ DeadlinePasses \/ Crash \/ Boot \/ AtRest \/ UNCHANGED vars
  PROVE  SyncInv' /\ Follows(trk, trk')
<1>0. TypeOK /\ trk \in Tracks  BY DEF TypeInv, TypeOK
<1>1. ASSUME NEW t \in Threads, Begin(t) \/ StartHost(t) PROVE SyncInv' /\ Follows(trk, trk')
  <2>1. /\ pc[t] = "idle" /\ pc' = [pc EXCEPT ![t] = "acquire"]
        /\ UNCHANGED <<trk, claim, snap, pass, att>>
    BY <1>1 DEF Begin, BeginCall, StartHost, At, Goto
  <2>2. pc[t] \notin Holding /\ pc'[t] \notin Holding /\ Others(t)
    BY <1>0, <2>1 DEF TypeOK, Others, Holding, Driving
  <2> QED  BY <2>1, <2>2, BystanderStep DEF Follows
<1>2. CASE ApiSubmit
  <2>1. /\ trk.state = "NONE" /\ trk'.state = "SUBMITTED" /\ trk'.done = trk.done
        /\ UNCHANGED <<claim, pc, snap, pass, att>>
    BY <1>0, <1>2, OpSubmittedType DEF ApiSubmit
  <2>2. ASSUME NEW u \in Threads PROVE SyncAt(u)'
    <3>1. SyncAt(u)  BY DEF SyncInv
    <3>2. pc[u] \notin Driving  BY <2>1, <3>1 DEF SyncAt
    <3> QED  BY <2>1, <3>1, <3>2 DEF SyncAt, Driving, Attempting
  <2>3. Follows(trk, trk')  BY <2>1 DEF Follows, Moves
  <2> QED  BY <2>2, <2>3, FollowsReadable DEF SyncInv
<1>3. CASE Crash
  <2>1. trk' = trk /\ claim' = Nobody /\ pc' = [t \in Threads |-> "idle"]  BY <1>3 DEF Crash
  <2>2. ASSUME NEW u \in Threads PROVE SyncAt(u)'
    <3>1. pc'[u] \notin Holding /\ claim' # u  BY <2>1, NobodyAssumption DEF Holding, Driving
    <3> QED  BY <3>1, Places DEF SyncAt
  <2> QED  BY <2>1, <2>2 DEF SyncInv, TrackReadable, Follows
<1>4. CASE DeadlinePasses \/ Boot \/ AtRest \/ UNCHANGED vars
  <2>1. UNCHANGED <<trk, claim, pc, snap, pass, att>>
    BY <1>4 DEF DeadlinePasses, Boot, AtRest, vars
  <2> QED  BY <2>1 DEF SyncInv, SyncAt, IsNext, TrackReadable, Follows
<1> QED  BY <1>1, <1>2, <1>3, <1>4

LEMMA NextSync ==
  ASSUME TypeInv, SyncInv, [Next]_vars PROVE SyncInv' /\ Follows(trk, trk')
<1>1. ASSUME NEW t \in Threads, ThreadStep(t) PROVE SyncInv' /\ Follows(trk, trk')
  BY <1>1, ClaimStepSync, EnterStepSync, DriverStepSync, AttemptStepSync, EndStepSync
     DEF ThreadStep
<1>2. ASSUME NEW t \in Threads, FailedWrite(t) PROVE SyncInv' /\ Follows(trk, trk')
  BY <1>2, FailedWriteSync
<1> QED  BY <1>1, <1>2, HostStepSync DEF Next

--------------------------------------------------------------------------
(***************************************************************************)
(* The worker's machine.  What is needed of it: where its state is when    *)
(* the driver is about to move it.                                         *)
(***************************************************************************)
Unanswered == {"attempt", "materialize", "worker_up", "invoke", "interact", "read_envelope"}
Watched    == Unanswered \cup {"teardown", "td_exec"}

CogAt(t) ==
  /\ att[t].cog # "REFUSED"
  /\ pc[t] \in Unanswered => ~att[t].answered
  /\ pc[t] = "invoke" => att[t].cog = "READY"
  /\ pc[t] \in {"interact", "read_envelope"} => att[t].cog = "INTERACTING"
  /\ pc[t] = "teardown" => /\ att[t].cog \in {"none", "MATERIALIZED", "READY", "INTERACTING"}
                           /\ att[t].answered => att[t].cog = "INTERACTING"
  /\ pc[t] = "td_exec" => (TearingDown(att[t]) => att[t].cog = "TEARING_DOWN")

CogInv == \A t \in Threads : CogAt(t)

\* A thread that goes where nothing is asked of its worker, or stays where it is
\* while, at most, a cancel takes its worker.
Quiet(t) ==
  \/ pc'[t] \notin Watched /\ (att'[t].cog = att[t].cog \/ att'[t].cog = "none")
  \/ /\ pc'[t] = pc[t] /\ att'[t].cog = att[t].cog
     /\ att'[t].answered = att[t].answered
     /\ TearingDown(att'[t]) => TearingDown(att[t])

LEMMA QuietKeeps ==
  ASSUME NEW t \in Threads, CogAt(t), Quiet(t) PROVE CogAt(t)'
<1>1. CASE pc'[t] \notin Watched /\ (att'[t].cog = att[t].cog \/ att'[t].cog = "none")
  BY <1>1 DEF CogAt, Watched, Unanswered
<1>2. CASE /\ pc'[t] = pc[t] /\ att'[t].cog = att[t].cog
           /\ att'[t].answered = att[t].answered
           /\ TearingDown(att'[t]) => TearingDown(att[t])
  BY Zenon, <1>2 DEF CogAt
<1> QED  BY <1>1, <1>2 DEF Quiet

LEMMA QuietStep ==
  ASSUME CogInv, \A t \in Threads : Quiet(t) PROVE CogInv'
  BY QuietKeeps DEF CogInv

\* A step of t alone.
LEMMA CogStep ==
  ASSUME CogInv, NEW t \in Threads, CogAt(t)',
         \A u \in Threads \ {t} : pc'[u] = pc[u] /\ att'[u] = att[u]
  PROVE  CogInv'
<1>1. \A u \in Threads \ {t} : Quiet(u)  BY DEF Quiet
<1> QED  BY <1>1, QuietKeeps DEF CogInv

\* Steps that leave the attempts alone, or give t a new one, and take t nowhere
\* that its worker is asked anything.
LEMMA AwayStep ==
  ASSUME TypeOK, CogInv, NEW t \in Threads, NEW l \in Labels \ Watched,
         pc' = [pc EXCEPT ![t] = l],
         att' = att \/ att' = [att EXCEPT ![t] = NewAttempt(NoKey)]
  PROVE  CogInv'
<1>1. NewAttempt(NoKey).cog = "none"  BY DEF NewAttempt
<1>2. \A u \in Threads : Quiet(u)  BY <1>1 DEF Quiet, TypeOK
<1> QED  BY <1>2, QuietStep

LEMMA InitCog == Init => CogInv
<1>1. NewAttempt(NoKey).cog = "none"  BY DEF NewAttempt
<1> QED  BY <1>1 DEF Init, CogInv, CogAt, Unanswered

\* A cancel takes a worker; the driver's own moves of it are not its.
LEMMA CancelQuiet ==
  ASSUME TypeOK, NEW h \in Threads, NEW b, att' = [att EXCEPT ![h] = b],
         b.cog = att[h].cog, b.answered = att[h].answered, b.cancelTeardown # "none"
  PROVE  \A u \in Threads : /\ att'[u].cog = att[u].cog /\ att'[u].answered = att[u].answered
                            /\ TearingDown(att'[u]) => TearingDown(att[u])
<1>1. TearingDown(b) => TearingDown(att[h])  BY DEF TearingDown
<1>2. att'[h] = b /\ \A u \in Threads \ {h} : att'[u] = att[u]  BY DEF TypeOK
<1> QED  BY <1>1, <1>2

LEMMA ClaimStepCog ==
  ASSUME TypeOK, CogInv, NEW t \in Threads, ClaimStep(t) PROVE CogInv'
<1> USE DEF At, Goto
<1>0. {"read", "wait", "idle", "acquire", "status", "cancel_teardown", "let_go"} \subseteq Labels \ Watched
  BY DEF Labels, Holding, Driving, Watched, Unanswered
<1>1. CASE AcceptCancel(t) \/ CancelTeardown(t)
  <2>1. PICK l \in {"idle", "cancel_teardown"} : pc' = [pc EXCEPT ![t] = l]
    BY <1>1 DEF AcceptCancel, CancelTeardown
  <2>2. \A u \in Threads : pc'[u] = pc[u] \/ pc'[u] \notin Watched
    BY <1>0, <2>1 DEF TypeOK
  <2>3. \A u \in Threads : /\ att'[u].cog = att[u].cog /\ att'[u].answered = att[u].answered
                           /\ TearingDown(att'[u]) => TearingDown(att[u])
    <3>1. CASE att' = att  BY <3>1
    <3>2. CASE att' # att
      <4> DEFINE h == waitOn[t]
      <4>1. h \in Threads
        <5>1. h \notin Threads => att' = att
          BY <1>1 DEF AcceptCancel, CancelTeardown, TypeOK
        <5> QED  BY <3>2, <5>1
      <4>2. att[h] \in Attempts  BY <4>1 DEF TypeOK
      <4>3. CASE AcceptCancel(t)
        <5> DEFINE b == [att[h] EXCEPT !.released = TRUE, !.cancelTeardown = "busy"]
        <5>1. att' = [att EXCEPT ![h] = b]  BY <3>2, <4>3 DEF AcceptCancel
        <5> HIDE DEF h
        <5>2. b.cog = att[h].cog /\ b.answered = att[h].answered /\ b.cancelTeardown = "busy"
          BY <4>2 DEF Attempts
        <5> HIDE DEF b
        <5> QED  BY <4>1, <5>1, <5>2, CancelQuiet
      <4>4. CASE CancelTeardown(t)
        <5>1. PICK x \in {"ok", "failed"} : att' = [att EXCEPT ![h].cancelTeardown = x]
          BY <4>4 DEF CancelTeardown
        <5> DEFINE b == [att[h] EXCEPT !.cancelTeardown = x]
        <5>2. att' = [att EXCEPT ![h] = b]  BY <5>1
        <5> HIDE DEF h
        <5>3. b.cog = att[h].cog /\ b.answered = att[h].answered /\ b.cancelTeardown # "none"
          BY <4>2 DEF Attempts
        <5> HIDE DEF b
        <5> QED  BY <4>1, <5>2, <5>3, CancelQuiet
      <4> QED  BY <1>1, <4>3, <4>4
    <3> QED  BY <3>1, <3>2
  <2> QED  BY <2>2, <2>3, QuietStep DEF Quiet
<1>2. CASE Acquire(t) \/ Busy(t) \/ WaitFinished(t) \/ WaitAccepting(t) \/ Status(t) \/ Release(t) \/ LetGo(t)
  <2>1. /\ \E l \in Labels \ Watched : pc' = [pc EXCEPT ![t] = l]
        /\ att' = att \/ att' = [att EXCEPT ![t] = NewAttempt(NoKey)]
    BY <1>0, <1>2 DEF Acquire, Busy, WaitFinished, WaitAccepting, Status, Release, LetGo
  <2> QED  BY <2>1, AwayStep
<1> QED  BY <1>1, <1>2 DEF ClaimStep

LEMMA EnterStepCog ==
  ASSUME TypeOK, CogInv, NEW t \in Threads, EnterStep(t) \/ Begin(t) \/ StartHost(t) PROVE CogInv'
<1> USE DEF At, Goto
<1>0. {"enter", "open", "release", "acquire"} \subseteq Labels \ Watched
  BY DEF Labels, Holding, Driving, Watched, Unanswered
<1>1. att' = att /\ \E l \in {"enter", "open", "release", "acquire"} : pc' = [pc EXCEPT ![t] = l]
  BY DEF EnterStep, Read, EnterSubmit, EnterRetry, EnterDecide, EnterCancel, EnterStart, Entered,
         Begin, BeginCall, StartHost
<1> QED  BY <1>0, <1>1, AwayStep

LEMMA DriverStepCog ==
  ASSUME TypeOK, CogInv, NEW t \in Threads, DriverStep(t) PROVE CogInv'
<1> USE DEF At, Goto
<1>1. CASE Resolve(t)
  <2>1. PICK k : att' = [att EXCEPT ![t] = NewAttempt(k)] /\ pc' = [pc EXCEPT ![t] = "attempt"]
    BY <1>1 DEF Resolve
  <2>2. NewAttempt(k).cog = "none" /\ ~NewAttempt(k).answered  BY DEF NewAttempt
  <2>3. pc'[t] = "attempt" /\ att'[t] = NewAttempt(k)  BY <2>1 DEF TypeOK
  <2>4. CogAt(t)'  BY <2>2, <2>3 DEF CogAt
  <2>5. \A u \in Threads \ {t} : pc'[u] = pc[u] /\ att'[u] = att[u]  BY <2>1 DEF TypeOK
  <2> QED  BY <2>4, <2>5, CogStep
<1>2. CASE ~Resolve(t)
  <2>0. {"pickup", "loop", "finish", "keep_approved", "release"} \subseteq Labels \ Watched
    BY DEF Labels, Holding, Driving, Watched, Unanswered
  <2>1. att' = att /\ \E l \in {"pickup", "loop", "finish", "keep_approved", "release"} : pc' = [pc EXCEPT ![t] = l]
    BY <1>2 DEF DriverStep, Open, PickUp, LoopCancelled, LoopApproved, LoopBudget, LoopEnd, End, InLoop
  <2> QED  BY <2>0, <2>1, AwayStep
<1> QED  BY <1>1, <1>2

LEMMA EndStepCog ==
  ASSUME TypeOK, CogInv, NEW t \in Threads, EndStep(t) \/ DriverWriteFails(t) PROVE CogInv'
<1> USE DEF At, Goto
<1>0. {"finish", "keep", "release", "loop", "finish_second"} \subseteq Labels \ Watched
  BY DEF Labels, Holding, Driving, Watched, Unanswered
<1>1. att' = att /\ \E l \in {"finish", "keep", "release", "loop", "finish_second"} : pc' = [pc EXCEPT ![t] = l]
  BY DEF EndStep, AfterNoResult, AfterResult, AfterEscaped, Keep, KeepApproved, KeepUnlessCancelled,
         FinishCancelled, FailStep, Escalate, StopForBudget, FailUnaccounted, Complete, FinishSecond,
         Ending, Finishes, End, InLoop, DriverWriteFails, WriteFailed
<1> QED  BY <1>0, <1>1, AwayStep

\* The moves of the worker's machine that the driver makes.
LEMMA MachineMoves ==
  /\ Dispatch("MATERIALIZED", "ready") = "READY"
  /\ Dispatch("READY", "invoke") = "INTERACTING"
  /\ Dispatch(Dispatch("INTERACTING", "envelope_returned"), "one_shot") = "TEARING_DOWN"
  /\ \A s \in {"MATERIALIZED", "READY", "INTERACTING", "TEARING_DOWN"} :
       Dispatch(s, "fail") = "WORKER_FAILED"
<1>1. Dispatch("INTERACTING", "envelope_returned") = "IDLE"  BY DEF Dispatch, TEARDOWN_REASONS
<1>2. Dispatch("IDLE", "one_shot") = "TEARING_DOWN"  BY DEF Dispatch, TEARDOWN_REASONS
<1>3. Dispatch("MATERIALIZED", "ready") = "READY"  BY DEF Dispatch, TEARDOWN_REASONS
<1>4. Dispatch("READY", "invoke") = "INTERACTING"  BY DEF Dispatch, TEARDOWN_REASONS
<1>5. ASSUME NEW s \in {"MATERIALIZED", "READY", "INTERACTING", "TEARING_DOWN"}
      PROVE  Dispatch(s, "fail") = "WORKER_FAILED"
  BY DEF Dispatch, TEARDOWN_REASONS
<1> QED  BY <1>1, <1>2, <1>3, <1>4, <1>5

LEMMA AttemptStepCog ==
  ASSUME TypeOK, CogInv, NEW t \in Threads, AttemptStep(t) PROVE CogInv'
<1> USE DEF At, Goto
<1>0. CogAt(t) /\ att[t] \in Attempts  BY DEF CogInv, TypeOK
<1>b. "after" \in Labels  BY DEF Labels, Holding, Driving
<1>1. CASE BeginAttempt(t)
  <2>1. PICK l \in {"after", "materialize"} : pc' = [pc EXCEPT ![t] = l]  BY <1>1 DEF BeginAttempt
  <2>2. att' = att /\ pc[t] = "attempt"  BY <1>1 DEF BeginAttempt
  <2>3. pc'[t] = l /\ \A u \in Threads \ {t} : pc'[u] = pc[u]  BY <2>1 DEF TypeOK
  <2>4. CogAt(t)'  BY <1>0, <2>2, <2>3 DEF CogAt, Unanswered
  <2> QED  BY <2>2, <2>3, <2>4, CogStep
<1>2. CASE Materialize(t)
  <2>1. CASE att' = [att EXCEPT ![t].worker = TRUE] /\ pc' = [pc EXCEPT ![t] = "worker_up"]
    <3> DEFINE a == [att[t] EXCEPT !.worker = TRUE]
    <3>2. a.cog = att[t].cog /\ a.answered = att[t].answered  BY <1>0 DEF Attempts
    <3>3. att' = [att EXCEPT ![t] = a]  BY <2>1
    <3> HIDE DEF a
    <3>4. /\ pc'[t] = "worker_up" /\ att'[t] = a
          /\ \A u \in Threads \ {t} : pc'[u] = pc[u] /\ att'[u] = att[u]
      BY <2>1, <3>3 DEF TypeOK
    <3>5. att[t].cog # "REFUSED" /\ ~att[t].answered
      BY <1>0, <1>2 DEF CogAt, Materialize, Unanswered
    <3>6. CogAt(t)'  BY <3>2, <3>4, <3>5 DEF CogAt
    <3> QED  BY <3>4, <3>6, CogStep
  <2>2. CASE att' = att /\ pc' = [pc EXCEPT ![t] = "after"]
    <3>1. "after" \in Labels \ Watched  BY <1>b DEF Watched, Unanswered
    <3> QED  BY <2>2, <3>1, AwayStep
  <2> QED  BY <1>2, <2>1, <2>2 DEF Materialize
<1>3. CASE WorkerUp(t)
  <2> DEFINE c == Dispatch("MATERIALIZED", "ready")
             a == [att[t] EXCEPT !.started = TRUE, !.cog = c]
  <2>1. c = "READY"  BY MachineMoves
  <2>2. att' = [att EXCEPT ![t] = a] /\ pc' = [pc EXCEPT ![t] = "invoke"] /\ pc[t] = "worker_up"
    BY <1>3 DEF WorkerUp
  <2> HIDE DEF c
  <2>4. a.cog = "READY" /\ a.answered = att[t].answered  BY <1>0, <2>1 DEF Attempts
  <2> HIDE DEF a
  <2>5. /\ pc'[t] = "invoke" /\ att'[t] = a
        /\ \A u \in Threads \ {t} : pc'[u] = pc[u] /\ att'[u] = att[u]
    BY <2>2 DEF TypeOK
  <2>6. ~att[t].answered  BY <1>0, <2>2 DEF CogAt, Unanswered
  <2>7. CogAt(t)'  BY <2>4, <2>5, <2>6 DEF CogAt
  <2> QED  BY <2>5, <2>7, CogStep
<1>4. CASE Invoke(t)
  <2>0. att[t].cog = "READY" /\ ~att[t].answered
    BY <1>0, <1>4 DEF CogAt, Invoke, Unanswered
  <2>1. CASE att' = att /\ pc' = [pc EXCEPT ![t] = "teardown"]
    <3>1. pc'[t] = "teardown" /\ \A u \in Threads \ {t} : pc'[u] = pc[u]  BY <2>1 DEF TypeOK
    <3>2. CogAt(t)'  BY <2>0, <2>1, <3>1 DEF CogAt, Unanswered
    <3> QED  BY <2>1, <3>1, <3>2, CogStep
  <2>2. CASE /\ att' = [att EXCEPT ![t].cog = Dispatch(@, "invoke")]
             /\ pc' = [pc EXCEPT ![t] = "interact"]
    <3> DEFINE c == Dispatch(att[t].cog, "invoke")
               a == [att[t] EXCEPT !.cog = c]
    <3>1. c = "INTERACTING"  BY <2>0, MachineMoves
    <3>2. att' = [att EXCEPT ![t] = a]  BY <2>2
    <3> HIDE DEF c
    <3>4. a.cog = "INTERACTING" /\ a.answered = att[t].answered  BY <1>0, <3>1 DEF Attempts
    <3> HIDE DEF a
    <3>5. /\ pc'[t] = "interact" /\ att'[t] = a
          /\ \A u \in Threads \ {t} : pc'[u] = pc[u] /\ att'[u] = att[u]
      BY <2>2, <3>2 DEF TypeOK
    <3>6. CogAt(t)'  BY <2>0, <3>4, <3>5 DEF CogAt
    <3> QED  BY <3>5, <3>6, CogStep
  <2> QED  BY <1>4, <2>1, <2>2 DEF Invoke
<1>5. CASE Interact(t)
  <2>1. PICK kind, severity, known, amount : Answer(t, kind, severity, known, amount)
    BY <1>5 DEF Interact
  <2> DEFINE a == [att[t] EXCEPT !.answer = kind, !.severity = severity,
                                 !.known = known, !.amount = amount]
  <2>2. /\ att' = [att EXCEPT ![t] = a] /\ pc' = [pc EXCEPT ![t] = "read_envelope"]
        /\ pc[t] = "interact"
    BY <2>1 DEF Answer
  <2>3. a.cog = att[t].cog /\ a.answered = att[t].answered  BY <1>0 DEF Attempts
  <2> HIDE DEF a
  <2>4. /\ pc'[t] = "read_envelope" /\ att'[t] = a
        /\ \A u \in Threads \ {t} : pc'[u] = pc[u] /\ att'[u] = att[u]
    BY <2>2 DEF TypeOK
  <2>5. att[t].cog = "INTERACTING" /\ ~att[t].answered
    BY <1>0, <2>2 DEF CogAt, Unanswered
  <2>6. CogAt(t)'  BY <2>3, <2>4, <2>5 DEF CogAt
  <2> QED  BY <2>4, <2>6, CogStep
<1>6. CASE ReadEnvelope(t)
  <2> DEFINE a == [att[t] EXCEPT !.answered = att[t].answer \in {"ok", "error"},
                                 !.outcome = Outcome(att[t])]
  <2>1. /\ att' = [att EXCEPT ![t] = a] /\ pc' = [pc EXCEPT ![t] = "teardown"]
        /\ pc[t] = "read_envelope"
    BY <1>6 DEF ReadEnvelope
  <2>2. a.cog = att[t].cog  BY <1>0 DEF Attempts
  <2> HIDE DEF a
  <2>3. /\ pc'[t] = "teardown" /\ att'[t] = a
        /\ \A u \in Threads \ {t} : pc'[u] = pc[u] /\ att'[u] = att[u]
    BY <2>1 DEF TypeOK
  <2>4. att[t].cog = "INTERACTING"  BY <1>0, <2>1 DEF CogAt
  <2>5. CogAt(t)'  BY <2>2, <2>3, <2>4 DEF CogAt, Unanswered
  <2> QED  BY <2>3, <2>5, CogStep
<1>7. CASE ClaimTeardown(t)
  <2> DEFINE c == MovedForTeardown(att[t])
             a == [att[t] EXCEPT !.released = TRUE, !.cog = c]
  <2>1. PICK l \in {"td_wait", "td_exec"} :
          /\ att' = [att EXCEPT ![t] = a] /\ pc' = [pc EXCEPT ![t] = l] /\ pc[t] = "teardown"
          /\ l = "td_exec" => ~att[t].released
    BY <1>7 DEF ClaimTeardown
  <2>2. /\ att[t].cog \in {"none", "MATERIALIZED", "READY", "INTERACTING"}
        /\ att[t].answered => att[t].cog = "INTERACTING"
    BY <1>0, <2>1 DEF CogAt
  <2>3. c # "REFUSED" /\ (att[t].answered /\ ~att[t].released => c = "TEARING_DOWN")
    BY <2>2, MachineMoves DEF MovedForTeardown
  <2> HIDE DEF c
  <2>4. a.cog = c /\ a.answered = att[t].answered  BY <1>0 DEF Attempts
  <2> HIDE DEF a
  <2>5. /\ pc'[t] = l /\ att'[t] = a
        /\ \A u \in Threads \ {t} : pc'[u] = pc[u] /\ att'[u] = att[u]
    BY <2>1 DEF TypeOK
  <2>6. CogAt(t)'
    BY <2>1, <2>3, <2>4, <2>5 DEF CogAt, TearingDown, Unanswered
  <2> QED  BY <2>5, <2>6, CogStep
<1>8. CASE TeardownWait(t)
  <2>1. PICK l \in {"td_exec", "stopped"} :
          /\ att' = att /\ pc' = [pc EXCEPT ![t] = l]
          /\ l = "td_exec" => att[t].cancelTeardown = "failed"
    BY <1>8 DEF TeardownWait
  <2>2. pc'[t] = l /\ \A u \in Threads \ {t} : pc'[u] = pc[u]  BY <2>1 DEF TypeOK
  <2>3. CogAt(t)'  BY <1>0, <2>1, <2>2 DEF CogAt, TearingDown, Unanswered
  <2> QED  BY <2>1, <2>2, <2>3, CogStep
<1>9. CASE Teardown(t)
  <2> DEFINE c == MovedByFailure(att[t])
             a == [att[t] EXCEPT !.teardownError = TRUE, !.cog = c]
  <2>1. /\ att' = att \/ att' = [att EXCEPT ![t] = a]
        /\ pc' = [pc EXCEPT ![t] = "stopped"] /\ pc[t] = "td_exec"
    BY <1>9 DEF Teardown
  <2>2. c # "REFUSED"
    <3>1. CASE TearingDown(att[t])
      <4>1. att[t].cog = "TEARING_DOWN"  BY <1>0, <2>1, <3>1 DEF CogAt
      <4> QED  BY <3>1, <4>1, MachineMoves DEF MovedByFailure
    <3>2. CASE ~TearingDown(att[t])  BY <1>0, <3>2 DEF CogAt, MovedByFailure
    <3> QED  BY <3>1, <3>2
  <2> HIDE DEF c
  <2>3. a.cog = c  BY <1>0 DEF Attempts
  <2> HIDE DEF a
  <2>4. /\ pc'[t] = "stopped" /\ att'[t] \in {att[t], a}
        /\ \A u \in Threads \ {t} : pc'[u] = pc[u] /\ att'[u] = att[u]
    BY <2>1 DEF TypeOK
  <2>5. att'[t].cog # "REFUSED"  BY <1>0, <2>2, <2>3, <2>4 DEF CogAt
  <2>6. CogAt(t)'  BY <2>4, <2>5 DEF CogAt, Unanswered
  <2> QED  BY <2>4, <2>6, CogStep
<1>10. CASE Stopped(t)
  <2>1. att' = att /\ pc' = [pc EXCEPT ![t] = "after"]  BY <1>10 DEF Stopped
  <2>2. "after" \in Labels \ Watched  BY <1>b DEF Watched, Unanswered
  <2> QED  BY <2>1, <2>2, AwayStep
<1> QED  BY <1>1, <1>2, <1>3, <1>4, <1>5, <1>6, <1>7, <1>8, <1>9, <1>10 DEF AttemptStep

LEMMA FailedWriteCog ==
  ASSUME TypeOK, CogInv, NEW t \in Threads, FailedWrite(t) PROVE CogInv'
<1> USE DEF At, Goto
<1>0. CogAt(t) /\ att[t] \in Attempts  BY DEF CogInv, TypeOK
<1>a. ASSUME NEW a, pc' = [pc EXCEPT ![t] = "teardown"], att' = [att EXCEPT ![t] = a],
             a.cog \in {"none", "MATERIALIZED", "READY", "INTERACTING"},
             a.answered => a.cog = "INTERACTING"
      PROVE  CogInv'
  <2>1. /\ pc'[t] = "teardown" /\ att'[t] = a
        /\ \A u \in Threads \ {t} : pc'[u] = pc[u] /\ att'[u] = att[u]
    BY <1>a DEF TypeOK
  <2>2. CogAt(t)'  BY <1>a, <2>1 DEF CogAt, Unanswered
  <2> QED  BY <2>1, <2>2, CogStep
<1>1. CASE WorkerWriteFails(t)
  <2>1. pc' = [pc EXCEPT ![t] = "teardown"]  BY <1>1 DEF WorkerWriteFails, WriteFailed
  <2>2. CASE pc[t] = "worker_up" /\ \E c \in {"none", "MATERIALIZED"} : att' = [att EXCEPT ![t].cog = c]
    <3>1. PICK c \in {"none", "MATERIALIZED"} : att' = [att EXCEPT ![t].cog = c]  BY <2>2
    <3> DEFINE a == [att[t] EXCEPT !.cog = c]
    <3>2. att' = [att EXCEPT ![t] = a]  BY <3>1
    <3>3. a.cog = c /\ a.answered = att[t].answered  BY <1>0 DEF Attempts
    <3>4. ~att[t].answered  BY <1>0, <2>2 DEF CogAt, Unanswered
    <3> HIDE DEF a
    <3> QED  BY <1>a, <2>1, <3>2, <3>3, <3>4
  <2>3. CASE pc[t] = "invoke" /\ att' = att
    <3>1. att' = [att EXCEPT ![t] = att[t]]  BY <2>3 DEF TypeOK
    <3>2. att[t].cog = "READY" /\ ~att[t].answered  BY <1>0, <2>3 DEF CogAt, Unanswered
    <3> QED  BY <1>a, <2>1, <3>1, <3>2
  <2> QED  BY <1>1, <2>2, <2>3 DEF WorkerWriteFails
<1>2. CASE ReadyWriteFails(t)
  <2> DEFINE a == [att[t] EXCEPT !.started = TRUE, !.cog = "MATERIALIZED"]
  <2>1. /\ pc' = [pc EXCEPT ![t] = "teardown"] /\ att' = [att EXCEPT ![t] = a]
        /\ pc[t] = "worker_up"
    BY <1>2 DEF ReadyWriteFails, WriteFailed
  <2>2. a.cog = "MATERIALIZED" /\ a.answered = att[t].answered  BY <1>0 DEF Attempts
  <2>3. ~att[t].answered  BY <1>0, <2>1 DEF CogAt, Unanswered
  <2> HIDE DEF a
  <2> QED  BY <1>a, <2>1, <2>2, <2>3
<1>3. CASE UsageWriteFails(t)
  <2> DEFINE a == [att[t] EXCEPT !.answered = att[t].answer \in {"ok", "error"}]
  <2>1. /\ pc' = [pc EXCEPT ![t] = "teardown"] /\ att' = [att EXCEPT ![t] = a]
        /\ pc[t] = "read_envelope"
    BY <1>3 DEF UsageWriteFails, WriteFailed
  <2>2. a.cog = att[t].cog /\ att[t].cog = "INTERACTING"  BY <1>0, <2>1 DEF CogAt, Attempts
  <2> HIDE DEF a
  <2> QED  BY <1>a, <2>1, <2>2
<1>4. CASE HandlerWriteFails(t)
  <2> DEFINE a == [att[t] EXCEPT !.outcome = "escaped"]
  <2>1. /\ pc' = [pc EXCEPT ![t] = "teardown"] /\ att' = [att EXCEPT ![t] = a]
        /\ pc[t] = "read_envelope"
    BY <1>4 DEF HandlerWriteFails, WriteFailed
  <2>2. a.cog = att[t].cog /\ att[t].cog = "INTERACTING"  BY <1>0, <2>1 DEF CogAt, Attempts
  <2> HIDE DEF a
  <2> QED  BY <1>a, <2>1, <2>2
<1>5. CASE DriverWriteFails(t)  BY <1>5, EndStepCog
<1> QED  BY <1>1, <1>2, <1>3, <1>4, <1>5 DEF FailedWrite

LEMMA NextCog ==
  ASSUME TypeOK, CogInv, [Next]_vars PROVE CogInv'
<1>1. ASSUME NEW t \in Threads, ThreadStep(t) \/ FailedWrite(t) \/ Begin(t) \/ StartHost(t) PROVE CogInv'
  BY <1>1, ClaimStepCog, EnterStepCog, DriverStepCog, AttemptStepCog, EndStepCog, FailedWriteCog
     DEF ThreadStep
<1>2. CASE ApiSubmit \/ DeadlinePasses \/ Boot \/ AtRest \/ UNCHANGED vars
  <2>1. UNCHANGED <<pc, att>>  BY <1>2 DEF ApiSubmit, DeadlinePasses, Boot, AtRest, vars
  <2> QED  BY <2>1, QuietStep DEF Quiet
<1>3. CASE Crash
  <2>1. pc' = [t \in Threads |-> "idle"] /\ att' = [t \in Threads |-> NewAttempt(NoKey)]
    BY <1>3 DEF Crash
  <2>2. NewAttempt(NoKey).cog = "none" /\ "idle" \notin Watched  BY DEF NewAttempt, Watched, Unanswered
  <2> QED  BY <2>1, <2>2, QuietStep DEF Quiet
<1> QED  BY <1>1, <1>2, <1>3 DEF Next

--------------------------------------------------------------------------
(***************************************************************************)
(* Theorems.                                                               *)
(***************************************************************************)

LEMMA SpecSyncInv == Spec => [](TypeInv /\ SyncInv)
<1>1. Init => TypeInv /\ SyncInv  BY InitTypeInv, InitSyncInv
<1>2. TypeInv /\ SyncInv /\ [Next]_vars => (TypeInv /\ SyncInv)'
  BY NextTypeInv, NextSync
<1> QED  BY <1>1, <1>2, PTL DEF Spec

\* A driver never works on a stale history: for any number of threads, calls,
\* restarts and failed writes, what its _Pass read when the call claimed the run,
\* plus its own writes, is the Track (runner._claim, _Pass.append).
THEOREM SnapshotsCurrent == Spec => []SnapshotCurrent
<1>1. SyncInv => SnapshotCurrent  BY DEF SyncInv, SyncAt, SnapshotCurrent
<1> QED  BY <1>1, SpecSyncInv, PTL

\* No call, race with the API's submission, restart or failed write leaves a
\* Track that Run.replay refuses.
THEOREM TrackStaysReadable == Spec => []TrackReadable
<1>1. SyncInv => TrackReadable  BY DEF SyncInv
<1> QED  BY <1>1, SpecSyncInv, PTL

\* For any number of threads, calls, restarts and failed writes, the driver moves
\* a worker only as its machine declares (states/worker.py): no InvalidTransition
\* interrupts a teardown.
THEOREM WorkersObey == Spec => []WorkerObeys
<1>1. Init => CogInv  BY InitCog
<1>2. TypeInv /\ CogInv /\ [Next]_vars => CogInv'  BY NextCog DEF TypeInv
<1>3. CogInv => WorkerObeys  BY DEF CogInv, CogAt, WorkerObeys
<1> QED  BY <1>1, <1>2, <1>3, SpecSyncInv, PTL DEF Spec

\* Together: for any number of threads, calls, restarts and failed writes, the
\* runner moves the run, and its workers, only as the two machines declare.
THEOREM MachinesAreObeyed == Spec => []MachinesObeyed
<1>1. TrackReadable /\ WorkerObeys => MachinesObeyed  BY DEF MachinesObeyed
<1> QED  BY <1>1, TrackStaysReadable, WorkersObey, PTL

\* The runner implements the abstract run: whatever its threads, restarts and
\* failures do, a reader of the run sees it submitted once, its steps complete in
\* order, complete only with all of them, and leave an end only by a retry.
THEOREM RunnerImplementsLifecycle == Spec => ImplementsLifecycle
<1>1. Init => Lifecycle!Init  BY EmptyTrackType DEF Init, Lifecycle!Init
<1>2. TypeInv /\ SyncInv /\ [Next]_vars => [Lifecycle!Next]_(Lifecycle!lifecycle)
  BY NextSync, FollowsLifecycle
<1> QED  BY <1>1, <1>2, SpecSyncInv, PTL DEF Spec, ImplementsLifecycle, Lifecycle!Spec

--------------------------------------------------------------------------
(***************************************************************************)
(* What the runner's records keep of a run, on the type and claim          *)
(* invariants above: Gates, approvals and revisions, the budget and the    *)
(* run tokens (DataInv), the workers (TakenInv, WorkerInv) and cancels     *)
(* (CancelInv), for every number of threads, steps, calls and restarts.    *)
(***************************************************************************)

--------------------------------------------------------------------------
(***************************************************************************)
(* A Track on which every Gate was honoured, and what each event does to   *)
(* the fields that tell.                                                   *)
(***************************************************************************)
\* The escalation a waiting run is open at is the step's latest.
OpenGate(T) ==
  T.state = "WAITING_AT_GATE" =>
    /\ T.open \in Keys /\ T.open[1] \notin T.done
    /\ T.shown[T.open[1]] = T.open /\ T.approved[T.open[1]] = NoKey
    /\ T.sentBack[T.open[1]] < T.esc[T.open[1]]

\* Approved results are the ones their steps complete with, and no other is.
Approvals(T) ==
  /\ \A s \in Steps : T.approved[s] # NoKey => T.approved[s] \in T.blessed
  /\ \A e \in T.blessed :
       IF e[1] \in T.done THEN T.from[e[1]] = e ELSE T.approved[e[1]] = e
  /\ \A s \in Steps : T.from[s] # NoKey => T.from[s] \in T.blessed
  /\ \A s \in T.done : GateOf[s] = "always" => T.from[s] \in T.blessed

\* The next attempt's number is past every result on record.
Counted(T) ==
  /\ \A s \in Steps : T.sentBack[s] <= T.esc[s]
  /\ RevisionsLimited => \A s \in Steps : T.sentBack[s] <= MaxRevisions
  /\ \A k \in T.raised : k[2] < Number(T, k[1])
  /\ \A k \in T.kept : k[1] \in T.done

OneToken(T) ==
  /\ T.state # "RUNNING" => T.tokens = {}
  /\ \A a, b \in T.tokens : a = b

TrackSound(T) == OpenGate(T) /\ Approvals(T) /\ Counted(T) /\ OneToken(T)

\* Two Tracks that agree on what the Gates, and on what the budget, have on record.
SameGates(T, U) ==
  /\ U.esc = T.esc /\ U.retries = T.retries /\ U.done = T.done
  /\ U.shown = T.shown /\ U.approved = T.approved /\ U.from = T.from
  /\ U.raised = T.raised /\ U.blessed = T.blessed
  /\ U.sentBack = T.sentBack /\ U.kept = T.kept

SameBooks(T, U) == U.spent = T.spent /\ U.unknown = T.unknown

LEMMA MoveFields ==
  ASSUME NEW T \in Tracks, NEW event, NEW target \in RunStates \cup {"UNREADABLE"}
  PROVE  LET U == Move(T, event, target)
         IN /\ U \in Tracks /\ SameGates(T, U) /\ SameBooks(T, U)
            /\ U.open = T.open /\ U.tokens = T.tokens
            /\ U.failed = T.failed /\ U.leaked = T.leaked
            /\ <<T.state, event, target>> \in Edges => U.state = target
<1> DEFINE t == IF <<T.state, event, target>> \in Edges THEN target ELSE "UNREADABLE"
           U == [T EXCEPT !.state = t]
<1>1. Move(T, event, target) = U  BY DEF Move
<1>2. U \in Tracks  BY <1>1, MoveType
<1>3. <<T.state, event, target>> \in Edges => t = target  OBVIOUS
<1> HIDE DEF t
<1>4. U.state = t  BY DEF Tracks
<1>5. SameGates(T, U)  BY DEF Tracks, SameGates
<1>6. /\ SameBooks(T, U) /\ U.open = T.open /\ U.tokens = T.tokens
      /\ U.failed = T.failed /\ U.leaked = T.leaked
  BY DEF Tracks, SameBooks
<1> HIDE DEF U
<1> QED  BY <1>1, <1>2, <1>3, <1>4, <1>5, <1>6

LEMMA NoTokensFields ==
  ASSUME NEW T \in Tracks
  PROVE  LET U == NoTokens(T)
         IN /\ U \in Tracks /\ SameGates(T, U) /\ SameBooks(T, U)
            /\ U.open = T.open /\ U.tokens = {} /\ U.state = T.state
            /\ U.failed = T.failed /\ U.leaked = T.leaked
<1> DEFINE U == [T EXCEPT !.tokens = {}]
<1>1. NoTokens(T) = U  BY DEF NoTokens
<1>2. U \in Tracks  BY <1>1, NoTokensType
<1>3. SameGates(T, U)  BY DEF Tracks, SameGates
<1>4. /\ SameBooks(T, U) /\ U.open = T.open /\ U.tokens = {} /\ U.state = T.state
      /\ U.failed = T.failed /\ U.leaked = T.leaked
  BY DEF Tracks, SameBooks
<1> HIDE DEF U
<1> QED  BY <1>1, <1>2, <1>3, <1>4

LEMMA OpSubmittedFields ==
  ASSUME NEW T \in Tracks
  PROVE  LET U == OpSubmitted(T)
         IN /\ SameGates(T, U) /\ SameBooks(T, U)
            /\ U.open = T.open /\ U.tokens = T.tokens
            /\ U.failed = T.failed /\ U.leaked = T.leaked
  BY DEF OpSubmitted, Tracks, SameGates, SameBooks

LEMMA RunPickedUpFields ==
  ASSUME NEW T \in Tracks
  PROVE  LET U == RunPickedUp(T)
         IN /\ SameGates(T, U) /\ SameBooks(T, U)
            /\ U.open = T.open /\ U.tokens = T.tokens
            /\ U.failed = T.failed /\ U.leaked = T.leaked
<1>1. "RUNNING" \in RunStates \cup {"UNREADABLE"}  BY DEF RunStates
<1> DEFINE M == Move(T, "pickup", "RUNNING")
<1>2. /\ SameGates(T, M) /\ SameBooks(T, M) /\ M.open = T.open /\ M.tokens = T.tokens
      /\ M.failed = T.failed /\ M.leaked = T.leaked
  BY <1>1, MoveFields
<1> QED  BY <1>2 DEF RunPickedUp

LEMMA EndFields ==
  ASSUME NEW T \in Tracks,
         NEW U \in {RunCompleted(T), RunFailed(T), BudgetStopped(T), RunInterrupted(T)}
  PROVE  /\ SameGates(T, U) /\ SameBooks(T, U)
         /\ U.open = T.open /\ U.tokens = {}
         /\ U.failed = T.failed /\ U.leaked = T.leaked
<1>1. \E event \in {"complete", "fail", "exhaust_budget", "host_stopped"} :
        \E target \in RunStates : U = NoTokens(Move(T, event, target))
  BY DEF RunCompleted, RunFailed, BudgetStopped, RunInterrupted, RunStates, Ended
<1>a. PICK event \in {"complete", "fail", "exhaust_budget", "host_stopped"}, target \in RunStates :
         U = NoTokens(Move(T, event, target))
  BY <1>1
<1> DEFINE M == Move(T, event, target)
<1>2. /\ M \in Tracks /\ SameGates(T, M) /\ SameBooks(T, M) /\ M.open = T.open
      /\ M.failed = T.failed /\ M.leaked = T.leaked
  BY MoveFields
<1>3. U = NoTokens(M)  BY <1>a
<1> HIDE DEF M
<1> QED  BY <1>2, <1>3, NoTokensFields DEF SameGates, SameBooks

LEMMA RunCancelledFields ==
  ASSUME NEW T \in Tracks
  PROVE  LET U == RunCancelled(T)
         IN /\ SameGates(T, U) /\ SameBooks(T, U) /\ U.tokens = {}
            /\ U.failed = T.failed /\ U.leaked = T.leaked
<1> DEFINE M == Move(T, "cancel", "CANCELLED")
           C == [M EXCEPT !.open = NoKey]
<1>1. M \in Tracks /\ SameGates(T, M) /\ SameBooks(T, M) /\ M.failed = T.failed /\ M.leaked = T.leaked
  BY ZenonT(60), MoveFields DEF RunStates, Ended
<1>2. RunCancelled(T) = NoTokens(C)  BY DEF RunCancelled
<1> HIDE DEF M
<1>3. C \in Tracks /\ SameGates(M, C) /\ SameBooks(M, C) /\ C.failed = M.failed /\ C.leaked = M.leaked
  BY <1>1 DEF Tracks, SameGates, SameBooks
<1> HIDE DEF C
<1> QED  BY <1>1, <1>2, <1>3, NoTokensFields DEF SameGates, SameBooks

LEMMA RetryRequestedFields ==
  ASSUME NEW T \in Tracks
  PROVE  LET U == RetryRequested(T)
         IN /\ U.esc = T.esc /\ U.done = T.done
            /\ U.shown = T.shown /\ U.approved = T.approved /\ U.from = T.from
            /\ U.raised = T.raised /\ U.blessed = T.blessed
            /\ U.sentBack = T.sentBack /\ U.kept = T.kept
            /\ U.retries \in Nat /\ U.retries >= T.retries
            /\ T.state = "FAILED" => U.retries = T.retries + 1
            /\ SameBooks(T, U) /\ U.tokens = T.tokens
            /\ U.failed = T.failed /\ U.leaked = T.leaked
<1> DEFINE M == Move(T, "retry", "RUNNING")
           n == IF T.state = "FAILED" THEN T.retries + 1 ELSE T.retries
<1>1. /\ M \in Tracks /\ SameGates(T, M) /\ SameBooks(T, M) /\ M.tokens = T.tokens
      /\ M.failed = T.failed /\ M.leaked = T.leaked
  BY ZenonT(60), MoveFields DEF RunStates
<1>2. RetryRequested(T) = [M EXCEPT !.retries = n]
  BY <1>1 DEF RetryRequested, SameGates
<1>3. n \in Nat /\ n >= T.retries /\ (T.state = "FAILED" => n = T.retries + 1)  BY DEF Tracks
<1> HIDE DEF M, n
<1>4. [M EXCEPT !.retries = n].retries = n  BY <1>1 DEF Tracks
<1>5. /\ [M EXCEPT !.retries = n].esc = M.esc /\ [M EXCEPT !.retries = n].done = M.done
      /\ [M EXCEPT !.retries = n].shown = M.shown /\ [M EXCEPT !.retries = n].approved = M.approved
      /\ [M EXCEPT !.retries = n].from = M.from /\ [M EXCEPT !.retries = n].raised = M.raised
      /\ [M EXCEPT !.retries = n].blessed = M.blessed /\ [M EXCEPT !.retries = n].sentBack = M.sentBack
      /\ [M EXCEPT !.retries = n].kept = M.kept /\ SameBooks(M, [M EXCEPT !.retries = n])
      /\ [M EXCEPT !.retries = n].tokens = M.tokens
      /\ [M EXCEPT !.retries = n].failed = M.failed /\ [M EXCEPT !.retries = n].leaked = M.leaked
  BY <1>1 DEF Tracks, SameBooks
<1> QED  BY <1>1, <1>2, <1>3, <1>4, <1>5 DEF SameGates, SameBooks

LEMMA UsageFields ==
  ASSUME NEW T \in Tracks, NEW known \in BOOLEAN, NEW amount \in Nat
  PROVE  LET U == InteractionUsage(T, known, amount)
         IN /\ SameGates(T, U) /\ U.open = T.open /\ U.tokens = T.tokens
            /\ U.failed = T.failed /\ U.leaked = T.leaked
            /\ known => U.spent = T.spent + amount /\ U.unknown = T.unknown
<1> DEFINE sum == IF known THEN T.spent + amount ELSE T.spent
           lost == T.unknown \/ ~known
           U == [T EXCEPT !.spent = sum, !.unknown = lost]
<1>1. InteractionUsage(T, known, amount) = U  BY DEF InteractionUsage
<1>2. sum \in Nat /\ (known => sum = T.spent + amount)  BY DEF Tracks
<1>3. lost \in BOOLEAN /\ (known => lost = T.unknown)  BY DEF Tracks
<1> HIDE DEF sum, lost
<1>4. SameGates(T, U) /\ U.open = T.open /\ U.tokens = T.tokens
      /\ U.failed = T.failed /\ U.leaked = T.leaked
  BY DEF Tracks, SameGates
<1>5. U.spent = sum /\ U.unknown = lost  BY ZenonT(60) DEF Tracks
<1> HIDE DEF U
<1> QED  BY <1>1, <1>2, <1>3, <1>4, <1>5

LEMMA WorkerFields ==
  ASSUME NEW T \in Tracks, NEW k
  PROVE  /\ LET U == WorkerStarted(T, k)
            IN /\ SameGates(T, U) /\ SameBooks(T, U) /\ U.open = T.open
               /\ U.tokens = T.tokens \cup {k}
               /\ U.failed = T.failed /\ U.leaked = T.leaked
         /\ LET U == WorkerStopped(T, k)
            IN /\ SameGates(T, U) /\ SameBooks(T, U) /\ U.open = T.open
               /\ U.tokens = T.tokens \ {k}
               /\ U.failed = T.failed /\ U.leaked = T.leaked
<1>1. LET U == WorkerStarted(T, k)
      IN /\ SameGates(T, U) /\ SameBooks(T, U) /\ U.open = T.open
         /\ U.tokens = T.tokens \cup {k}
         /\ U.failed = T.failed /\ U.leaked = T.leaked
  BY DEF WorkerStarted, Tracks, SameGates, SameBooks
<1>2. LET U == WorkerStopped(T, k)
      IN /\ SameGates(T, U) /\ SameBooks(T, U) /\ U.open = T.open
         /\ U.tokens = T.tokens \ {k}
         /\ U.failed = T.failed /\ U.leaked = T.leaked
  BY DEF WorkerStopped, Tracks, SameGates, SameBooks
<1> QED  BY <1>1, <1>2

LEMMA StepFailedFields ==
  ASSUME NEW T \in Tracks, NEW k \in Keys, NEW flag \in BOOLEAN
  PROVE  LET U == StepFailed(T, k, flag)
         IN /\ SameGates(T, U) /\ SameBooks(T, U) /\ U.open = T.open /\ U.tokens = T.tokens
            /\ U.leaked = IF flag THEN T.leaked \cup {k} ELSE T.leaked
  BY DEF StepFailed, Tracks, SameGates, SameBooks

\* The two per-step updates, pointwise.
LEMMA PutAt ==
  ASSUME NEW f \in [Steps -> KeysOrNone], NEW s \in Steps, NEW value
  PROVE  /\ Put(f, s, value)[s] = value
         /\ \A r \in Steps : r # s => Put(f, s, value)[r] = f[r]
  BY DEF Put

LEMMA BumpAt ==
  ASSUME NEW f \in [Steps -> Nat], NEW s \in Steps
  PROVE  /\ Bump(f, s)[s] = f[s] + 1
         /\ \A r \in Steps : r # s => Bump(f, s)[r] = f[r]
  BY DEF Bump

LEMMA PerStepFields ==
  ASSUME NEW T \in Tracks
  PROVE  /\ T.esc \in [Steps -> Nat] /\ T.sentBack \in [Steps -> Nat]
         /\ T.shown \in [Steps -> KeysOrNone] /\ T.approved \in [Steps -> KeysOrNone]
         /\ T.from \in [Steps -> KeysOrNone]
         /\ \A s \in Steps : /\ T.shown[s] # NoKey => T.shown[s][1] = s
                             /\ T.approved[s] # NoKey => T.approved[s][1] = s
         /\ T.retries \in Nat /\ T.done \subseteq Steps
         /\ T.raised \subseteq Keys /\ T.blessed \subseteq Keys /\ T.kept \subseteq Keys
         /\ T.tokens \subseteq Keys /\ T.leaked \subseteq Keys
  BY DEF Tracks, PerStep, KeysOrNone

LEMMA NoKeyIsNone ==
  ASSUME NEW k \in Keys PROVE k # NoKey /\ k[1] \in Steps /\ k[2] \in Nat
  BY NStepsAssumption DEF Keys, NoKey, Steps

LEMMA GateEscalatedFields ==
  ASSUME NEW T \in Tracks, NEW k \in Keys
  PROVE  LET U == GateEscalated(T, k)
         IN /\ U.open = k /\ U.raised = T.raised \cup {k} /\ U.esc = Bump(T.esc, k[1])
            /\ U.shown = Put(T.shown, k[1], k) /\ U.approved = Put(T.approved, k[1], NoKey)
            /\ U.retries = T.retries /\ U.done = T.done /\ U.from = T.from
            /\ U.blessed = T.blessed /\ U.sentBack = T.sentBack /\ U.kept = T.kept
            /\ U.tokens = T.tokens /\ U.leaked = T.leaked
<1> DEFINE M == Move(T, "escalate", "WAITING_AT_GATE")
           raised == T.raised \cup {k}
           counted == Bump(T.esc, k[1])
           latest  == Put(T.shown, k[1], k)
           pending == Put(T.approved, k[1], NoKey)
           U == [M EXCEPT !.open = k, !.raised = raised, !.esc = counted,
                          !.shown = latest, !.approved = pending]
<1>1. M \in Tracks /\ SameGates(T, M) /\ M.tokens = T.tokens /\ M.leaked = T.leaked
  <2>1. "WAITING_AT_GATE" \in RunStates \cup {"UNREADABLE"}  BY DEF RunStates
  <2> QED  BY <2>1, MoveFields
<1>2. GateEscalated(T, k) = U  BY <1>1 DEF GateEscalated, SameGates
<1> HIDE DEF M, raised, counted, latest, pending
<1>3. /\ U.open = k /\ U.raised = raised /\ U.esc = counted /\ U.shown = latest /\ U.approved = pending
  BY ZenonT(60), <1>1 DEF Tracks
<1>4. /\ U.retries = M.retries /\ U.done = M.done /\ U.from = M.from
      /\ U.blessed = M.blessed /\ U.sentBack = M.sentBack /\ U.kept = M.kept
      /\ U.tokens = M.tokens /\ U.leaked = M.leaked
  BY <1>1 DEF Tracks
<1> HIDE DEF U
<1> QED  BY <1>1, <1>2, <1>3, <1>4 DEF SameGates, raised, counted, latest, pending

LEMMA ApprovedFields ==
  ASSUME NEW T \in Tracks, NEW k \in Keys
  PROVE  LET U == Approved(T, k)
         IN /\ U.blessed = T.blessed \cup {k}
            /\ U.approved = Put(T.approved, k[1], T.shown[k[1]])
            /\ U.esc = T.esc /\ U.retries = T.retries /\ U.done = T.done /\ U.from = T.from
            /\ U.raised = T.raised /\ U.sentBack = T.sentBack /\ U.kept = T.kept
            /\ U.tokens = T.tokens /\ U.leaked = T.leaked
<1> DEFINE target == IF T.open = k THEN "RUNNING" ELSE "UNREADABLE"
           M == Move(T, "decide", target)
           blessed == T.blessed \cup {k}
           granted == Put(T.approved, k[1], T.shown[k[1]])
           U == [M EXCEPT !.open = NoKey, !.blessed = blessed, !.approved = granted]
<1>1. M \in Tracks /\ SameGates(T, M) /\ M.tokens = T.tokens /\ M.leaked = T.leaked
  <2>1. target \in RunStates \cup {"UNREADABLE"}  BY DEF RunStates
  <2> HIDE DEF target
  <2> QED  BY <2>1, MoveFields
<1>2. Approved(T, k) = U  BY <1>1 DEF Approved, SameGates
<1> HIDE DEF M, blessed, granted
<1>3. U.blessed = blessed /\ U.approved = granted  BY ZenonT(60), <1>1 DEF Tracks
<1>4. /\ U.esc = M.esc /\ U.retries = M.retries /\ U.done = M.done /\ U.from = M.from
      /\ U.raised = M.raised /\ U.sentBack = M.sentBack /\ U.kept = M.kept
      /\ U.tokens = M.tokens /\ U.leaked = M.leaked
  BY <1>1 DEF Tracks
<1> HIDE DEF U
<1> QED  BY <1>1, <1>2, <1>3, <1>4 DEF SameGates, blessed, granted

LEMMA SentBackFields ==
  ASSUME NEW T \in Tracks, NEW k \in Keys
  PROVE  LET U == SentBack(T, k)
         IN /\ U.approved = Put(T.approved, k[1], NoKey) /\ U.sentBack = Bump(T.sentBack, k[1])
            /\ U.esc = T.esc /\ U.retries = T.retries /\ U.done = T.done /\ U.from = T.from
            /\ U.raised = T.raised /\ U.blessed = T.blessed /\ U.kept = T.kept
            /\ U.tokens = T.tokens /\ U.leaked = T.leaked
<1> DEFINE target == IF T.open = k THEN "RUNNING" ELSE "UNREADABLE"
           M == Move(T, "decide", target)
           pending == Put(T.approved, k[1], NoKey)
           counted == Bump(T.sentBack, k[1])
           U == [M EXCEPT !.open = NoKey, !.approved = pending, !.sentBack = counted]
<1>1. M \in Tracks /\ SameGates(T, M) /\ M.tokens = T.tokens /\ M.leaked = T.leaked
  <2>1. target \in RunStates \cup {"UNREADABLE"}  BY DEF RunStates
  <2> HIDE DEF target
  <2> QED  BY <2>1, MoveFields
<1>2. SentBack(T, k) = U  BY <1>1 DEF SentBack, SameGates
<1> HIDE DEF M, pending, counted
<1>3. U.approved = pending /\ U.sentBack = counted  BY ZenonT(60), <1>1 DEF Tracks
<1>4. /\ U.esc = M.esc /\ U.retries = M.retries /\ U.done = M.done /\ U.from = M.from
      /\ U.raised = M.raised /\ U.blessed = M.blessed /\ U.kept = M.kept
      /\ U.tokens = M.tokens /\ U.leaked = M.leaked
  BY <1>1 DEF Tracks
<1> HIDE DEF U
<1> QED  BY <1>1, <1>2, <1>3, <1>4 DEF SameGates, pending, counted

LEMMA RejectedFields ==
  ASSUME NEW T \in Tracks, NEW k \in Keys
  PROVE  LET U == Rejected(T, k)
         IN /\ U.approved = Put(T.approved, k[1], NoKey)
            /\ U.esc = T.esc /\ U.retries = T.retries /\ U.done = T.done /\ U.from = T.from
            /\ U.raised = T.raised /\ U.blessed = T.blessed /\ U.sentBack = T.sentBack
            /\ U.kept = T.kept /\ U.tokens = T.tokens /\ U.leaked = T.leaked
<1> DEFINE target == IF T.open = k THEN "REJECTED" ELSE "UNREADABLE"
           M == Move(T, "decide", target)
           pending == Put(T.approved, k[1], NoKey)
           U == [M EXCEPT !.open = NoKey, !.approved = pending]
<1>1. M \in Tracks /\ SameGates(T, M) /\ M.tokens = T.tokens /\ M.leaked = T.leaked
  <2>1. target \in RunStates \cup {"UNREADABLE"}  BY DEF RunStates, Ended
  <2> HIDE DEF target
  <2> QED  BY <2>1, MoveFields
<1>2. Rejected(T, k) = U  BY <1>1 DEF Rejected, SameGates
<1> HIDE DEF M, pending
<1>3. /\ U.approved = pending
      /\ U.esc = M.esc /\ U.retries = M.retries /\ U.done = M.done /\ U.from = M.from
      /\ U.raised = M.raised /\ U.blessed = M.blessed /\ U.sentBack = M.sentBack
      /\ U.kept = M.kept /\ U.tokens = M.tokens /\ U.leaked = M.leaked
  BY <1>1 DEF Tracks
<1> HIDE DEF U
<1> QED  BY <1>1, <1>2, <1>3 DEF SameGates, pending

LEMMA RevisionsExhaustedFields ==
  ASSUME NEW T \in Tracks, NEW k \in Keys
  PROVE  LET U == RevisionsExhausted(T, k)
         IN SameGates(T, U) /\ U.tokens = {} /\ U.leaked = T.leaked
<1> DEFINE target == IF T.open = k THEN "FAILED" ELSE "UNREADABLE"
           M == Move(T, "decide", target)
           C == [M EXCEPT !.open = NoKey]
<1>1. M \in Tracks /\ SameGates(T, M) /\ M.leaked = T.leaked
  <2>1. target \in RunStates \cup {"UNREADABLE"}  BY DEF RunStates, Ended
  <2> HIDE DEF target
  <2> QED  BY <2>1, MoveFields
<1>2. RevisionsExhausted(T, k) = NoTokens(C)  BY DEF RevisionsExhausted
<1> HIDE DEF M
<1>3. C \in Tracks /\ SameGates(M, C) /\ C.leaked = M.leaked  BY <1>1 DEF Tracks, SameGates
<1> HIDE DEF C
<1> QED  BY <1>1, <1>2, <1>3, NoTokensFields DEF SameGates

LEMMA StepCompletedFields ==
  ASSUME NEW T \in Tracks, NEW k \in Keys, NEW e
  PROVE  LET U == StepCompleted(T, k, e)
         IN /\ U.done = T.done \cup {k[1]} /\ U.approved = Put(T.approved, k[1], NoKey)
            /\ U.from = Put(T.from, k[1], e) /\ U.kept = T.kept \cup {k}
            /\ U.state = T.state /\ U.open = T.open /\ U.esc = T.esc /\ U.retries = T.retries
            /\ U.shown = T.shown /\ U.raised = T.raised /\ U.blessed = T.blessed
            /\ U.sentBack = T.sentBack /\ U.tokens = T.tokens /\ SameBooks(T, U)
            /\ U.leaked = T.leaked
<1> DEFINE done == T.done \cup {k[1]}
           kept == T.kept \cup {k}
           from == Put(T.from, k[1], e)
           pending == Put(T.approved, k[1], NoKey)
           U == [T EXCEPT !.done = done, !.approved = pending, !.from = from, !.kept = kept]
<1>1. StepCompleted(T, k, e) = U  BY DEF StepCompleted
<1> HIDE DEF done, kept, from, pending
<1>2. U.done = done /\ U.approved = pending /\ U.from = from /\ U.kept = kept
  BY ZenonT(60) DEF Tracks
<1>3. /\ U.state = T.state /\ U.open = T.open /\ U.esc = T.esc /\ U.retries = T.retries
      /\ U.shown = T.shown /\ U.raised = T.raised /\ U.blessed = T.blessed
      /\ U.sentBack = T.sentBack /\ U.tokens = T.tokens /\ U.leaked = T.leaked
  BY DEF Tracks
<1>4. SameBooks(T, U)  BY DEF Tracks, SameBooks
<1> HIDE DEF U
<1> QED  BY <1>1, <1>2, <1>3, <1>4 DEF done, kept, from, pending

--------------------------------------------------------------------------
(***************************************************************************)
(* Each event, written where its writer writes it, keeps a sound Track     *)
(* sound.                                                                  *)
(***************************************************************************)
LEMMA EmptySound == TrackSound(EmptyTrack)
<1>1. /\ EmptyTrack.state = "NONE" /\ EmptyTrack.done = {} /\ EmptyTrack.blessed = {}
      /\ EmptyTrack.raised = {} /\ EmptyTrack.kept = {} /\ EmptyTrack.tokens = {}
      /\ EmptyTrack.approved = [s \in Steps |-> NoKey] /\ EmptyTrack.from = [s \in Steps |-> NoKey]
      /\ EmptyTrack.sentBack = [s \in Steps |-> 0] /\ EmptyTrack.esc = [s \in Steps |-> 0]
  BY DEF EmptyTrack
<1>2. OpenGate(EmptyTrack) /\ OneToken(EmptyTrack)  BY <1>1 DEF OpenGate, OneToken
<1>3. Approvals(EmptyTrack)  BY <1>1 DEF Approvals
<1>4. Counted(EmptyTrack)  BY <1>1, LimitsAssumption DEF Counted
<1> QED  BY <1>2, <1>3, <1>4 DEF TrackSound

\* An event that decides nothing.
LEMMA GatesUntouched ==
  ASSUME NEW T \in Tracks, TrackSound(T), NEW U, SameGates(T, U), OneToken(U),
         U.state = "WAITING_AT_GATE" => T.state = "WAITING_AT_GATE" /\ U.open = T.open
  PROVE  TrackSound(U)
<1>1. OpenGate(U)  BY DEF TrackSound, OpenGate, SameGates
<1>2. Approvals(U)  BY DEF TrackSound, Approvals, SameGates
<1>3. Counted(U)  BY DEF TrackSound, Counted, SameGates, Number
<1> QED  BY <1>1, <1>2, <1>3 DEF TrackSound

LEMMA RetrySound ==
  ASSUME NEW T \in Tracks, TrackSound(T), T.state \in {"FAILED", "INTERRUPTED"}
  PROVE  TrackSound(RetryRequested(T)) /\ RetryRequested(T).tokens = {}
<1> DEFINE U == RetryRequested(T)
<1>1. /\ U.esc = T.esc /\ U.done = T.done
      /\ U.shown = T.shown /\ U.approved = T.approved /\ U.from = T.from
      /\ U.raised = T.raised /\ U.blessed = T.blessed
      /\ U.sentBack = T.sentBack /\ U.kept = T.kept
      /\ U.retries \in Nat /\ U.retries >= T.retries /\ U.tokens = T.tokens
      /\ U.state = "RUNNING"
  BY RetryRequestedFields, RetryRequestedType
<1> HIDE DEF U
<1>2. U.tokens = {}  BY <1>1 DEF TrackSound, OneToken
<1>3. OpenGate(U) /\ OneToken(U)  BY <1>1, <1>2 DEF OpenGate, OneToken
<1>4. Approvals(U)  BY <1>1 DEF TrackSound, Approvals
<1>5. Counted(U)
  <2>1. ASSUME NEW k \in T.raised PROVE k[2] < Number(U, k[1])
    <3>1. k[2] < Number(T, k[1]) /\ k[1] \in Steps /\ k[2] \in Nat
      BY PerStepFields, NoKeyIsNone DEF TrackSound, Counted
    <3>2. T.esc[k[1]] \in Nat /\ T.retries \in Nat  BY <3>1, PerStepFields
    <3> QED  BY <1>1, <3>1, <3>2 DEF Number
  <2> QED  BY <1>1, <2>1 DEF TrackSound, Counted
<1> QED  BY <1>2, <1>3, <1>4, <1>5 DEF TrackSound, U

\* The escalation of the step that is next, with no approval outstanding, under
\* the number the escalations and retries give it.
LEMMA EscalateSound ==
  ASSUME NEW T \in Tracks, TrackSound(T), NEW k \in Keys, T.state = "RUNNING",
         k[1] \notin T.done, T.approved[k[1]] = NoKey, k[2] = Number(T, k[1]), T.tokens = {}
  PROVE  TrackSound(GateEscalated(T, k))
<1> DEFINE U == GateEscalated(T, k)
           s == k[1]
<1>0. k # NoKey /\ s \in Steps /\ k[2] \in Nat  BY NoKeyIsNone
<1>1. /\ U.open = k /\ U.raised = T.raised \cup {k} /\ U.esc = Bump(T.esc, s)
      /\ U.shown = Put(T.shown, s, k) /\ U.approved = Put(T.approved, s, NoKey)
      /\ U.retries = T.retries /\ U.done = T.done /\ U.from = T.from
      /\ U.blessed = T.blessed /\ U.sentBack = T.sentBack /\ U.kept = T.kept
      /\ U.tokens = T.tokens
  BY GateEscalatedFields
<1> HIDE DEF U
<1>2. /\ U.esc[s] = T.esc[s] + 1 /\ \A r \in Steps : r # s => U.esc[r] = T.esc[r]
      /\ U.shown[s] = k
      /\ \A r \in Steps : U.approved[r] = T.approved[r]
  BY <1>0, <1>1, PerStepFields, PutAt, BumpAt
<1>3. /\ T.retries \in Nat /\ \A r \in Steps : T.esc[r] \in Nat /\ T.sentBack[r] \in Nat
      /\ T.blessed \subseteq Keys
  BY PerStepFields
<1>4. OpenGate(U)
  <2>1. T.sentBack[s] <= T.esc[s]  BY <1>0 DEF TrackSound, Counted
  <2>2. U.sentBack[s] < U.esc[s]  BY <1>0, <1>1, <1>2, <1>3, <2>1
  <2> QED  BY <1>0, <1>1, <1>2, <2>2 DEF OpenGate
<1>5. Approvals(U)
  <2>1. \A e \in T.blessed : e[1] \in Steps  BY <1>3, NoKeyIsNone
  <2> QED  BY <1>1, <1>2, <2>1 DEF TrackSound, Approvals
<1>6. Counted(U)
  <2>1. ASSUME NEW j \in T.raised \cup {k} PROVE j[2] < Number(U, j[1])
    <3>1. j[1] \in Steps /\ j[2] \in Nat
      BY <1>0, PerStepFields, NoKeyIsNone
    <3>2. j[2] < Number(T, j[1]) \/ (j[2] = Number(T, j[1]) /\ j[1] = s)
      BY DEF TrackSound, Counted
    <3>3. T.esc[j[1]] \in Nat /\ (U.esc[j[1]] = T.esc[j[1]] + 1 \/ (j[1] # s /\ U.esc[j[1]] = T.esc[j[1]]))
      BY <1>2, <1>3, <3>1
    <3> QED  BY <1>1, <1>3, <3>1, <3>2, <3>3 DEF Number
  <2>2. ASSUME NEW r \in Steps PROVE U.sentBack[r] <= U.esc[r]
    <3>1. T.sentBack[r] <= T.esc[r] /\ T.esc[r] \in Nat /\ T.sentBack[r] \in Nat
      BY <1>3 DEF TrackSound, Counted
    <3> QED  BY <1>1, <1>2, <3>1
  <2> QED  BY <1>1, <2>1, <2>2 DEF TrackSound, Counted
<1>7. OneToken(U)  BY <1>1 DEF OneToken
<1> QED  BY <1>4, <1>5, <1>6, <1>7 DEF TrackSound, U

\* The three answers to the open escalation, and the one past the limit.
LEMMA ApproveSound ==
  ASSUME NEW T \in Tracks, TrackSound(T), NEW k \in Keys,
         T.state = "WAITING_AT_GATE", T.open = k
  PROVE  TrackSound(Approved(T, k)) /\ Approved(T, k).tokens = {}
<1> DEFINE U == Approved(T, k)
           s == k[1]
<1>0. k # NoKey /\ s \in Steps  BY NoKeyIsNone
<1>a. /\ s \notin T.done /\ T.shown[s] = k /\ T.approved[s] = NoKey /\ T.tokens = {}
  BY DEF TrackSound, OpenGate, OneToken
<1>1. /\ U.blessed = T.blessed \cup {k} /\ U.approved = Put(T.approved, s, k)
      /\ U.esc = T.esc /\ U.retries = T.retries /\ U.done = T.done /\ U.from = T.from
      /\ U.raised = T.raised /\ U.sentBack = T.sentBack /\ U.kept = T.kept
      /\ U.tokens = T.tokens /\ U.state = "RUNNING"
  BY <1>a, ApprovedFields, ApprovedType
<1> HIDE DEF U
<1>2. U.approved[s] = k /\ \A r \in Steps : r # s => U.approved[r] = T.approved[r]
  BY <1>0, <1>1, PerStepFields, PutAt
<1>3. OpenGate(U) /\ OneToken(U)  BY <1>1, <1>a DEF OpenGate, OneToken
<1>4. Approvals(U)
  <2>1. ASSUME NEW e \in T.blessed PROVE e[1] \in Steps /\ e[1] # s
    <3>1. e \in Keys /\ e # NoKey /\ e[1] \in Steps  BY PerStepFields, NoKeyIsNone
    <3>2. e[1] \notin T.done => T.approved[e[1]] = e  BY DEF TrackSound, Approvals
    <3> QED  BY <1>a, <3>1, <3>2
  <2>2. \A e \in U.blessed :
          IF e[1] \in U.done THEN U.from[e[1]] = e ELSE U.approved[e[1]] = e
    BY <1>1, <1>2, <1>a, <2>1 DEF TrackSound, Approvals
  <2>3. \A r \in Steps : U.approved[r] # NoKey => U.approved[r] \in U.blessed
    BY <1>1, <1>2 DEF TrackSound, Approvals
  <2> QED  BY <1>1, <2>2, <2>3 DEF TrackSound, Approvals
<1>5. Counted(U)  BY <1>1 DEF TrackSound, Counted, Number
<1> QED  BY <1>1, <1>a, <1>3, <1>4, <1>5 DEF TrackSound, U

LEMMA SendBackSound ==
  ASSUME NEW T \in Tracks, TrackSound(T), NEW k \in Keys,
         T.state = "WAITING_AT_GATE", T.open = k, ~PastRevisions(T, k)
  PROVE  TrackSound(SentBack(T, k)) /\ SentBack(T, k).tokens = {}
<1> DEFINE U == SentBack(T, k)
           s == k[1]
<1>0. k # NoKey /\ s \in Steps  BY NoKeyIsNone
<1>a. /\ s \notin T.done /\ T.approved[s] = NoKey /\ T.tokens = {} /\ T.sentBack[s] < T.esc[s]
  BY DEF TrackSound, OpenGate, OneToken
<1>1. /\ U.approved = Put(T.approved, s, NoKey) /\ U.sentBack = Bump(T.sentBack, s)
      /\ U.esc = T.esc /\ U.retries = T.retries /\ U.done = T.done /\ U.from = T.from
      /\ U.raised = T.raised /\ U.blessed = T.blessed /\ U.kept = T.kept
      /\ U.tokens = T.tokens /\ U.state = "RUNNING"
  BY SentBackFields, SentBackType
<1> HIDE DEF U
<1>2. /\ \A r \in Steps : U.approved[r] = T.approved[r]
      /\ U.sentBack[s] = T.sentBack[s] + 1 /\ \A r \in Steps : r # s => U.sentBack[r] = T.sentBack[r]
  BY <1>0, <1>1, <1>a, PerStepFields, PutAt, BumpAt
<1>3. OpenGate(U) /\ OneToken(U)  BY <1>1, <1>a DEF OpenGate, OneToken
<1>4. Approvals(U)
  <2>1. \A e \in T.blessed : e[1] \in Steps  BY PerStepFields, NoKeyIsNone
  <2> QED  BY <1>1, <1>2, <2>1 DEF TrackSound, Approvals
<1>5. Counted(U)
  <2>1. ASSUME NEW r \in Steps
        PROVE  U.sentBack[r] <= U.esc[r] /\ (RevisionsLimited => U.sentBack[r] <= MaxRevisions)
    <3>1. /\ T.sentBack[r] <= T.esc[r] /\ T.esc[r] \in Nat /\ T.sentBack[r] \in Nat
          /\ RevisionsLimited => T.sentBack[r] <= MaxRevisions
      BY PerStepFields DEF TrackSound, Counted
    <3>2. CASE r # s  BY <1>1, <1>2, <3>1, <3>2
    <3>3. CASE r = s
      <4>1. RevisionsLimited => ~(T.esc[s] > MaxRevisions)  BY DEF PastRevisions
      <4> QED  BY <1>1, <1>2, <1>a, <3>1, <3>3, <4>1, LimitsAssumption
    <3> QED  BY <3>2, <3>3
  <2> QED  BY <1>1, <2>1 DEF TrackSound, Counted, Number
<1> QED  BY <1>1, <1>a, <1>3, <1>4, <1>5 DEF TrackSound, U

LEMMA RejectSound ==
  ASSUME NEW T \in Tracks, TrackSound(T), NEW k \in Keys,
         T.state = "WAITING_AT_GATE", T.open = k
  PROVE  TrackSound(Rejected(T, k))
<1> DEFINE U == Rejected(T, k)
           s == k[1]
<1>0. k # NoKey /\ s \in Steps  BY NoKeyIsNone
<1>a. /\ s \notin T.done /\ T.approved[s] = NoKey /\ T.tokens = {}
  BY DEF TrackSound, OpenGate, OneToken
<1>1. /\ U.approved = Put(T.approved, s, NoKey)
      /\ U.esc = T.esc /\ U.retries = T.retries /\ U.done = T.done /\ U.from = T.from
      /\ U.raised = T.raised /\ U.blessed = T.blessed /\ U.sentBack = T.sentBack /\ U.kept = T.kept
      /\ U.tokens = T.tokens /\ U.state = "REJECTED"
  BY RejectedFields, RejectedType
<1> HIDE DEF U
<1>2. \A r \in Steps : U.approved[r] = T.approved[r]
  BY <1>0, <1>1, <1>a, PerStepFields, PutAt
<1>3. OpenGate(U) /\ OneToken(U)  BY <1>1, <1>a DEF OpenGate, OneToken
<1>4. Approvals(U)
  <2>1. \A e \in T.blessed : e[1] \in Steps  BY PerStepFields, NoKeyIsNone
  <2> QED  BY <1>1, <1>2, <2>1 DEF TrackSound, Approvals
<1>5. Counted(U)  BY <1>1 DEF TrackSound, Counted, Number
<1> QED  BY <1>3, <1>4, <1>5 DEF TrackSound, U

LEMMA ExhaustSound ==
  ASSUME NEW T \in Tracks, TrackSound(T), NEW k \in Keys,
         T.state = "WAITING_AT_GATE", T.open = k
  PROVE  TrackSound(RevisionsExhausted(T, k))
<1> DEFINE U == RevisionsExhausted(T, k)
<1>1. SameGates(T, U) /\ U.tokens = {} /\ U.state = "FAILED"
  BY RevisionsExhaustedFields, RevisionsExhaustedType
<1> HIDE DEF U
<1>2. OneToken(U)  BY <1>1 DEF OneToken
<1>3. TrackSound(U)  BY <1>1, <1>2, GatesUntouched
<1> QED  BY <1>3 DEF U

\* A result kept: one its Gate let pass, or one that was approved.
LEMMA KeepSound ==
  ASSUME NEW T \in Tracks, TrackSound(T), NEW k \in Keys, NEW e, T.state = "RUNNING",
         k[1] \notin T.done,
         \/ e = NoKey /\ T.approved[k[1]] = NoKey /\ GateOf[k[1]] # "always"
         \/ e = k /\ T.approved[k[1]] = k
  PROVE  TrackSound(StepCompleted(T, k, e))
<1> DEFINE U == StepCompleted(T, k, e)
           s == k[1]
<1>0. k # NoKey /\ s \in Steps  BY NoKeyIsNone
<1>1. /\ U.done = T.done \cup {s} /\ U.approved = Put(T.approved, s, NoKey)
      /\ U.from = Put(T.from, s, e) /\ U.kept = T.kept \cup {k}
      /\ U.state = T.state /\ U.esc = T.esc /\ U.retries = T.retries
      /\ U.raised = T.raised /\ U.blessed = T.blessed
      /\ U.sentBack = T.sentBack /\ U.tokens = T.tokens
  BY StepCompletedFields
<1> HIDE DEF U
<1>2. /\ U.approved[s] = NoKey /\ \A r \in Steps : r # s => U.approved[r] = T.approved[r]
      /\ U.from[s] = e /\ \A r \in Steps : r # s => U.from[r] = T.from[r]
  BY <1>0, <1>1, PerStepFields, PutAt
<1>3. OpenGate(U) /\ OneToken(U)  BY <1>1 DEF OpenGate, OneToken, TrackSound
<1>4. Approvals(U)
  <2>1. e # NoKey => e \in T.blessed  BY <1>0 DEF TrackSound, Approvals
  <2>2. ASSUME NEW b \in T.blessed
        PROVE  IF b[1] \in U.done THEN U.from[b[1]] = b ELSE U.approved[b[1]] = b
    <3>1. b # NoKey /\ b[1] \in Steps  BY PerStepFields, NoKeyIsNone
    <3>2. IF b[1] \in T.done THEN T.from[b[1]] = b ELSE T.approved[b[1]] = b
      BY DEF TrackSound, Approvals
    <3>3. CASE b[1] # s  BY <1>1, <1>2, <3>1, <3>2, <3>3
    <3>4. CASE b[1] = s  BY <1>1, <1>2, <3>1, <3>2, <3>4
    <3> QED  BY <3>3, <3>4
  <2>3. \A r \in Steps : U.approved[r] # NoKey => U.approved[r] \in U.blessed
    BY <1>1, <1>2 DEF TrackSound, Approvals
  <2>4. \A r \in Steps : U.from[r] # NoKey => U.from[r] \in U.blessed
    BY <1>1, <1>2, <2>1 DEF TrackSound, Approvals
  <2>5. ASSUME NEW r \in U.done, GateOf[r] = "always" PROVE U.from[r] \in U.blessed
    <3>1. r \in Steps  BY <1>0, <1>1, PerStepFields
    <3>2. CASE r = s  BY <1>0, <1>1, <1>2, <2>1, <2>5, <3>2
    <3>3. CASE r # s  BY <1>1, <1>2, <2>5, <3>1, <3>3 DEF TrackSound, Approvals
    <3> QED  BY <3>2, <3>3
  <2> QED  BY <1>1, <2>2, <2>3, <2>4, <2>5 DEF Approvals
<1>5. Counted(U)  BY <1>1 DEF TrackSound, Counted, Number
<1> QED  BY <1>3, <1>4, <1>5 DEF TrackSound, U

--------------------------------------------------------------------------
(***************************************************************************)
(* What the driver knows of its attempt, of the run tokens and of the      *)
(* budget, where it is.                                                    *)
(***************************************************************************)
Trying(t) == pc[t] \in Attempting \/ (pc[t] = "finish" /\ pass[t].end = "escalate")

GateAt(t) ==
  /\ Trying(t) => /\ trk.approved[att[t].key[1]] = NoKey
                  /\ att[t].key[2] = Number(trk, att[t].key[1])
  /\ pc[t] = "keep" => GateOf[att[t].key[1]] # "always"

\* Where no worker of the driver's has a run token.
Tokenless == {"open", "pickup", "loop", "attempt", "materialize", "worker_up",
              "keep", "keep_approved"}

TokenAt(t) ==
  /\ pc[t] \in Tokenless => trk.tokens = {}
  /\ pc[t] \in Driving => trk.tokens \subseteq {att[t].key}
  /\ pc[t] \in Driving \ {"after", "finish", "finish_second"} /\ ~att[t].started => trk.tokens = {}
  /\ pc[t] = "after" /\ ~att[t].teardownError => trk.tokens = {}
  /\ pc[t] = "finish" /\ pass[t].end = "escalate" => trk.tokens = {}

Clearing == {"teardown", "td_wait", "td_exec", "stopped", "after"}

BudgetAt(t) ==
  /\ pc[t] \in {"loop", "keep", "keep_approved"} \cup Unanswered =>
       pass[t].tally = trk.spent /\ ~trk.unknown
  /\ pc[t] \in Unanswered => pass[t].tally < TokenLimit /\ att[t].outcome # "ok"
  /\ pc[t] \in Clearing /\ att[t].outcome = "ok" =>
       /\ ~trk.unknown /\ att[t].known
       /\ trk.spent = pass[t].tally + att[t].amount

DriverAt(t) == GateAt(t) /\ TokenAt(t) /\ (Budgeted => BudgetAt(t))

DataInv == TrackSound(trk) /\ \A t \in Threads : DriverAt(t)

LEMMA DrivingPlaces ==
  /\ Attempting \subseteq Driving /\ Tokenless \subseteq Driving
  /\ Unanswered \subseteq Driving /\ Clearing \subseteq Driving
  /\ {"loop", "keep", "keep_approved", "after", "finish"} \subseteq Driving
  BY DEF Attempting, Tokenless, Unanswered, Clearing, Driving

LEMMA AwayData ==
  ASSUME NEW u \in Threads, pc'[u] \notin Driving PROVE DriverAt(u)'
  BY DrivingPlaces DEF DriverAt, GateAt, Trying, TokenAt, BudgetAt

LEMMA InitData == Init => DataInv
<1> SUFFICES ASSUME Init PROVE DataInv  OBVIOUS
<1>1. \A t \in Threads : pc[t] \notin Driving  BY DEF Init, Driving
<1>2. \A t \in Threads : DriverAt(t)
  BY <1>1, DrivingPlaces DEF DriverAt, GateAt, Trying, TokenAt, BudgetAt
<1> QED  BY <1>2, EmptySound DEF DataInv, Init

\* The holder's own step.
LEMMA HolderData ==
  ASSUME SyncInv, NEW t \in Threads, pc[t] \in Holding,
         \A u \in Threads \ {t} : pc'[u] = pc[u],
         TrackSound(trk'), DriverAt(t)'
  PROVE  DataInv'
<1>1. ASSUME NEW u \in Threads \ {t} PROVE DriverAt(u)'
  <2>1. claim = t /\ pc[u] \notin Holding  BY DEF SyncInv, SyncAt
  <2>2. pc'[u] \notin Driving  BY <2>1, Places
  <2> QED  BY <2>2, AwayData
<1> QED  BY <1>1 DEF DataInv

\* A step that leaves the Track, and the drivers' knowledge of it, alone.
SameAttempt(u) ==
  /\ att'[u].key = att[u].key /\ att'[u].started = att[u].started
  /\ att'[u].teardownError = att[u].teardownError /\ att'[u].outcome = att[u].outcome
  /\ att'[u].known = att[u].known /\ att'[u].amount = att[u].amount

LEMMA BystanderData ==
  ASSUME DataInv, UNCHANGED trk,
         \A u \in Threads : \/ pc'[u] \notin Driving
                            \/ pc'[u] = pc[u] /\ pass'[u] = pass[u] /\ SameAttempt(u)
  PROVE  DataInv'
<1>1. ASSUME NEW u \in Threads PROVE DriverAt(u)'
  <2>1. CASE pc'[u] \notin Driving  BY <2>1, AwayData
  <2>2. CASE pc'[u] = pc[u] /\ pass'[u] = pass[u] /\ SameAttempt(u)
    <3>1. DriverAt(u)  BY DEF DataInv
    <3>2. GateAt(u)'  BY <2>2, <3>1 DEF DriverAt, GateAt, Trying, SameAttempt, Number
    <3>3. TokenAt(u)'  BY <2>2, <3>1 DEF DriverAt, TokenAt, SameAttempt
    <3>4. Budgeted => BudgetAt(u)'  BY <2>2, <3>1 DEF DriverAt, BudgetAt, SameAttempt
    <3> QED  BY <3>2, <3>3, <3>4 DEF DriverAt
  <2> QED  BY <2>1, <2>2
<1> QED  BY <1>1 DEF DataInv

\* On its way out.
LEMMA LeavingData ==
  ASSUME SyncInv, NEW t \in Threads, pc[t] \in Holding, pc'[t] \notin Driving,
         \A u \in Threads \ {t} : pc'[u] = pc[u], TrackSound(trk')
  PROVE  DataInv'
  BY AwayData, HolderData

\* On its way to write an end that is no escalation, or its second record.
LEMMA FinishingData ==
  ASSUME SyncInv, DataInv, NEW t \in Threads, pc[t] \in Driving,
         pc'[t] = "finish_second" \/ (pc'[t] = "finish" /\ pass'[t].end # "escalate"),
         \A u \in Threads \ {t} : pc'[u] = pc[u], att'[t].key = att[t].key,
         TrackSound(trk'), trk'.tokens \subseteq trk.tokens
  PROVE  DataInv'
<1>1. trk.tokens \subseteq {att[t].key} /\ pc[t] \in Holding
  BY Places DEF DataInv, DriverAt, TokenAt
<1>2. GateAt(t)'  BY DEF GateAt, Trying, Attempting
<1>3. TokenAt(t)'  BY <1>1 DEF TokenAt, Tokenless
<1>4. BudgetAt(t)'  BY DEF BudgetAt, Unanswered, Clearing
<1> QED  BY <1>1, <1>2, <1>3, <1>4, HolderData DEF DriverAt

\* Within the attempt.
LEMMA AttemptData ==
  ASSUME TypeInv, SyncInv, DataInv, NEW t \in Threads,
         pc[t] \in Attempting, pc'[t] \in Attempting \ {"keep"},
         \A u \in Threads \ {t} : pc'[u] = pc[u], att'[t].key = att[t].key,
         SameGates(trk, trk'), trk'.state = trk.state, OneToken(trk'), TokenAt(t)', Budgeted => BudgetAt(t)'
  PROVE  DataInv'
<1>0. pc[t] \in Driving \ {"open", "pickup"}  BY DEF Attempting, Driving
<1>1. trk \in Tracks /\ trk.state = "RUNNING" /\ pc[t] \in Holding  BY <1>0, Drives
<1>2. TrackSound(trk')
  <2>1. TrackSound(trk) /\ trk'.state # "WAITING_AT_GATE"  BY <1>1 DEF DataInv
  <2> QED  BY <1>1, <2>1, GatesUntouched
<1>3. GateAt(t)'
  <2>1. GateAt(t) /\ Trying(t)  BY DEF DataInv, DriverAt, Trying
  <2> QED  BY <2>1 DEF GateAt, SameGates, Number
<1> QED  BY <1>1, <1>2, <1>3, HolderData DEF DriverAt

--------------------------------------------------------------------------
(***************************************************************************)
(* One lemma per group of actions.                                         *)
(***************************************************************************)
\* A cancel touches nothing of the attempt but who tears its worker down.
LEMMA CancelSame ==
  ASSUME TypeOK, NEW t \in Threads, AcceptCancel(t) \/ CancelTeardown(t)
  PROVE  \A u \in Threads : SameAttempt(u)
<1> DEFINE h == waitOn[t]
<1>1. CASE att' = att  BY <1>1 DEF SameAttempt
<1>2. CASE att' # att
  <2>1. h \in Threads
    <3>1. h \notin Threads => att' = att
      BY DEF AcceptCancel, CancelTeardown, TypeOK
    <3> QED  BY <1>2, <3>1
  <2>2. att[h] \in Attempts  BY <2>1 DEF TypeOK
  <2>3. PICK b : /\ att' = [att EXCEPT ![h] = b]
                 /\ b.key = att[h].key /\ b.started = att[h].started
                 /\ b.teardownError = att[h].teardownError /\ b.outcome = att[h].outcome
                 /\ b.known = att[h].known /\ b.amount = att[h].amount
    <3>1. CASE AcceptCancel(t)
      <4> DEFINE b == [att[h] EXCEPT !.released = TRUE, !.cancelTeardown = "busy"]
      <4>1. att' = [att EXCEPT ![h] = b]  BY <1>2, <3>1 DEF AcceptCancel
      <4> HIDE DEF h
      <4>2. /\ b.key = att[h].key /\ b.started = att[h].started
            /\ b.teardownError = att[h].teardownError /\ b.outcome = att[h].outcome
            /\ b.known = att[h].known /\ b.amount = att[h].amount
        BY <2>2 DEF Attempts
      <4> HIDE DEF b
      <4> QED  BY <4>1, <4>2
    <3>2. CASE CancelTeardown(t)
      <4>1. PICK x \in {"ok", "failed"} : att' = [att EXCEPT ![h].cancelTeardown = x]
        BY <3>2 DEF CancelTeardown
      <4> DEFINE b == [att[h] EXCEPT !.cancelTeardown = x]
      <4>2. att' = [att EXCEPT ![h] = b]  BY <4>1
      <4> HIDE DEF h
      <4>3. /\ b.key = att[h].key /\ b.started = att[h].started
            /\ b.teardownError = att[h].teardownError /\ b.outcome = att[h].outcome
            /\ b.known = att[h].known /\ b.amount = att[h].amount
        BY <2>2 DEF Attempts
      <4> HIDE DEF b
      <4> QED  BY <4>2, <4>3
    <3> QED  BY <3>1, <3>2
  <2> HIDE DEF h
  <2>4. att'[h] = b /\ \A u \in Threads \ {h} : att'[u] = att[u]  BY <2>1, <2>3 DEF TypeOK
  <2> QED  BY <2>3, <2>4 DEF SameAttempt
<1> QED  BY <1>1, <1>2

LEMMA ClaimStepData ==
  ASSUME TypeOK, DataInv, NEW t \in Threads, ClaimStep(t) \/ Begin(t) \/ StartHost(t) \/ Read(t)
  PROVE  DataInv'
<1> USE DEF At, Goto
<1>0. UNCHANGED trk /\ \A u \in Threads \ {t} : pc'[u] = pc[u]
  BY DEF ClaimStep, Acquire, Busy, WaitFinished, WaitAccepting, Status, AcceptCancel,
         CancelTeardown, Release, LetGo, Begin, BeginCall, StartHost, Read, TypeOK
<1>a. pc'[t] \notin Driving
  <2>1. PICK l \in {"read", "wait", "idle", "acquire", "status", "cancel_teardown", "let_go", "enter"} :
          pc' = [pc EXCEPT ![t] = l]
    BY DEF ClaimStep, Acquire, Busy, WaitFinished, WaitAccepting, Status, AcceptCancel,
           CancelTeardown, Release, LetGo, Begin, BeginCall, StartHost, Read
  <2> QED  BY <2>1 DEF TypeOK, Driving
<1>1. \A u \in Threads \ {t} : pass'[u] = pass[u]
  BY DEF ClaimStep, Acquire, Busy, WaitFinished, WaitAccepting, Status, AcceptCancel,
         CancelTeardown, Release, LetGo, Begin, BeginCall, StartHost, Read, TypeOK
<1>2. CASE AcceptCancel(t) \/ CancelTeardown(t)
  <2>1. \A u \in Threads : SameAttempt(u)  BY <1>2, CancelSame
  <2> QED  BY <1>0, <1>1, <1>a, <2>1, BystanderData
<1>3. CASE ~(AcceptCancel(t) \/ CancelTeardown(t))
  <2>1. \A u \in Threads \ {t} : att'[u] = att[u]
    BY <1>3 DEF ClaimStep, Acquire, Busy, WaitFinished, WaitAccepting, Status,
                Release, LetGo, Begin, BeginCall, StartHost, Read, TypeOK
  <2>2. \A u \in Threads \ {t} : SameAttempt(u)  BY <2>1 DEF SameAttempt
  <2> QED  BY <1>0, <1>1, <1>a, <2>2, BystanderData
<1> QED  BY <1>2, <1>3

\* A call that goes on to drive the run finds no token outstanding.
LEMMA OpeningData ==
  ASSUME SyncInv, NEW t \in Threads, pc[t] \in Holding, pc'[t] \in {"open", "pickup"},
         \A u \in Threads \ {t} : pc'[u] = pc[u], TrackSound(trk'), trk'.tokens = {}
  PROVE  DataInv'
<1>1. GateAt(t)'  BY DEF GateAt, Trying, Attempting
<1>2. TokenAt(t)'  BY DEF TokenAt
<1>3. BudgetAt(t)'  BY DEF BudgetAt, Unanswered, Clearing
<1> QED  BY <1>1, <1>2, <1>3, HolderData DEF DriverAt

LEMMA EnterStepData ==
  ASSUME TypeInv, SyncInv, DataInv, NEW t \in Threads, EnterStep(t) PROVE DataInv'
<1> USE DEF At, Goto, Enters
<1>0. /\ TypeOK /\ SyncAt(t) /\ KeyAt(t) /\ trk \in Tracks /\ TrackSound(trk)
  BY DEF TypeInv, KeyInv, TypeOK, SyncInv, DataInv
<1>1. CASE Read(t)  BY <1>0, <1>1, ClaimStepData
<1>a. ASSUME ~Read(t)
      PROVE  /\ pc[t] = "enter" /\ pc[t] \in Holding
             /\ \A u \in Threads \ {t} : pc'[u] = pc[u]
             /\ snap[t].state # "NONE" => snap[t] = trk
             /\ snap[t].state = "NONE" /\ trk.state = "NONE" => snap[t] = trk
             /\ pc' \in {[pc EXCEPT ![t] = "open"], [pc EXCEPT ![t] = "release"]}
  <2>1. pc[t] = "enter" /\ pc' \in {[pc EXCEPT ![t] = "open"], [pc EXCEPT ![t] = "release"]}
    BY <1>a DEF EnterStep, EnterSubmit, EnterRetry, EnterDecide, EnterCancel, EnterStart
  <2> QED  BY <1>0, <2>1 DEF SyncAt, Holding, TypeOK
<1>b. ASSUME ~Read(t), pc' = [pc EXCEPT ![t] = "release"], TrackSound(trk') PROVE DataInv'
  <2>1. pc'[t] = "release"  BY <1>0, <1>b DEF TypeOK
  <2>2. pc'[t] \notin Driving  BY <2>1 DEF Driving
  <2> QED  BY <1>a, <1>b, <2>2, LeavingData
<1>c. ASSUME ~Read(t), pc' = [pc EXCEPT ![t] = "open"], TrackSound(trk'), trk'.tokens = {} PROVE DataInv'
  <2>1. pc'[t] = "open"  BY <1>0, <1>c DEF TypeOK
  <2> QED  BY <1>a, <1>c, <2>1, OpeningData
<1>2. CASE EnterSubmit(t)
  <2>0. ~Read(t)  BY <1>2 DEF EnterSubmit, Read
  <2>1. CASE trk' = trk /\ pc' = [pc EXCEPT ![t] = "release"]  BY <1>0, <1>b, <2>0, <2>1
  <2>2. CASE snap[t].state = "NONE" /\ trk.state = "NONE" /\ trk' = OpSubmitted(trk)
             /\ pc' = [pc EXCEPT ![t] = "open"]
    <3> DEFINE U == OpSubmitted(trk)
    <3>1. SameGates(trk, U) /\ U.tokens = trk.tokens /\ U.state = "SUBMITTED"
      BY <1>0, <2>2, OpSubmittedFields, OpSubmittedType
    <3>2. trk.tokens = {}  BY <1>0, <2>2 DEF TrackSound, OneToken
    <3>3. trk' = U  BY <2>2
    <3> HIDE DEF U
    <3>4. OneToken(U)  BY <3>1, <3>2 DEF OneToken
    <3>5. TrackSound(U)  BY <1>0, <3>1, <3>4, GatesUntouched
    <3> QED  BY <1>c, <2>0, <2>2, <3>1, <3>2, <3>3, <3>5
  <2>3. CASE snap[t].state = "SUBMITTED" /\ trk' = trk /\ pc' = [pc EXCEPT ![t] = "open"]
    <3>1. trk.state = "SUBMITTED"  BY <1>a, <2>0, <2>3
    <3>2. trk.tokens = {}  BY <1>0, <3>1 DEF TrackSound, OneToken
    <3> QED  BY <1>0, <1>c, <2>0, <2>3, <3>2
  <2> QED  BY <1>2, <2>1, <2>2, <2>3 DEF EnterSubmit, Append
<1>3. CASE EnterRetry(t)
  <2>0. ~Read(t)  BY <1>3 DEF EnterRetry, Read
  <2>1. CASE Retriable(snap[t])
    <3>1. trk' = RetryRequested(trk) /\ pc' = [pc EXCEPT ![t] = "open"]
      BY <1>3, <2>1 DEF EnterRetry, Append
    <3>2. snap[t].state \in {"FAILED", "INTERRUPTED"}
      BY <2>1 DEF Retriable, Accepts, Ended, Edges
    <3>3. trk.state \in {"FAILED", "INTERRUPTED"}  BY <1>a, <2>0, <3>2
    <3>4. TrackSound(RetryRequested(trk)) /\ RetryRequested(trk).tokens = {}
      BY <1>0, <3>3, RetrySound
    <3> QED  BY <1>c, <2>0, <3>1, <3>4
  <2>2. CASE ~Retriable(snap[t])
    <3>1. trk' = trk /\ pc' = [pc EXCEPT ![t] = "release"]  BY <1>3, <2>2 DEF EnterRetry
    <3> QED  BY <1>0, <1>b, <2>0, <3>1
  <2> QED  BY <2>1, <2>2
<1>4. CASE EnterDecide(t)
  <2>0. ~Read(t)  BY <1>4 DEF EnterDecide, Read
  <2> DEFINE k == call[t].named
  <2>1. k \in Keys  BY <1>0, <1>4 DEF EnterDecide, KeyAt
  <2>2. CASE ~Decidable(snap[t], k)
    <3>1. trk' = trk /\ pc' = [pc EXCEPT ![t] = "release"]  BY <1>4, <2>2 DEF EnterDecide
    <3> QED  BY <1>0, <1>b, <2>0, <3>1
  <2>3. CASE Decidable(snap[t], k)
    <3>1. /\ snap[t] = trk /\ trk.state = "WAITING_AT_GATE" /\ trk.open = k
      BY <1>a, <2>0, <2>3 DEF Decidable
    <3>2. \/ trk' = Approved(trk, k) /\ pc' = [pc EXCEPT ![t] = "open"]
          \/ trk' = Rejected(trk, k) /\ pc' = [pc EXCEPT ![t] = "release"]
          \/ trk' = SentBack(trk, k) /\ ~PastRevisions(snap[t], k) /\ pc' = [pc EXCEPT ![t] = "open"]
          \/ trk' = RevisionsExhausted(trk, k) /\ pc' = [pc EXCEPT ![t] = "release"]
      BY <1>4, <2>3 DEF EnterDecide, Append
    <3> HIDE DEF k
    <3>3. CASE trk' = Approved(trk, k) /\ pc' = [pc EXCEPT ![t] = "open"]
      BY <1>0, <1>c, <2>0, <2>1, <3>1, <3>3, ApproveSound
    <3>4. CASE trk' = Rejected(trk, k) /\ pc' = [pc EXCEPT ![t] = "release"]
      BY <1>0, <1>b, <2>0, <2>1, <3>1, <3>4, RejectSound
    <3>5. CASE trk' = SentBack(trk, k) /\ ~PastRevisions(snap[t], k) /\ pc' = [pc EXCEPT ![t] = "open"]
      BY <1>0, <1>c, <2>0, <2>1, <3>1, <3>5, SendBackSound
    <3>6. CASE trk' = RevisionsExhausted(trk, k) /\ pc' = [pc EXCEPT ![t] = "release"]
      BY <1>0, <1>b, <2>0, <2>1, <3>1, <3>6, ExhaustSound
    <3> QED  BY <3>2, <3>3, <3>4, <3>5, <3>6
  <2> QED  BY <2>2, <2>3
<1>5. CASE EnterCancel(t) \/ EnterStart(t)
  <2>0. ~Read(t)  BY <1>5 DEF EnterCancel, EnterStart, Read
  <2>1. /\ pc' = [pc EXCEPT ![t] = "release"]
        /\ \/ trk' = trk
           \/ Accepts(snap[t].state, "cancel") /\ trk' = RunCancelled(trk)
           \/ snap[t].state \in {"RUNNING", "WAITING_AT_GATE"} /\ trk' = RunInterrupted(trk)
    BY <1>5 DEF EnterCancel, EnterStart, Append
  <2>2. CASE trk' = trk  BY <1>0, <1>b, <2>0, <2>1, <2>2
  <2>3. CASE Accepts(snap[t].state, "cancel") /\ trk' = RunCancelled(trk)
    <3>1. snap[t].state \in {"SUBMITTED", "RUNNING", "WAITING_AT_GATE"}
      BY <2>3 DEF Accepts, Edges
    <3>2. snap[t] = trk  BY <1>a, <2>0, <3>1
    <3>3. SameGates(trk, trk') /\ trk'.tokens = {} /\ trk'.state = "CANCELLED"
      BY <1>0, <2>3, <3>1, <3>2, RunCancelledFields, RunCancelledType
    <3>4. OneToken(trk')  BY <3>3 DEF OneToken
    <3>5. TrackSound(trk')  BY <1>0, <3>3, <3>4, GatesUntouched
    <3> QED  BY <1>b, <2>0, <2>1, <3>5
  <2>4. CASE snap[t].state \in {"RUNNING", "WAITING_AT_GATE"} /\ trk' = RunInterrupted(trk)
    <3>2. snap[t] = trk  BY <1>a, <2>0, <2>4
    <3>3. SameGates(trk, trk') /\ trk'.tokens = {} /\ trk'.state = "INTERRUPTED"
      BY <1>0, <2>4, <3>2, EndFields, EndTypes
    <3>4. OneToken(trk')  BY <3>3 DEF OneToken
    <3>5. TrackSound(trk')  BY <1>0, <3>3, <3>4, GatesUntouched
    <3> QED  BY <1>b, <2>0, <2>1, <3>5
  <2> QED  BY <2>1, <2>2, <2>3, <2>4
<1> QED  BY <1>1, <1>2, <1>3, <1>4, <1>5 DEF EnterStep

\* The pass's fields, as the driver updates them.
LEMMA PassUpdates ==
  ASSUME NEW p \in Passes, NEW n, NEW b, NEW e
  PROVE  /\ [p EXCEPT !.reached = TRUE].tally = p.tally
         /\ [p EXCEPT !.end = e].end = e /\ [p EXCEPT !.end = e].tally = p.tally
         /\ [p EXCEPT !.tally = n, !.end = e].tally = n /\ [p EXCEPT !.tally = n, !.end = e].end = e
         /\ [p EXCEPT !.tally = n, !.over = b, !.end = e].tally = n
         /\ [p EXCEPT !.tally = n, !.over = b, !.end = e].end = e
  BY DEF Passes

LEMMA DriverStepData ==
  ASSUME TypeInv, SyncInv, DataInv, NEW t \in Threads, DriverStep(t) PROVE DataInv'
<1> USE DEF At, Goto
<1>0. pc[t] \in Driving
  BY DEF DriverStep, Open, PickUp, LoopCancelled, LoopApproved, LoopBudget, Resolve, LoopEnd,
         Driving
<1>a. /\ TypeOK /\ SyncAt(t) /\ pc[t] \in Holding /\ snap[t] = trk /\ trk \in Tracks
      /\ pass[t] \in Passes /\ TrackSound(trk) /\ TokenAt(t) /\ (Budgeted => BudgetAt(t))
  BY <1>0, Drives DEF TypeOK, DataInv, DriverAt
<1>b. ASSUME NEW how \in Ends \ {"escalate"}, End(t, how), UNCHANGED <<trk, att>> PROVE DataInv'
  <2>1. pc'[t] = "finish" /\ pass'[t].end = how /\ \A u \in Threads \ {t} : pc'[u] = pc[u]
    BY <1>a, <1>b, EndEffect
  <2> QED  BY <1>0, <1>a, <1>b, <2>1, FinishingData
<1>1. CASE Open(t)
  <2>1. /\ pc[t] = "open" /\ pc'[t] = "pickup" /\ UNCHANGED trk
        /\ \A u \in Threads \ {t} : pc'[u] = pc[u]
    BY <1>1, <1>a DEF Open, TypeOK
  <2>2. trk.tokens = {}  BY <1>a, <2>1 DEF TokenAt, Tokenless
  <2> QED  BY <1>a, <2>1, <2>2, OpeningData
<1>2. CASE PickUp(t)
  <2>1. pc[t] = "pickup" /\ trk.state \in {"SUBMITTED", "RUNNING"}
    BY <1>2, <1>a DEF PickUp, SyncAt
  <2>2. /\ SameGates(trk, trk') /\ SameBooks(trk, trk') /\ trk'.tokens = trk.tokens
        /\ trk'.state = "RUNNING"
    <3>1. CASE trk.state = "SUBMITTED"
      BY <1>2, <1>a, <3>1, RunPickedUpFields, RunPickedUpType DEF PickUp, Append
    <3>2. CASE trk.state # "SUBMITTED"
      <4>1. trk' = trk  BY <1>2, <1>a, <3>2 DEF PickUp
      <4> QED  BY <2>1, <3>2, <4>1 DEF SameGates, SameBooks
    <3> QED  BY <3>1, <3>2
  <2>3. trk.tokens = {}  BY <1>a, <2>1 DEF TokenAt, Tokenless
  <2>4. TrackSound(trk')
    <3>1. OneToken(trk')  BY <2>2, <2>3 DEF OneToken
    <3> QED  BY <1>a, <2>2, <3>1, GatesUntouched
  <2> DEFINE e == IF Budgeted /\ snap[t].unknown THEN "usage" ELSE "none"
             p == [pass[t] EXCEPT !.tally = snap[t].spent, !.end = e]
  <2>5. p.tally = trk.spent /\ p.end = e  BY <1>a, PassUpdates
  <2>6. pass' = [pass EXCEPT ![t] = p] /\ att' = att  BY <1>2 DEF PickUp
  <2>7. pc' = [pc EXCEPT ![t] = IF Budgeted /\ snap[t].unknown THEN "finish" ELSE "loop"]
    BY <1>2 DEF PickUp
  <2>8. pc'[t] = (IF Budgeted /\ trk.unknown THEN "finish" ELSE "loop")
        /\ \A u \in Threads \ {t} : pc'[u] = pc[u]
    BY <1>a, <2>7 DEF TypeOK
  <2>9. pass'[t].tally = trk.spent /\ pass'[t].end # "escalate"
    <3>1. pass'[t] = p  BY <1>a, <2>6 DEF TypeOK
    <3> QED  BY <2>5, <3>1
  <2> HIDE DEF p, e
  <2>10. CASE pc'[t] = "finish"
    BY <1>0, <1>a, <2>2, <2>4, <2>6, <2>8, <2>9, <2>10, FinishingData
  <2>11. CASE pc'[t] = "loop"
    <3>1. GateAt(t)'  BY <2>11 DEF GateAt, Trying, Attempting
    <3>2. TokenAt(t)'  BY <2>2, <2>3, <2>11 DEF TokenAt
    <3>3. Budgeted => BudgetAt(t)'
      BY <2>2, <2>8, <2>9, <2>11 DEF BudgetAt, SameBooks, Unanswered, Clearing
    <3> QED  BY <1>a, <2>4, <2>8, <3>1, <3>2, <3>3, HolderData DEF DriverAt
  <2> QED  BY <2>8, <2>10, <2>11
<1>3. CASE LoopCancelled(t)
  BY <1>3, <1>b, "cancel" \in Ends \ {"escalate"} DEF LoopCancelled, Ends
<1>4. CASE LoopApproved(t)
  <2> DEFINE p == [pass[t] EXCEPT !.reached = TRUE]
  <2>1. /\ pc[t] = "loop" /\ pc' = [pc EXCEPT ![t] = "keep_approved"] /\ UNCHANGED <<trk, att>>
        /\ pass' = [pass EXCEPT ![t] = p]
    BY <1>4 DEF LoopApproved
  <2>2. p.tally = pass[t].tally  BY <1>a, PassUpdates
  <2> HIDE DEF p
  <2>3. pc'[t] = "keep_approved" /\ pass'[t] = p /\ \A u \in Threads \ {t} : pc'[u] = pc[u]
    BY <1>a, <2>1 DEF TypeOK
  <2>4. GateAt(t)'  BY <2>3 DEF GateAt, Trying, Attempting
  <2>5. TokenAt(t)'  BY <1>a, <2>1, <2>3 DEF TokenAt, Tokenless
  <2>6. Budgeted => BudgetAt(t)'
    BY <1>a, <2>1, <2>2, <2>3 DEF BudgetAt, Unanswered, Clearing
  <2> QED  BY <1>a, <2>1, <2>3, <2>4, <2>5, <2>6, HolderData DEF DriverAt
<1>5. CASE LoopBudget(t)
  BY <1>5, <1>b, "budget" \in Ends \ {"escalate"} DEF LoopBudget, Ends
<1>6. CASE Resolve(t)
  <2>1. PICK s \in Steps : /\ IsNext(snap[t], s)
                           /\ att' = [att EXCEPT ![t] = NewAttempt(<<s, Number(snap[t], s)>>)]
    BY <1>6 DEF Resolve
  <2> DEFINE p == [pass[t] EXCEPT !.reached = TRUE]
             k == <<s, Number(trk, s)>>
             a == NewAttempt(k)
  <2>2. /\ pc[t] = "loop" /\ pc' = [pc EXCEPT ![t] = "attempt"] /\ UNCHANGED trk
        /\ pass' = [pass EXCEPT ![t] = p] /\ trk.approved[s] = NoKey
        /\ ~Exceeded(pass[t].tally)
    BY <1>6, <1>a, <2>1 DEF Resolve, Resolves
  <2>3. p.tally = pass[t].tally  BY <1>a, PassUpdates
  <2>4. a.key = k /\ a.outcome = "broken"  BY DEF NewAttempt
  <2>5. att' = [att EXCEPT ![t] = a]  BY <1>a, <2>1
  <2> HIDE DEF p, a
  <2>6. pc'[t] = "attempt" /\ pass'[t] = p /\ att'[t] = a /\ \A u \in Threads \ {t} : pc'[u] = pc[u]
    BY <1>a, <2>2, <2>5 DEF TypeOK
  <2>7. GateAt(t)'
    <3>1. att'[t].key[1] = s /\ att'[t].key[2] = Number(trk, s)  BY <2>4, <2>6
    <3> QED  BY <2>2, <2>6, <3>1 DEF GateAt, Number
  <2>8. TokenAt(t)'  BY <1>a, <2>2, <2>6 DEF TokenAt, Tokenless
  <2>9. ASSUME Budgeted PROVE BudgetAt(t)'
    <3>1. pass[t].tally = trk.spent /\ ~trk.unknown  BY <1>a, <2>2, <2>9 DEF BudgetAt
    <3>2. pass[t].tally < TokenLimit
      <4>1. pass[t].tally \in Nat  BY <1>a DEF Passes
      <4> QED  BY <2>2, <2>9, <4>1, LimitsAssumption DEF Exceeded
    <3> QED  BY <2>2, <2>3, <2>4, <2>6, <3>1, <3>2 DEF BudgetAt, Clearing
  <2> QED  BY <1>a, <2>2, <2>6, <2>7, <2>8, <2>9, HolderData DEF DriverAt
<1>7. CASE LoopEnd(t)
  <2>1. \E how \in {"budget", "complete"} : End(t, how)  BY <1>7 DEF LoopEnd
  <2> QED  BY <1>7, <1>b, <2>1 DEF LoopEnd, Ends
<1> QED  BY <1>1, <1>2, <1>3, <1>4, <1>5, <1>6, <1>7 DEF DriverStep

\* A step of the attempt that records nothing and learns nothing.
LEMMA AttemptStill ==
  ASSUME TypeInv, SyncInv, DataInv, NEW t \in Threads,
         pc[t] \in Attempting, pc'[t] \in Attempting \ {"keep"},
         \A u \in Threads \ {t} : pc'[u] = pc[u],
         UNCHANGED <<trk, pass>>, SameAttempt(t),
         pc'[t] \in Unanswered => pc[t] \in Unanswered,
         pc'[t] \in Clearing => pc[t] \in Clearing \cup Unanswered,
         pc'[t] \in Tokenless \cup {"after"} => pc[t] \in Tokenless,
         pc[t] \notin {"after", "keep"}
  PROVE  DataInv'
<1>0. pc[t] \in Driving  BY DrivingPlaces
<1>1. /\ TokenAt(t) /\ (Budgeted => BudgetAt(t)) /\ TrackSound(trk)
  BY DEF DataInv, DriverAt
<1>2. SameGates(trk, trk') /\ OneToken(trk')  BY <1>1 DEF SameGates, TrackSound
<1>3. TokenAt(t)'
  <2>1. pc'[t] # "finish" /\ pc[t] \in Driving \ {"after", "finish", "finish_second"}
    BY <1>0 DEF Attempting
  <2> QED  BY <1>1, <2>1, DrivingPlaces DEF TokenAt, SameAttempt
<1>4. ASSUME Budgeted PROVE BudgetAt(t)'
  <2>1. pc'[t] \notin {"loop", "keep", "keep_approved"}  BY DEF Attempting
  <2>2. pass'[t] = pass[t] /\ trk' = trk  OBVIOUS
  <2> QED  BY <1>1, <1>4, <2>1, <2>2 DEF BudgetAt, SameAttempt
<1> QED  BY <1>2, <1>3, <1>4, AttemptData DEF SameAttempt

LEMMA AttemptStepData ==
  ASSUME TypeInv, SyncInv, DataInv, NEW t \in Threads, AttemptStep(t) PROVE DataInv'
<1> USE DEF At, Goto
<1>0. pc[t] \in Attempting /\ pc[t] \in Driving \ {"open", "pickup"}
  BY ZenonT(60) DEF AttemptStep, BeginAttempt, Materialize, WorkerUp, Invoke, Interact, Answer,
         ReadEnvelope, ClaimTeardown, TeardownWait, Teardown, Stopped, Attempting, Driving
<1>a. /\ TypeOK /\ pc[t] \in Holding /\ snap[t] = trk /\ trk \in Tracks /\ trk.state = "RUNNING"
      /\ HasKey(t) /\ att[t] \in Attempts /\ TrackSound(trk)
      /\ TokenAt(t) /\ (Budgeted => BudgetAt(t))
  BY <1>0, Drives DEF KeyAt, TypeOK, DataInv, DriverAt
<1>b. att[t].known \in BOOLEAN /\ att[t].amount \in Nat  BY <1>a DEF Attempts
<1>c. ASSUME NEW a, NEW l \in Attempting \ {"keep"}, pc' = [pc EXCEPT ![t] = l],
             att' = [att EXCEPT ![t] = a], UNCHANGED <<trk, pass>>,
             a.key = att[t].key, a.started = att[t].started,
             a.teardownError = att[t].teardownError, a.outcome = att[t].outcome,
             a.known = att[t].known, a.amount = att[t].amount,
             l \in Unanswered => pc[t] \in Unanswered,
             l \in Clearing => pc[t] \in Clearing \cup Unanswered,
             l \in Tokenless \cup {"after"} => pc[t] \in Tokenless,
             pc[t] \notin {"after", "keep"}
      PROVE  DataInv'
  <2>1. /\ pc'[t] = l /\ att'[t] = a /\ \A u \in Threads \ {t} : pc'[u] = pc[u]
    BY <1>a, <1>c DEF TypeOK
  <2>2. SameAttempt(t)  BY <1>c, <2>1 DEF SameAttempt
  <2> QED  BY <1>0, <1>c, <2>1, <2>2, AttemptStill
<1>d. att' = att => att' = [att EXCEPT ![t] = att[t]]  BY <1>a DEF TypeOK
<1>1. CASE BeginAttempt(t)
  <2>1. PICK l \in {"after", "materialize"} :
          pc' = [pc EXCEPT ![t] = l] /\ UNCHANGED <<trk, pass, att>> /\ pc[t] = "attempt"
    BY <1>1 DEF BeginAttempt, InAttempt
  <2>2. /\ l \in Attempting \ {"keep"} /\ pc[t] \in Unanswered /\ pc[t] \in Tokenless
    BY <2>1 DEF Attempting, Unanswered, Tokenless
  <2> QED  BY <1>c, <1>d, <2>1, <2>2
<1>2. CASE Materialize(t)
  <2>0. pc[t] = "materialize" /\ UNCHANGED <<trk, pass>>  BY <1>2 DEF Materialize, InAttempt
  <2>1. /\ {"worker_up", "after"} \subseteq Attempting \ {"keep"}
        /\ pc[t] \in Unanswered /\ pc[t] \in Tokenless
    BY <2>0 DEF Attempting, Unanswered, Tokenless
  <2>2. CASE att' = att /\ pc' = [pc EXCEPT ![t] = "after"]
    BY <1>c, <1>d, <2>0, <2>1, <2>2
  <2>3. CASE att' = [att EXCEPT ![t].worker = TRUE] /\ pc' = [pc EXCEPT ![t] = "worker_up"]
    <3> DEFINE a == [att[t] EXCEPT !.worker = TRUE]
    <3>1. att' = [att EXCEPT ![t] = a]  BY <2>3
    <3>2. /\ a.key = att[t].key /\ a.started = att[t].started
          /\ a.teardownError = att[t].teardownError /\ a.outcome = att[t].outcome
          /\ a.known = att[t].known /\ a.amount = att[t].amount
      BY <1>a DEF Attempts
    <3> HIDE DEF a
    <3> QED  BY <1>c, <2>0, <2>1, <2>3, <3>1, <3>2
  <2> QED  BY <1>2, <2>2, <2>3 DEF Materialize
<1>3. CASE WorkerUp(t)
  <2> DEFINE c == Dispatch("MATERIALIZED", "ready")
             a == [att[t] EXCEPT !.started = TRUE, !.cog = c]
             k == att[t].key
  <2>1. /\ att' = [att EXCEPT ![t] = a] /\ pc' = [pc EXCEPT ![t] = "invoke"] /\ pc[t] = "worker_up"
        /\ trk' = WorkerStarted(trk, k) /\ pass' = pass
    BY <1>3 DEF WorkerUp, Append, InAttempt
  <2> HIDE DEF c
  <2>2. a.key = k /\ a.started /\ a.outcome = att[t].outcome  BY <1>a DEF Attempts
  <2> HIDE DEF a
  <2>3. pc'[t] = "invoke" /\ att'[t] = a /\ \A u \in Threads \ {t} : pc'[u] = pc[u]
    BY <1>a, <2>1 DEF TypeOK
  <2>4. /\ SameGates(trk, trk') /\ SameBooks(trk, trk') /\ trk'.tokens = trk.tokens \cup {k}
        /\ trk'.state = trk.state
    BY <1>a, <2>1, WorkerFields, WorkerTypes DEF HasKey
  <2>5. trk.tokens = {}  BY <1>a, <2>1 DEF TokenAt, Tokenless
  <2>6. OneToken(trk')  BY <1>a, <2>4, <2>5 DEF OneToken
  <2>7. TokenAt(t)'  BY <2>2, <2>3, <2>4, <2>5 DEF TokenAt, Tokenless
  <2>8. Budgeted => BudgetAt(t)'
    BY <1>a, <2>1, <2>2, <2>3, <2>4 DEF BudgetAt, SameBooks, Unanswered, Clearing
  <2>9. "invoke" \in Attempting \ {"keep"}  BY DEF Attempting
  <2> QED  BY <1>0, <2>2, <2>3, <2>4, <2>6, <2>7, <2>8, <2>9, AttemptData
<1>4. CASE Invoke(t)
  <2>0. /\ pc[t] = "invoke" /\ UNCHANGED <<trk, pass>>  BY <1>4 DEF Invoke, InAttempt
  <2>1. /\ {"interact", "teardown"} \subseteq Attempting \ {"keep"} /\ pc[t] \in Unanswered
        /\ {"interact", "teardown"} \cap (Tokenless \cup {"after"}) = {}
    BY <2>0 DEF Attempting, Unanswered, Tokenless
  <2>2. CASE att' = att /\ pc' = [pc EXCEPT ![t] = "teardown"]
    BY <1>c, <1>d, <2>0, <2>1, <2>2
  <2>3. CASE /\ att' = [att EXCEPT ![t].cog = Dispatch(@, "invoke")]
             /\ pc' = [pc EXCEPT ![t] = "interact"]
    <3> DEFINE c == Dispatch(att[t].cog, "invoke")
               a == [att[t] EXCEPT !.cog = c]
    <3>1. att' = [att EXCEPT ![t] = a]  BY <2>3
    <3> HIDE DEF c
    <3>2. /\ a.key = att[t].key /\ a.started = att[t].started
          /\ a.teardownError = att[t].teardownError /\ a.outcome = att[t].outcome
          /\ a.known = att[t].known /\ a.amount = att[t].amount
      BY <1>a DEF Attempts
    <3> HIDE DEF a
    <3> QED  BY <1>c, <2>0, <2>1, <2>3, <3>1, <3>2
  <2> QED  BY <1>4, <2>2, <2>3 DEF Invoke
<1>5. CASE Interact(t)
  <2>1. PICK kind, severity, known, amount : Answer(t, kind, severity, known, amount)
    BY <1>5 DEF Interact
  <2> DEFINE a == [att[t] EXCEPT !.answer = kind, !.severity = severity,
                                 !.known = known, !.amount = amount]
  <2>2. /\ att' = [att EXCEPT ![t] = a] /\ pc' = [pc EXCEPT ![t] = "read_envelope"]
        /\ pc[t] = "interact" /\ UNCHANGED <<trk, pass>>
    BY <2>1 DEF Answer, InAttempt
  <2>3. /\ a.key = att[t].key /\ a.started = att[t].started /\ a.outcome = att[t].outcome
    BY <1>a DEF Attempts
  <2> HIDE DEF a
  <2>4. /\ pc'[t] = "read_envelope" /\ att'[t] = a /\ \A u \in Threads \ {t} : pc'[u] = pc[u]
    BY <1>a, <2>2 DEF TypeOK
  <2>5. TokenAt(t)'  BY <1>a, <2>2, <2>3, <2>4 DEF TokenAt, Tokenless, Driving
  <2>6. Budgeted => BudgetAt(t)'
    BY <1>a, <2>2, <2>3, <2>4 DEF BudgetAt, Unanswered, Clearing
  <2>7. SameGates(trk, trk') /\ OneToken(trk') /\ "read_envelope" \in Attempting \ {"keep"}
    BY <1>a, <2>2 DEF SameGates, TrackSound, Attempting
  <2> QED  BY <1>0, <2>2, <2>3, <2>4, <2>5, <2>6, <2>7, AttemptData
<1>6. CASE ReadEnvelope(t)
  <2> DEFINE o == Outcome(att[t])
             w == att[t].answer \in {"ok", "error"}
             a == [att[t] EXCEPT !.answered = w, !.outcome = o]
  <2>1. /\ att' = [att EXCEPT ![t] = a] /\ pc' = [pc EXCEPT ![t] = "teardown"]
        /\ pc[t] = "read_envelope" /\ pass' = pass
        /\ trk' = InteractionUsage(trk, att[t].known, att[t].amount)
    BY <1>6 DEF ReadEnvelope, Append, InAttempt
  <2>2. o = "ok" /\ Budgeted => att[t].known  BY DEF Outcome
  <2> HIDE DEF o, w
  <2>3. /\ a.key = att[t].key /\ a.started = att[t].started /\ a.outcome = o
        /\ a.known = att[t].known /\ a.amount = att[t].amount
    BY ZenonT(60), <1>a DEF Attempts
  <2> HIDE DEF a
  <2>4. /\ pc'[t] = "teardown" /\ att'[t] = a /\ \A u \in Threads \ {t} : pc'[u] = pc[u]
    BY <1>a, <2>1 DEF TypeOK
  <2>5. /\ SameGates(trk, trk') /\ trk'.tokens = trk.tokens /\ trk'.state = trk.state
        /\ att[t].known => trk'.spent = trk.spent + att[t].amount /\ trk'.unknown = trk.unknown
    BY <1>a, <1>b, <2>1, UsageFields, UsageType
  <2>6. TokenAt(t)'  BY <1>a, <2>1, <2>3, <2>4, <2>5 DEF TokenAt, Tokenless, Driving
  <2>7. ASSUME Budgeted PROVE BudgetAt(t)'
    <3>1. pass[t].tally = trk.spent /\ ~trk.unknown
      BY <1>a, <2>1, <2>7 DEF BudgetAt, Unanswered
    <3> QED  BY <2>1, <2>2, <2>3, <2>4, <2>5, <2>7, <3>1 DEF BudgetAt, Unanswered, Clearing
  <2>8. OneToken(trk') /\ "teardown" \in Attempting \ {"keep"}
    BY <1>a, <2>5 DEF OneToken, TrackSound, Attempting
  <2> QED  BY <1>0, <2>3, <2>4, <2>5, <2>6, <2>7, <2>8, AttemptData
<1>7. CASE ClaimTeardown(t)
  <2> DEFINE c == MovedForTeardown(att[t])
             a == [att[t] EXCEPT !.released = TRUE, !.cog = c]
  <2>1. PICK l \in {"td_wait", "td_exec"} :
          /\ att' = [att EXCEPT ![t] = a] /\ pc' = [pc EXCEPT ![t] = l] /\ pc[t] = "teardown"
          /\ UNCHANGED <<trk, pass>>
    BY <1>7 DEF ClaimTeardown, InAttempt
  <2> HIDE DEF c
  <2>2. /\ a.key = att[t].key /\ a.started = att[t].started
        /\ a.teardownError = att[t].teardownError /\ a.outcome = att[t].outcome
        /\ a.known = att[t].known /\ a.amount = att[t].amount
    BY <1>a DEF Attempts
  <2> HIDE DEF a
  <2>3. /\ l \in Attempting \ {"keep"} /\ pc[t] \in Clearing /\ l \notin Unanswered
        /\ l \notin Tokenless \cup {"after"}
    BY <2>1 DEF Attempting, Clearing, Unanswered, Tokenless
  <2> QED  BY <1>c, <2>1, <2>2, <2>3
<1>8. CASE TeardownWait(t)
  <2>1. PICK l \in {"td_exec", "stopped"} :
          att' = att /\ pc' = [pc EXCEPT ![t] = l] /\ UNCHANGED <<trk, pass>> /\ pc[t] = "td_wait"
    BY <1>8 DEF TeardownWait, InAttempt
  <2>2. /\ l \in Attempting \ {"keep"} /\ pc[t] \in Clearing /\ l \notin Unanswered
        /\ l \notin Tokenless \cup {"after"}
    BY <2>1 DEF Attempting, Clearing, Unanswered, Tokenless
  <2> QED  BY <1>c, <1>d, <2>1, <2>2
<1>9. CASE Teardown(t)
  <2> DEFINE c == MovedByFailure(att[t])
             a == [att[t] EXCEPT !.teardownError = TRUE, !.cog = c]
  <2>1. /\ att' = att \/ att' = [att EXCEPT ![t] = a]
        /\ pc' = [pc EXCEPT ![t] = "stopped"] /\ pc[t] = "td_exec" /\ UNCHANGED <<trk, pass>>
    BY <1>9 DEF Teardown, InAttempt
  <2> HIDE DEF c
  <2>2. /\ a.key = att[t].key /\ a.started = att[t].started /\ a.outcome = att[t].outcome
        /\ a.known = att[t].known /\ a.amount = att[t].amount
    BY <1>a DEF Attempts
  <2> HIDE DEF a
  <2>3. /\ pc'[t] = "stopped" /\ att'[t] \in {att[t], a} /\ \A u \in Threads \ {t} : pc'[u] = pc[u]
    BY <1>a, <2>1 DEF TypeOK
  <2>4. TokenAt(t)'  BY <1>a, <2>1, <2>2, <2>3 DEF TokenAt, Tokenless, Driving
  <2>5. Budgeted => BudgetAt(t)'
    BY <1>a, <2>1, <2>2, <2>3 DEF BudgetAt, Unanswered, Clearing
  <2>6. SameGates(trk, trk') /\ OneToken(trk') /\ "stopped" \in Attempting \ {"keep"}
    BY <1>a, <2>1 DEF SameGates, TrackSound, Attempting
  <2> QED  BY <1>0, <2>1, <2>2, <2>3, <2>4, <2>5, <2>6, AttemptData
<1>10. CASE Stopped(t)
  <2> DEFINE k == att[t].key
  <2>1. /\ att' = att /\ pc' = [pc EXCEPT ![t] = "after"] /\ pc[t] = "stopped" /\ pass' = pass
        /\ \/ att[t].started /\ ~att[t].teardownError /\ trk' = WorkerStopped(trk, k)
           \/ ~(att[t].started /\ ~att[t].teardownError) /\ trk' = trk
    BY <1>10 DEF Stopped, Append, InAttempt
  <2>2. pc'[t] = "after" /\ \A u \in Threads \ {t} : pc'[u] = pc[u]  BY <1>a, <2>1 DEF TypeOK
  <2>3. /\ trk.tokens \subseteq {k} /\ (~att[t].started => trk.tokens = {})
    BY <1>a, <2>1 DEF TokenAt, Driving
  <2>4. /\ SameGates(trk, trk') /\ SameBooks(trk, trk') /\ trk'.state = trk.state
        /\ trk'.tokens \subseteq trk.tokens /\ (~att[t].teardownError => trk'.tokens = {})
    <3>1. CASE att[t].started /\ ~att[t].teardownError /\ trk' = WorkerStopped(trk, k)
      BY <1>a, <2>3, <3>1, WorkerFields, WorkerTypes DEF HasKey
    <3>2. CASE ~(att[t].started /\ ~att[t].teardownError) /\ trk' = trk
      BY <2>3, <3>2 DEF SameGates, SameBooks
    <3> QED  BY <2>1, <3>1, <3>2
  <2>5. OneToken(trk')  BY <1>a, <2>4 DEF OneToken, TrackSound
  <2>6. TokenAt(t)'  BY <2>1, <2>2, <2>3, <2>4 DEF TokenAt, Tokenless
  <2>7. Budgeted => BudgetAt(t)'
    BY <1>a, <2>1, <2>2, <2>4 DEF BudgetAt, SameBooks, Unanswered, Clearing
  <2>8. "after" \in Attempting \ {"keep"}  BY DEF Attempting
  <2> QED  BY <1>0, <2>1, <2>2, <2>4, <2>5, <2>6, <2>7, <2>8, AttemptData
<1> QED  BY SMTT(40), <1>1, <1>2, <1>3, <1>4, <1>5, <1>6, <1>7, <1>8, <1>9, <1>10 DEF AttemptStep

\* An event that ends the run, or its attempt, and decides nothing.
LEMMA EndingSound ==
  ASSUME NEW T \in Tracks, TrackSound(T), T.state = "RUNNING",
         NEW U \in {RunCompleted(T), RunFailed(T), BudgetStopped(T), RunCancelled(T)}
  PROVE  TrackSound(U)
<1>1. SameGates(T, U) /\ U.tokens = {}  BY EndFields, RunCancelledFields
<1>2. U.state # "WAITING_AT_GATE"
  <2>1. RunCancelled(T).state = "CANCELLED"  BY RunCancelledType
  <2>2. /\ RunCompleted(T).state = "COMPLETED" /\ RunFailed(T).state = "FAILED"
        /\ BudgetStopped(T).state = "BUDGET_EXCEEDED"
    BY EndTypes
  <2> QED  BY <2>1, <2>2
<1>3. OneToken(U)  BY <1>1 DEF OneToken
<1> QED  BY <1>1, <1>2, <1>3, GatesUntouched

LEMMA StepFailedSound ==
  ASSUME NEW T \in Tracks, TrackSound(T), T.state = "RUNNING", NEW k \in Keys, NEW flag \in BOOLEAN
  PROVE  TrackSound(StepFailed(T, k, flag)) /\ StepFailed(T, k, flag).tokens = T.tokens
<1> DEFINE U == StepFailed(T, k, flag)
<1>1. SameGates(T, U) /\ U.tokens = T.tokens /\ U.state = T.state
  BY StepFailedFields, StepFailedType
<1> HIDE DEF U
<1>2. OneToken(U)  BY <1>1 DEF OneToken, TrackSound
<1>3. TrackSound(U)  BY <1>1, <1>2, GatesUntouched
<1> QED  BY <1>1, <1>3 DEF U

\* _keep, of a result k (approved as e, or of the attempt).
LEMMA KeepData ==
  ASSUME TypeInv, SyncInv, DataInv, NEW t \in Threads, pc[t] \in {"keep", "keep_approved"},
         NEW k \in Keys, NEW e, k[1] \notin trk.done,
         \/ e = NoKey /\ trk.approved[k[1]] = NoKey /\ GateOf[k[1]] # "always"
         \/ e = k /\ trk.approved[k[1]] = k,
         UNCHANGED att,
         \/ End(t, "cancel") /\ UNCHANGED trk
         \/ /\ trk' = StepCompleted(trk, k, e)
            /\ End(t, "budget") \/ (pc' = [pc EXCEPT ![t] = "loop"] /\ UNCHANGED pass)
  PROVE  DataInv'
<1>0. pc[t] \in Driving \ {"open", "pickup"} /\ pc[t] \in Tokenless  BY DEF Driving, Tokenless
<1>a. /\ TypeOK /\ pc[t] \in Holding /\ trk \in Tracks /\ trk.state = "RUNNING"
      /\ TrackSound(trk) /\ TokenAt(t) /\ (Budgeted => BudgetAt(t))
  BY <1>0, Drives DEF DataInv, DriverAt
<1>b. ASSUME NEW how \in {"cancel", "budget"}, End(t, how), TrackSound(trk'), trk'.tokens = trk.tokens
      PROVE  DataInv'
  <2>1. how \in Ends /\ how # "escalate"  BY DEF Ends
  <2>2. pc'[t] = "finish" /\ pass'[t].end = how /\ \A u \in Threads \ {t} : pc'[u] = pc[u]
    BY <1>a, <1>b, <2>1, EndEffect
  <2> QED  BY <1>0, <1>b, <2>1, <2>2, FinishingData
<1>1. CASE End(t, "cancel") /\ UNCHANGED trk  BY <1>a, <1>b, <1>1
<1>2. CASE /\ trk' = StepCompleted(trk, k, e)
           /\ End(t, "budget") \/ (pc' = [pc EXCEPT ![t] = "loop"] /\ UNCHANGED pass)
  <2>1. /\ TrackSound(trk') /\ trk'.tokens = trk.tokens /\ SameBooks(trk, trk')
    <3>1. TrackSound(StepCompleted(trk, k, e))  BY <1>a, KeepSound
    <3>2. /\ StepCompleted(trk, k, e).tokens = trk.tokens
          /\ SameBooks(trk, StepCompleted(trk, k, e))
      BY <1>a, StepCompletedFields
    <3> QED  BY <1>2, <3>1, <3>2
  <2>2. CASE End(t, "budget")  BY <1>b, <2>1, <2>2
  <2>3. CASE pc' = [pc EXCEPT ![t] = "loop"] /\ UNCHANGED pass
    <3>1. pc'[t] = "loop" /\ \A u \in Threads \ {t} : pc'[u] = pc[u]  BY <1>a, <2>3 DEF TypeOK
    <3>2. GateAt(t)'  BY <3>1 DEF GateAt, Trying, Attempting
    <3>3. TokenAt(t)'
      <4>1. trk'.tokens = {}  BY <1>0, <1>a, <2>1 DEF TokenAt
      <4> QED  BY <3>1, <4>1 DEF TokenAt
    <3>4. ASSUME Budgeted PROVE BudgetAt(t)'
      <4>1. pass[t].tally = trk.spent /\ ~trk.unknown  BY <1>a, <3>4 DEF BudgetAt
      <4>2. pass'[t].tally = trk'.spent /\ ~trk'.unknown  BY <2>1, <2>3, <4>1 DEF SameBooks
      <4> QED  BY <3>1, <4>2 DEF BudgetAt, Unanswered, Clearing
    <3> QED  BY <1>a, <2>1, <3>1, <3>2, <3>3, <3>4, HolderData DEF DriverAt
  <2> QED  BY <1>2, <2>2, <2>3
<1> QED  BY <1>1, <1>2

LEMMA EndStepData ==
  ASSUME TypeInv, SyncInv, DataInv, NEW t \in Threads, EndStep(t) PROVE DataInv'
<1> USE DEF At, Goto
<1>0. pc[t] \in Driving \ {"open", "pickup"}
  BY DEF EndStep, AfterNoResult, AfterResult, AfterEscaped, Keep, KeepApproved, FinishCancelled,
         FailStep, Escalate, StopForBudget, FailUnaccounted, Complete, FinishSecond, Ending,
         Finishes, Driving
<1>a. /\ TypeOK /\ SyncAt(t) /\ KeyAt(t) /\ pc[t] \in Holding /\ snap[t] = trk /\ trk \in Tracks
      /\ trk.state = "RUNNING" /\ att[t] \in Attempts /\ pass[t] \in Passes /\ TrackSound(trk)
      /\ GateAt(t) /\ TokenAt(t) /\ (Budgeted => BudgetAt(t))
  BY <1>0, Drives DEF TypeOK, DataInv, DriverAt
<1>r. ASSUME pc' = [pc EXCEPT ![t] = "release"], TrackSound(trk') PROVE DataInv'
  <2>1. pc'[t] = "release" /\ \A u \in Threads \ {t} : pc'[u] = pc[u]  BY <1>a, <1>r DEF TypeOK
  <2>2. pc'[t] \notin Driving  BY <2>1 DEF Driving
  <2> QED  BY <1>a, <1>r, <2>1, <2>2, LeavingData
<1>e. ASSUME NEW U \in {RunCompleted(trk), RunFailed(trk), BudgetStopped(trk), RunCancelled(trk)},
             trk' = U, pc' = [pc EXCEPT ![t] = "release"]
      PROVE  DataInv'
  BY <1>a, <1>e, <1>r, EndingSound
<1>s. ASSUME NEW flag \in BOOLEAN, HasKey(t), trk' = StepFailed(trk, att[t].key, flag),
             pc' = [pc EXCEPT ![t] = "finish_second"], att' = att
      PROVE  DataInv'
  <2>1. pc'[t] = "finish_second" /\ \A u \in Threads \ {t} : pc'[u] = pc[u]
    BY <1>a, <1>s DEF TypeOK
  <2>2. TrackSound(trk') /\ trk'.tokens = trk.tokens
    BY <1>a, <1>s, StepFailedSound DEF HasKey
  <2> QED  BY <1>0, <1>s, <2>1, <2>2, FinishingData
<1>1. CASE AfterNoResult(t)
  <2>1. PICK how \in {"cancel", "fail"} : End(t, how) /\ UNCHANGED <<trk, att>>
    BY <1>1 DEF AfterNoResult
  <2>2. how \in Ends /\ how # "escalate"  BY DEF Ends
  <2>3. pc'[t] = "finish" /\ pass'[t].end = how /\ \A u \in Threads \ {t} : pc'[u] = pc[u]
    BY <1>a, <2>1, <2>2, EndEffect
  <2> QED  BY <1>0, <1>a, <2>1, <2>2, <2>3, FinishingData
<1>2. CASE AfterResult(t)
  <2> DEFINE g == Escalates(GateOf[att[t].key[1]], att[t].severity)
             n == Consumed(t)
             b == Exceeded(Consumed(t))
             e == IF g THEN "escalate" ELSE "none"
             p == [pass[t] EXCEPT !.tally = n, !.over = b, !.end = e]
  <2>1. /\ pc[t] = "after" /\ ~NoResult(att[t]) /\ pass' = [pass EXCEPT ![t] = p]
        /\ pc' = [pc EXCEPT ![t] = IF g THEN "finish" ELSE "keep"] /\ UNCHANGED <<trk, att>>
    BY <1>2 DEF AfterResult
  <2>2. ~g => GateOf[att[t].key[1]] # "always"  BY DEF Escalates
  <2>3. p.tally = n /\ p.end = e
    <3> HIDE DEF n, b, e
    <3> QED  BY <1>a, PassUpdates
  <2>4. att[t].outcome = "ok" /\ ~att[t].teardownError  BY <2>1 DEF NoResult
  <2>5. trk.tokens = {} /\ pc[t] \in Attempting  BY <1>a, <2>1, <2>4 DEF TokenAt, Attempting
  <2>6. Budgeted => n = trk.spent /\ ~trk.unknown
    BY <1>a, <2>1, <2>4 DEF BudgetAt, Clearing, Consumed
  <2> HIDE DEF p, n, b, g
  <2>7. /\ pc'[t] = (IF g THEN "finish" ELSE "keep") /\ pass'[t] = p
        /\ \A u \in Threads \ {t} : pc'[u] = pc[u]
    BY <1>a, <2>1 DEF TypeOK
  <2>8. GateAt(t)'
    <3>1. trk.approved[att[t].key[1]] = NoKey /\ att[t].key[2] = Number(trk, att[t].key[1])
      BY <1>a, <2>5 DEF GateAt, Trying
    <3> QED  BY <2>1, <2>2, <2>7, <3>1 DEF GateAt, Number
  <2>9. TokenAt(t)'  BY <2>1, <2>5, <2>7 DEF TokenAt
  <2>10. ASSUME Budgeted PROVE BudgetAt(t)'
    <3>1. pass'[t].tally = trk'.spent /\ ~trk'.unknown  BY <2>1, <2>3, <2>6, <2>7, <2>10
    <3>2. pc'[t] \notin Unanswered \cup Clearing  BY <2>7 DEF Unanswered, Clearing
    <3> QED  BY <3>1, <3>2 DEF BudgetAt
  <2> QED  BY <1>a, <2>1, <2>7, <2>8, <2>9, <2>10, HolderData DEF DriverAt
<1>3. CASE AfterEscaped(t)
  <2>1. trk' = trk /\ pc' = [pc EXCEPT ![t] = "release"]  BY <1>3 DEF AfterEscaped
  <2> QED  BY <1>a, <1>r, <2>1
<1>4. CASE Keep(t)
  <2>1. /\ \/ End(t, "cancel") /\ UNCHANGED trk
           \/ /\ trk' = StepCompleted(trk, att[t].key, NoKey)
              /\ End(t, "budget") \/ (pc' = [pc EXCEPT ![t] = "loop"] /\ UNCHANGED pass)
        /\ UNCHANGED att /\ pc[t] = "keep"
    BY <1>4 DEF Keep, KeepUnlessCancelled, Append
  <2>2. att[t].key \in Keys /\ IsNext(trk, att[t].key[1]) /\ pc[t] \in Attempting
    BY <1>a, <2>1 DEF KeyAt, HasKey, SyncAt, Attempting
  <2>3. trk.approved[att[t].key[1]] = NoKey /\ GateOf[att[t].key[1]] # "always"
    BY <1>a, <2>1, <2>2 DEF GateAt, Trying
  <2>4. att[t].key[1] \notin trk.done  BY <2>2 DEF IsNext
  <2> QED  BY <2>1, <2>2, <2>3, <2>4, KeepData
<1>5. CASE KeepApproved(t)
  <2>1. PICK s \in Steps :
          /\ IsNext(snap[t], s)
          /\ KeepUnlessCancelled(t, LAMBDA T : StepCompleted(T, snap[t].approved[s],
                                                             snap[t].approved[s]))
    BY <1>5 DEF KeepApproved
  <2> DEFINE k == trk.approved[s]
  <2>2. k \in Keys /\ k[1] = s
    <3>1. PICK r \in Steps : IsNext(snap[t], r) /\ snap[t].approved[r] # NoKey
      BY <1>a, <1>5 DEF KeepApproved, KeyAt
    <3>2. r = s  BY <2>1, <3>1, NextUnique
    <3> QED  BY <1>a, <3>1, <3>2, PerStepFields DEF KeysOrNone
  <2>3. /\ \/ End(t, "cancel") /\ UNCHANGED trk
           \/ /\ trk' = StepCompleted(trk, k, k)
              /\ End(t, "budget") \/ (pc' = [pc EXCEPT ![t] = "loop"] /\ UNCHANGED pass)
        /\ UNCHANGED att /\ pc[t] = "keep_approved"
    BY <1>5, <1>a, <2>1 DEF KeepApproved, KeepUnlessCancelled, Append
  <2>4. k[1] \notin trk.done /\ trk.approved[k[1]] = k  BY <1>a, <2>1, <2>2 DEF IsNext
  <2> HIDE DEF k
  <2> QED  BY <2>2, <2>3, <2>4, KeepData
<1>6. CASE FinishCancelled(t)
  <2>1. CASE att[t].teardownError
    <3>1. /\ trk' = StepFailed(trk, att[t].key, TRUE) /\ pc' = [pc EXCEPT ![t] = "finish_second"]
          /\ att' = att
      BY <1>6, <2>1 DEF FinishCancelled, Finishes, Append
    <3>2. HasKey(t) /\ TRUE \in BOOLEAN  BY <1>a, <2>1 DEF KeyAt
    <3> QED  BY <1>s, <3>1, <3>2
  <2>2. CASE ~att[t].teardownError
    <3>1. trk' = RunCancelled(trk) /\ pc' = [pc EXCEPT ![t] = "release"]
      BY <1>6, <2>2 DEF FinishCancelled, Append
    <3> QED  BY <1>e, <3>1
  <2> QED  BY <2>1, <2>2
<1>7. CASE FailStep(t)
  <2> DEFINE flag == att[t].teardownError
  <2>1. /\ trk' = StepFailed(trk, att[t].key, flag) /\ pc' = [pc EXCEPT ![t] = "finish_second"]
        /\ att' = att /\ pc[t] = "finish" /\ pass[t].end = "fail"
    BY <1>7 DEF FailStep, Ending, Finishes, Append
  <2>2. HasKey(t) /\ flag \in BOOLEAN  BY <1>a, <2>1 DEF KeyAt, Attempts
  <2> HIDE DEF flag
  <2> QED  BY <1>s, <2>1, <2>2
<1>8. CASE Escalate(t)
  <2>1. /\ trk' = GateEscalated(trk, att[t].key) /\ pc' = [pc EXCEPT ![t] = "release"]
        /\ pc[t] = "finish" /\ pass[t].end = "escalate"
    BY <1>8 DEF Escalate, Ending, Finishes, Append
  <2>2. att[t].key \in Keys /\ IsNext(trk, att[t].key[1])
    BY <1>a, <2>1 DEF KeyAt, HasKey, SyncAt
  <2>3. /\ trk.approved[att[t].key[1]] = NoKey /\ att[t].key[2] = Number(trk, att[t].key[1])
        /\ trk.tokens = {}
    BY <1>a, <2>1 DEF GateAt, Trying, TokenAt
  <2>4. att[t].key[1] \notin trk.done  BY <2>2 DEF IsNext
  <2>5. TrackSound(trk')  BY <1>a, <2>1, <2>2, <2>3, <2>4, EscalateSound
  <2> QED  BY <1>r, <2>1, <2>5
<1>9. CASE StopForBudget(t)
  <2>1. trk' = BudgetStopped(trk) /\ pc' = [pc EXCEPT ![t] = "release"]
    BY <1>9 DEF StopForBudget, Append
  <2> QED  BY <1>e, <2>1
<1>10. CASE FailUnaccounted(t)
  <2>1. trk' = RunFailed(trk) /\ pc' = [pc EXCEPT ![t] = "release"]
    BY <1>10 DEF FailUnaccounted, Append
  <2> QED  BY <1>e, <2>1
<1>11. CASE Complete(t)
  <2>1. trk' = RunCompleted(trk) /\ pc' = [pc EXCEPT ![t] = "release"]
    BY <1>11 DEF Complete, Append
  <2> QED  BY <1>e, <2>1
<1>12. CASE FinishSecond(t)
  <2>1. trk' \in {RunCancelled(trk), RunFailed(trk)} /\ pc' = [pc EXCEPT ![t] = "release"]
    BY <1>12 DEF FinishSecond, Append
  <2> QED  BY <1>e, <2>1
<1> QED  BY <1>1, <1>2, <1>3, <1>4, <1>5, <1>6, <1>7, <1>8, <1>9, <1>10, <1>11, <1>12
         DEF EndStep

LEMMA FailedWriteData ==
  ASSUME TypeInv, SyncInv, DataInv, NEW t \in Threads, FailedWrite(t) PROVE DataInv'
<1> USE DEF At, Goto
<1>0. pc[t] \in Driving
  BY DEF FailedWrite, WorkerWriteFails, ReadyWriteFails, UsageWriteFails, HandlerWriteFails,
         DriverWriteFails, DriverWrites, Driving
<1>a. /\ TypeOK /\ KeyAt(t) /\ pc[t] \in Holding /\ trk \in Tracks
      /\ att[t] \in Attempts /\ TrackSound(trk) /\ TokenAt(t) /\ (Budgeted => BudgetAt(t))
  BY <1>0, Drives DEF TypeOK, DataInv, DriverAt
<1>b. ASSUME NEW l, WriteFailed(t, l)
      PROVE  pc'[t] = l /\ pass' = pass /\ \A u \in Threads \ {t} : pc'[u] = pc[u]
  BY <1>a, <1>b DEF WriteFailed, TypeOK
<1>c. ASSUME pc[t] \in Unanswered, Budgeted PROVE att[t].outcome # "ok"
  BY <1>a, <1>c DEF BudgetAt
<1>d. "teardown" \in Attempting \ {"keep"} /\ "teardown" \notin Tokenless \cup {"after"}
      /\ "teardown" \notin Unanswered
  BY DEF Attempting, Tokenless, Unanswered
\* The attempt goes to its teardown without a result.
<1>e. ASSUME pc[t] \in Unanswered, WriteFailed(t, "teardown"), att'[t].key = att[t].key,
             Budgeted => att'[t].outcome # "ok",
             SameGates(trk, trk'), trk'.state = trk.state, OneToken(trk'),
             trk'.tokens \subseteq {att[t].key}, ~att'[t].started => trk'.tokens = {}
      PROVE  DataInv'
  <2>1. pc'[t] = "teardown" /\ \A u \in Threads \ {t} : pc'[u] = pc[u]  BY <1>b, <1>e
  <2>2. pc[t] \in Attempting  BY <1>e DEF Unanswered, Attempting
  <2>3. TokenAt(t)'  BY <1>d, <1>e, <2>1 DEF TokenAt
  <2>4. Budgeted => BudgetAt(t)'  BY <1>d, <1>e, <2>1 DEF BudgetAt
  <2> QED  BY <1>d, <1>e, <2>1, <2>2, <2>3, <2>4, AttemptData
<1>f. trk.tokens \subseteq {att[t].key}  BY <1>0, <1>a DEF TokenAt
<1>g. ASSUME pc[t] \in Unanswered, ~att[t].started PROVE trk.tokens = {}
  BY <1>a, <1>g DEF TokenAt, Unanswered, Driving
<1>1. CASE WorkerWriteFails(t)
  <2>1. WriteFailed(t, "teardown") /\ trk' = trk /\ pc[t] \in Unanswered
    BY <1>1 DEF WorkerWriteFails, Unanswered
  <2>2. /\ att'[t].key = att[t].key /\ att'[t].outcome = att[t].outcome
        /\ att'[t].started = att[t].started
    <3>1. PICK c : att' = att \/ att' = [att EXCEPT ![t].cog = c]
      BY <1>1 DEF WorkerWriteFails
    <3> DEFINE a == [att[t] EXCEPT !.cog = c]
    <3>2. a.key = att[t].key /\ a.outcome = att[t].outcome /\ a.started = att[t].started
      BY <1>a DEF Attempts
    <3>3. att' = att \/ att' = [att EXCEPT ![t] = a]  BY <3>1
    <3> HIDE DEF a
    <3> QED  BY <1>a, <3>2, <3>3 DEF TypeOK
  <2>3. SameGates(trk, trk') /\ OneToken(trk')  BY <1>a, <2>1 DEF SameGates, TrackSound
  <2> QED  BY <1>c, <1>e, <1>f, <1>g, <2>1, <2>2, <2>3
<1>2. CASE ReadyWriteFails(t)
  <2> DEFINE a == [att[t] EXCEPT !.started = TRUE, !.cog = "MATERIALIZED"]
             k == att[t].key
  <2>1. /\ WriteFailed(t, "teardown") /\ pc[t] = "worker_up"
        /\ trk' = WorkerStarted(trk, k) /\ att' = [att EXCEPT ![t] = a]
    BY <1>2 DEF ReadyWriteFails, Append
  <2>2. pc[t] \in Unanswered /\ trk.tokens = {} /\ k \in Keys
    BY <1>a, <2>1 DEF TokenAt, Tokenless, Unanswered, KeyAt, HasKey, Attempting
  <2>3. a.key = k /\ a.outcome = att[t].outcome /\ a.started  BY <1>a DEF Attempts
  <2> HIDE DEF a
  <2>4. att'[t] = a  BY <1>a, <2>1 DEF TypeOK
  <2>5. SameGates(trk, trk') /\ trk'.tokens = trk.tokens \cup {k} /\ trk'.state = trk.state
    BY <1>a, <2>1, <2>2, WorkerFields, WorkerTypes
  <2>6. OneToken(trk')
    <3>1. trk.state = "RUNNING"  BY <1>0, <2>1, Drives
    <3> QED  BY <2>2, <2>5, <3>1 DEF OneToken
  <2> QED  BY <1>c, <1>e, <2>1, <2>2, <2>3, <2>4, <2>5, <2>6
<1>3. CASE UsageWriteFails(t)
  <2> DEFINE w == att[t].answer \in {"ok", "error"}
             a == [att[t] EXCEPT !.answered = w]
  <2>1. /\ WriteFailed(t, "teardown") /\ pc[t] \in Unanswered
        /\ trk' = InteractionUsage(trk, FALSE, 0) /\ att' = [att EXCEPT ![t] = a]
    BY <1>3 DEF UsageWriteFails, Append, Unanswered
  <2> HIDE DEF w
  <2>2. a.key = att[t].key /\ a.outcome = att[t].outcome /\ a.started = att[t].started
    BY <1>a DEF Attempts
  <2> HIDE DEF a
  <2>3. att'[t] = a  BY <1>a, <2>1 DEF TypeOK
  <2>4. SameGates(trk, trk') /\ trk'.tokens = trk.tokens /\ trk'.state = trk.state
    <3>1. FALSE \in BOOLEAN /\ 0 \in Nat  OBVIOUS
    <3> QED  BY <1>a, <2>1, <3>1, UsageFields, UsageType
  <2>5. OneToken(trk')  BY <1>a, <2>4 DEF OneToken, TrackSound
  <2> QED  BY <1>c, <1>e, <1>f, <1>g, <2>1, <2>2, <2>3, <2>4, <2>5
<1>4. CASE HandlerWriteFails(t)
  <2> DEFINE a == [att[t] EXCEPT !.outcome = "escaped"]
  <2>1. /\ WriteFailed(t, "teardown") /\ pc[t] \in Unanswered
        /\ trk' = trk /\ att' = [att EXCEPT ![t] = a]
    BY <1>4 DEF HandlerWriteFails, Unanswered
  <2>2. a.key = att[t].key /\ a.outcome = "escaped" /\ a.started = att[t].started
    BY <1>a DEF Attempts
  <2> HIDE DEF a
  <2>3. att'[t] = a  BY <1>a, <2>1 DEF TypeOK
  <2>4. SameGates(trk, trk') /\ OneToken(trk')  BY <1>a, <2>1 DEF SameGates, TrackSound
  <2> QED  BY <1>e, <1>f, <1>g, <2>1, <2>2, <2>3, <2>4
<1>5. CASE DriverWriteFails(t)
  <2>1. WriteFailed(t, "release") /\ trk' = trk  BY <1>5 DEF DriverWriteFails
  <2>2. pc'[t] \notin Driving  BY <1>b, <2>1 DEF Driving
  <2> QED  BY <1>a, <1>b, <2>1, <2>2, LeavingData
<1> QED  BY <1>1, <1>2, <1>3, <1>4, <1>5 DEF FailedWrite

LEMMA HostStepData ==
  ASSUME TypeInv, SyncInv, DataInv,
         ApiSubmit \/ DeadlinePasses \/ Crash \/ Boot \/ AtRest \/ UNCHANGED vars
  PROVE  DataInv'
<1>1. CASE ApiSubmit
  <2>1. /\ trk \in Tracks /\ TrackSound(trk) /\ trk.state = "NONE" /\ trk' = OpSubmitted(trk)
        /\ UNCHANGED pc
    BY <1>1 DEF ApiSubmit, TypeInv, TypeOK, DataInv
  <2>2. SameGates(trk, trk') /\ trk'.tokens = trk.tokens /\ trk'.state = "SUBMITTED"
    BY <2>1, OpSubmittedFields, OpSubmittedType
  <2>3. OneToken(trk')  BY <2>1, <2>2 DEF OneToken, TrackSound
  <2>4. TrackSound(trk')  BY <2>1, <2>2, <2>3, GatesUntouched
  <2>5. ASSUME NEW u \in Threads PROVE DriverAt(u)'
    <3>1. pc'[u] \notin Driving  BY <2>1 DEF SyncInv, SyncAt
    <3> QED  BY <3>1, AwayData
  <2> QED  BY <2>4, <2>5 DEF DataInv
<1>2. CASE Crash
  <2>1. UNCHANGED trk /\ \A u \in Threads : pc'[u] \notin Driving  BY <1>2 DEF Crash, Driving
  <2> QED  BY <2>1, BystanderData
<1>3. CASE DeadlinePasses \/ Boot \/ AtRest \/ UNCHANGED vars
  <2>1. UNCHANGED <<trk, pc, pass, att>>  BY <1>3 DEF DeadlinePasses, Boot, AtRest, vars
  <2> QED  BY <2>1, BystanderData DEF SameAttempt
<1> QED  BY <1>1, <1>2, <1>3

LEMMA NextData ==
  ASSUME TypeInv, SyncInv, DataInv, [Next]_vars PROVE DataInv'
<1>1. ASSUME NEW t \in Threads, ThreadStep(t) \/ Begin(t) \/ StartHost(t) PROVE DataInv'
  BY <1>1, ClaimStepData, EnterStepData, DriverStepData, AttemptStepData, EndStepData
     DEF ThreadStep, TypeInv
<1>2. ASSUME NEW t \in Threads, FailedWrite(t) PROVE DataInv'
  BY <1>2, FailedWriteData
<1> QED  BY <1>1, <1>2, HostStepData DEF Next

LEMMA SpecDataInv == Spec => [](TypeInv /\ SyncInv /\ DataInv)
<1>1. Init => DataInv  BY InitData
<1>2. TypeInv /\ SyncInv /\ DataInv /\ [Next]_vars => DataInv'  BY NextData
<1> QED  BY <1>1, <1>2, SpecSyncInv, PTL DEF Spec

\* A Gate's sign-off and an approver's decision hold for every run, of any number
\* of steps, threads, calls, restarts and failed writes: a result is kept past a
\* Gate that signs off every result only by an approval, an approval completes its
\* step with the very result it named, and nothing else is completed by one
\* (runner.decide, _keep, Gate.evaluate).
THEOREM GatesAreHonoured == Spec => []GatesHonoured
<1>1. DataInv => GatesHonoured
  BY DEF DataInv, TrackSound, Approvals, GatesHonoured, ApprovalHonoured, GateNeverSkipped
<1> QED  BY <1>1, SpecDataInv, PTL

\* With a token limit no worker is asked to act on a run whose recorded usage has
\* reached it or cannot be added up, whichever calls recorded the usage and however
\* often the host restarted between them (BudgetTracker.check, budget_tracker).
THEOREM BudgetGuarded == Spec => []BudgetGuard
<1>1. DataInv => BudgetGuard
  <2> SUFFICES ASSUME DataInv, Budgeted, NEW t \in Threads, pc[t] = "interact"
               PROVE  trk.spent < TokenLimit /\ ~trk.unknown
    BY DEF BudgetGuard
  <2>1. BudgetAt(t)  BY DEF DataInv, DriverAt
  <2> QED  BY <2>1 DEF BudgetAt, Unanswered
<1> QED  BY <1>1, SpecDataInv, PTL

\* A run token verifies only while the run is RUNNING, and at most one does: every
\* end, wait and interruption leaves none behind, and no attempt starts a worker
\* while an earlier one's token lives (run_tokens.py, minted by runner.materialize).
THEOREM TokensDisciplined == Spec => []TokenDiscipline
<1>1. DataInv => TokenDiscipline
  BY DEF DataInv, TrackSound, OneToken, TokenDiscipline
<1> QED  BY <1>1, SpecDataInv, PTL

--------------------------------------------------------------------------
(***************************************************************************)
(* Who tears a worker down, while no Track write raises.  A cancel that    *)
(* takes the worker is waited for, so it is never left asking for the      *)
(* worker of an attempt that is over.                                      *)
(***************************************************************************)
Taking  == {"worker_up", "invoke", "interact", "read_envelope", "teardown"}
Live    == Taking \cup {"td_wait", "td_exec"}
Leaving == {"stopped", "after", "finish", "finish_second"}

OwnTaken(t) ==
  /\ pc[t] \in Holding \ (Leaving \cup {"release"}) => ~att[t].teardownError
  /\ pc[t] = "finish" /\ pass[t].end \notin {"cancel", "fail"} => ~att[t].teardownError
  /\ pc[t] \in {"attempt", "materialize"} => ~att[t].released
  /\ att[t].worker /\ ~att[t].released => pc[t] \in Taking
  /\ att[t].cancelTeardown # "none" => att[t].released
  /\ pc[t] \in Taking /\ att[t].released => att[t].cancelTeardown # "none"
  /\ pc[t] = "td_wait" => att[t].cancelTeardown # "none"
  /\ att[t].cancelTeardown = "busy" => pc[t] \in Taking \cup {"td_wait"}
  /\ att[t].outcome # "escaped"

CancelAt(t) ==
  pc[t] = "cancel_teardown" =>
    /\ waitOn[t] \in Threads /\ att[waitOn[t]].cancelTeardown = "busy"
    /\ \A u \in Threads \ {t} : pc[u] = "cancel_teardown" => waitOn[u] # waitOn[t]

TakenInv == \A t \in Threads : OwnTaken(t) /\ CancelAt(t)

SameTaken(u) ==
  /\ att'[u].worker = att[u].worker /\ att'[u].released = att[u].released
  /\ att'[u].cancelTeardown = att[u].cancelTeardown
  /\ att'[u].teardownError = att[u].teardownError /\ att'[u].outcome = att[u].outcome

LEMMA NewAttemptFields ==
  ASSUME NEW k
  PROVE  /\ ~NewAttempt(k).worker /\ ~NewAttempt(k).released /\ ~NewAttempt(k).teardownError
         /\ NewAttempt(k).cancelTeardown = "none" /\ NewAttempt(k).outcome = "broken"
  BY DEF NewAttempt

\* A step of t alone, that is no cancel's.
LEMMA TakenStep ==
  ASSUME TakenInv, NEW t \in Threads, pc[t] # "cancel_teardown", pc'[t] # "cancel_teardown",
         \A u \in Threads \ {t} : /\ pc'[u] = pc[u] /\ waitOn'[u] = waitOn[u]
                                  /\ pass'[u] = pass[u] /\ att'[u] = att[u],
         OwnTaken(t)', att[t].cancelTeardown = "busy" => att'[t].cancelTeardown = "busy"
  PROVE  TakenInv'
<1>1. CancelAt(t)'  BY DEF CancelAt
<1>2. ASSUME NEW u \in Threads \ {t} PROVE OwnTaken(u)'
  BY DEF TakenInv, OwnTaken
<1>3. ASSUME NEW u \in Threads \ {t} PROVE CancelAt(u)'
  <2>1. CancelAt(u)  BY DEF TakenInv
  <2> SUFFICES ASSUME pc'[u] = "cancel_teardown"
               PROVE  /\ waitOn'[u] \in Threads /\ att'[waitOn'[u]].cancelTeardown = "busy"
                      /\ \A x \in Threads \ {u} : pc'[x] = "cancel_teardown" => waitOn'[x] # waitOn'[u]
    BY DEF CancelAt
  <2>2. /\ waitOn[u] \in Threads /\ att[waitOn[u]].cancelTeardown = "busy"
        /\ \A x \in Threads \ {u} : pc[x] = "cancel_teardown" => waitOn[x] # waitOn[u]
    BY <2>1 DEF CancelAt
  <2>3. att'[waitOn[u]].cancelTeardown = "busy"  BY <2>2
  <2> QED  BY <2>2, <2>3
<1> QED  BY <1>1, <1>2, <1>3 DEF TakenInv

LEMMA NewTaken ==
  ASSUME NEW t \in Threads, NEW k, att'[t] = NewAttempt(k), pc'[t] # "td_wait"
  PROVE  OwnTaken(t)'
  BY NewAttemptFields DEF OwnTaken

\* A move between places where no worker is in hand.
LEMMA StillTaken ==
  ASSUME NEW t \in Threads, OwnTaken(t), SameTaken(t),
         pc[t] \notin Taking \cup {"td_wait"}, pc'[t] \notin Taking \cup {"td_wait"},
         pc'[t] \in {"attempt", "materialize"} => pc[t] \in {"attempt", "materialize"},
         \/ ~att[t].teardownError \/ pc'[t] \notin Holding
         \/ pc'[t] \in {"release", "finish_second", "after"}
         \/ pc'[t] = "finish" /\ pass'[t].end \in {"cancel", "fail"}
  PROVE  OwnTaken(t)'
  BY DEF OwnTaken, SameTaken, Leaving, Holding, Driving

LEMMA InitTaken == Init => TakenInv
<1> SUFFICES ASSUME Init PROVE TakenInv  OBVIOUS
<1>1. ASSUME NEW t \in Threads PROVE att[t] = NewAttempt(NoKey) /\ pc[t] = "idle"
  BY DEF Init
<1>2. ASSUME NEW t \in Threads PROVE OwnTaken(t) /\ CancelAt(t)
  BY <1>1, NewAttemptFields DEF OwnTaken, CancelAt
<1> QED  BY <1>2 DEF TakenInv

LEMMA TakenPlaces ==
  /\ Taking \cup {"td_wait"} \subseteq Driving
  /\ "cancel_teardown" \notin Holding /\ "idle" \notin Holding
  BY DEF Taking, Holding, Driving

\* Steps outside the claim, that leave the attempts alone.
LEMMA OutsideTaken ==
  ASSUME TypeOK, TakenInv, NEW t \in Threads, pc[t] # "cancel_teardown",
         pc[t] \notin Driving,
         NEW l \in (Labels \ Driving) \ {"cancel_teardown"}, pc' = [pc EXCEPT ![t] = l],
         pc[t] \in Holding \ {"release"} \/ l \notin Holding,
         \A u \in Threads \ {t} : waitOn'[u] = waitOn[u], UNCHANGED <<pass, att>>
  PROVE  TakenInv'
<1>1. pc'[t] = l /\ \A u \in Threads \ {t} : pc'[u] = pc[u]  BY DEF TypeOK
<1>2. OwnTaken(t) /\ SameTaken(t)  BY DEF TakenInv, SameTaken
<1>3. pc[t] \notin Taking \cup {"td_wait"} /\ pc'[t] \notin Taking \cup {"td_wait"}
  BY <1>1, TakenPlaces
<1>4. ~att[t].teardownError \/ pc'[t] \notin Holding
  BY <1>1, <1>2 DEF OwnTaken, Leaving, Driving
<1>5. l \notin {"attempt", "materialize"}  BY DEF Driving
<1>6. OwnTaken(t)'  BY <1>1, <1>2, <1>3, <1>4, <1>5, StillTaken
<1> QED  BY <1>1, <1>6, TakenStep

LEMMA AcceptCancelTaken ==
  ASSUME TypeOK, TakenInv, NEW t \in Threads, AcceptCancel(t) PROVE TakenInv'
<1> USE DEF At, Goto
<1>h. PICK h \in Threads : h = waitOn[t]  BY DEF AcceptCancel, TypeOK
<1>0. pc[t] = "wait" /\ UNCHANGED pass  BY DEF AcceptCancel
<1>1. CASE att[h].worker /\ ~att[h].released
  <2> DEFINE b == [att[h] EXCEPT !.released = TRUE, !.cancelTeardown = "busy"]
  <2>1. /\ att' = [att EXCEPT ![h] = b] /\ pc' = [pc EXCEPT ![t] = "cancel_teardown"]
        /\ UNCHANGED waitOn
    BY <1>h, <1>1 DEF AcceptCancel
  <2>2. /\ OwnTaken(h) /\ pc[h] \in Taking /\ att[h].cancelTeardown = "none"
    <3>1. OwnTaken(h)  BY <1>0 DEF TakenInv
    <3> QED  BY <1>1, <3>1 DEF OwnTaken
  <2>3. att[h] \in Attempts  BY <1>0 DEF TypeOK
  <2>4. /\ b.released /\ b.cancelTeardown = "busy" /\ b.teardownError = att[h].teardownError
        /\ b.outcome = att[h].outcome
    BY <2>3 DEF Attempts
  <2> HIDE DEF b
  <2>5. /\ att'[h] = b /\ \A u \in Threads \ {h} : att'[u] = att[u]
        /\ pc'[t] = "cancel_teardown" /\ \A u \in Threads \ {t} : pc'[u] = pc[u]
    BY <1>0, <2>1 DEF TypeOK
  <2>6. h # t  BY <1>0, <2>2 DEF Taking
  <2>7. OwnTaken(h)'
    BY <1>0, <2>2, <2>4, <2>5, <2>6 DEF OwnTaken, Taking, Leaving, Holding, Driving
  <2>8. OwnTaken(t)'
    <3>1. OwnTaken(t) /\ att'[t] = att[t]  BY <2>5, <2>6 DEF TakenInv
    <3> QED  BY <1>0, <2>5, <3>1, StillTaken, TakenPlaces DEF SameTaken, Taking
  <2>9. ASSUME NEW u \in Threads \ {t, h} PROVE OwnTaken(u)'
    BY <1>0, <2>5 DEF TakenInv, OwnTaken
  <2>10. \A u \in Threads : pc[u] = "cancel_teardown" => waitOn[u] # h
    BY <2>2 DEF TakenInv, CancelAt
  <2>11. ASSUME NEW u \in Threads PROVE CancelAt(u)'
    <3> SUFFICES ASSUME pc'[u] = "cancel_teardown"
                 PROVE  /\ waitOn[u] \in Threads /\ att'[waitOn[u]].cancelTeardown = "busy"
                        /\ \A x \in Threads \ {u} : pc'[x] = "cancel_teardown" => waitOn[x] # waitOn[u]
      BY <2>1 DEF CancelAt
    <3>1. CASE u = t
      <4>1. waitOn[u] = h  BY <1>h, <3>1
      <4> QED  BY <1>0, <2>4, <2>5, <2>10, <3>1, <4>1
    <3>2. CASE u # t
      <4>1. /\ waitOn[u] \in Threads /\ att[waitOn[u]].cancelTeardown = "busy" /\ waitOn[u] # h
            /\ \A x \in Threads \ {u} : pc[x] = "cancel_teardown" => waitOn[x] # waitOn[u]
        BY <2>5, <2>10, <3>2 DEF TakenInv, CancelAt
      <4>2. waitOn[t] = h  BY <1>h
      <4> QED  BY <2>5, <4>1, <4>2
    <3> QED  BY <3>1, <3>2
  <2> QED  BY <2>7, <2>8, <2>9, <2>11 DEF TakenInv
<1>2. CASE ~(att[h].worker /\ ~att[h].released)
  <2>1. att' = att /\ pc' = [pc EXCEPT ![t] = "idle"] /\ waitOn' = [waitOn EXCEPT ![t] = Nobody]
    BY <1>h, <1>2 DEF AcceptCancel
  <2>2. /\ "idle" \in (Labels \ Driving) \ {"cancel_teardown"} /\ "idle" \notin Holding
        /\ pc[t] \notin Driving
    BY <1>0 DEF Labels, Holding, Driving
  <2>3. \A u \in Threads \ {t} : waitOn'[u] = waitOn[u]  BY <2>1 DEF TypeOK
  <2> QED  BY <1>0, <2>1, <2>2, <2>3, OutsideTaken
<1> QED  BY <1>1, <1>2

LEMMA CancelTeardownTaken ==
  ASSUME TypeOK, TakenInv, NEW t \in Threads, CancelTeardown(t) PROVE TakenInv'
<1> USE DEF At, Goto
<1>h. PICK h \in Threads : h = waitOn[t]  BY DEF CancelTeardown, TakenInv, CancelAt
<1>1. PICK x \in {"ok", "failed"} : att' = [att EXCEPT ![h].cancelTeardown = x]
  BY <1>h DEF CancelTeardown
<1> DEFINE b == [att[h] EXCEPT !.cancelTeardown = x]
<1>2. /\ att' = [att EXCEPT ![h] = b] /\ pc' = [pc EXCEPT ![t] = "idle"] /\ pc[t] = "cancel_teardown"
      /\ waitOn' = [waitOn EXCEPT ![t] = Nobody] /\ UNCHANGED pass
  BY <1>h, <1>1 DEF CancelTeardown
<1>3. /\ h \in Threads /\ att[h].cancelTeardown = "busy"
      /\ \A u \in Threads \ {t} : pc[u] = "cancel_teardown" => waitOn[u] # h
  BY <1>h, <1>2 DEF TakenInv, CancelAt
<1>4. OwnTaken(h) /\ pc[h] \in Taking \cup {"td_wait"} /\ att[h].released
  BY <1>3 DEF TakenInv, OwnTaken
<1>5. att[h] \in Attempts  BY <1>3 DEF TypeOK
<1>6. /\ b.released = att[h].released /\ b.cancelTeardown = x /\ b.teardownError = att[h].teardownError
      /\ b.outcome = att[h].outcome
  BY <1>5 DEF Attempts
<1> HIDE DEF b
<1>7. /\ att'[h] = b /\ \A u \in Threads \ {h} : att'[u] = att[u]
      /\ pc'[t] = "idle" /\ \A u \in Threads \ {t} : pc'[u] = pc[u]
      /\ \A u \in Threads \ {t} : waitOn'[u] = waitOn[u]
  BY <1>2, <1>3 DEF TypeOK
<1>8. h # t  BY <1>2, <1>4 DEF Taking
<1>9. OwnTaken(h)'
  BY <1>2, <1>3, <1>4, <1>6, <1>7, <1>8 DEF OwnTaken, Taking, Leaving, Holding, Driving
<1>10. OwnTaken(t)'
  <2>1. OwnTaken(t) /\ att'[t] = att[t]  BY <1>7, <1>8 DEF TakenInv
  <2> QED  BY <1>2, <1>7, <2>1, StillTaken, TakenPlaces DEF SameTaken, Taking
<1>11. ASSUME NEW u \in Threads \ {t, h} PROVE OwnTaken(u)'
  BY <1>2, <1>7 DEF TakenInv, OwnTaken
<1>12. ASSUME NEW u \in Threads PROVE CancelAt(u)'
  <2> SUFFICES ASSUME pc'[u] = "cancel_teardown"
               PROVE  /\ waitOn'[u] \in Threads /\ att'[waitOn'[u]].cancelTeardown = "busy"
                      /\ \A y \in Threads \ {u} : pc'[y] = "cancel_teardown" => waitOn'[y] # waitOn'[u]
    BY DEF CancelAt
  <2>1. u # t  BY <1>7
  <2>2. /\ waitOn[u] \in Threads /\ att[waitOn[u]].cancelTeardown = "busy" /\ waitOn[u] # h
        /\ \A y \in Threads \ {u} : pc[y] = "cancel_teardown" => waitOn[y] # waitOn[u]
    BY <1>3, <1>7, <2>1 DEF TakenInv, CancelAt
  <2> QED  BY <1>7, <2>1, <2>2
<1> QED  BY <1>9, <1>10, <1>11, <1>12 DEF TakenInv

LEMMA LetGoTaken ==
  ASSUME TypeOK, TakenInv, NEW t \in Threads, LetGo(t) PROVE TakenInv'
<1> USE DEF At, Goto
<1>1. /\ pc[t] = "let_go" /\ pc' = [pc EXCEPT ![t] = "idle"]
      /\ att' = [att EXCEPT ![t] = NewAttempt(NoKey)] /\ pass' = [pass EXCEPT ![t] = NewPass]
      /\ waitOn' = [w \in Threads |-> IF waitOn[w] = t THEN Nobody ELSE waitOn[w]]
  BY DEF LetGo
<1>2. /\ pc'[t] = "idle" /\ att'[t] = NewAttempt(NoKey)
      /\ \A u \in Threads \ {t} : pc'[u] = pc[u] /\ att'[u] = att[u] /\ pass'[u] = pass[u]
  BY <1>1 DEF TypeOK
<1>3. att[t].cancelTeardown # "busy"  BY <1>1 DEF TakenInv, OwnTaken, Taking
<1>4. OwnTaken(t)'  BY <1>2, NewTaken
<1>5. ASSUME NEW u \in Threads \ {t} PROVE OwnTaken(u)'
  BY <1>2 DEF TakenInv, OwnTaken
<1>6. ASSUME NEW u \in Threads, pc[u] = "cancel_teardown"
      PROVE  waitOn'[u] = waitOn[u] /\ waitOn[u] \in Threads \ {t}
  BY <1>1, <1>3, <1>6 DEF TakenInv, CancelAt
<1>7. ASSUME NEW u \in Threads PROVE CancelAt(u)'
  <2> SUFFICES ASSUME pc'[u] = "cancel_teardown"
               PROVE  /\ waitOn'[u] \in Threads /\ att'[waitOn'[u]].cancelTeardown = "busy"
                      /\ \A y \in Threads \ {u} : pc'[y] = "cancel_teardown" => waitOn'[y] # waitOn'[u]
    BY DEF CancelAt
  <2>1. u # t /\ pc[u] = "cancel_teardown"  BY <1>2
  <2>2. /\ waitOn[u] \in Threads \ {t} /\ att[waitOn[u]].cancelTeardown = "busy"
        /\ \A y \in Threads \ {u} : pc[y] = "cancel_teardown" => waitOn[y] # waitOn[u]
    BY <1>6, <2>1 DEF TakenInv, CancelAt
  <2> QED  BY <1>2, <1>6, <2>1, <2>2
<1> QED  BY <1>4, <1>5, <1>7 DEF TakenInv

LEMMA ClaimStepTaken ==
  ASSUME TypeOK, TakenInv, NEW t \in Threads, ClaimStep(t) \/ Begin(t) \/ StartHost(t)
  PROVE  TakenInv'
<1> USE DEF At, Goto
<1>1. CASE Acquire(t)
  <2>1. /\ pc[t] = "acquire" /\ pc' = [pc EXCEPT ![t] = "read"] /\ UNCHANGED waitOn
        /\ att' = [att EXCEPT ![t] = NewAttempt(NoKey)] /\ pass' = [pass EXCEPT ![t] = NewPass]
    BY <1>1 DEF Acquire
  <2>2. /\ pc'[t] = "read" /\ att'[t] = NewAttempt(NoKey)
        /\ \A u \in Threads \ {t} : pc'[u] = pc[u] /\ att'[u] = att[u] /\ pass'[u] = pass[u]
    BY <2>1 DEF TypeOK
  <2>3. OwnTaken(t)'  BY <2>2, NewTaken
  <2>4. att[t].cancelTeardown # "busy"  BY <2>1 DEF TakenInv, OwnTaken, Taking
  <2> QED  BY <2>1, <2>2, <2>3, <2>4, TakenStep
<1>2. CASE \/ Busy(t) \/ WaitFinished(t) \/ WaitAccepting(t) \/ Status(t) \/ Release(t)
           \/ Begin(t) \/ StartHost(t)
  <2>1. PICK l \in {"wait", "idle", "acquire", "status", "let_go"} :
          /\ pc' = [pc EXCEPT ![t] = l] /\ pc[t] \in {"acquire", "wait", "status", "release", "idle"}
          /\ UNCHANGED <<pass, att>>
    BY <1>2 DEF Busy, WaitFinished, WaitAccepting, Status, Release, Begin, BeginCall, StartHost
  <2>2. \A u \in Threads \ {t} : waitOn'[u] = waitOn[u]
    BY <1>2 DEF Busy, WaitFinished, WaitAccepting, Status, Release, Begin, BeginCall, StartHost, TypeOK
  <2>3. /\ l \in (Labels \ Driving) \ {"cancel_teardown"} /\ l \notin Holding /\ pc[t] \notin Driving
        /\ pc[t] # "cancel_teardown"
    BY <2>1 DEF Labels, Holding, Driving
  <2> QED  BY <2>1, <2>2, <2>3, OutsideTaken
<1> QED  BY <1>1, <1>2, AcceptCancelTaken, CancelTeardownTaken, LetGoTaken DEF ClaimStep

LEMMA EnterStepTaken ==
  ASSUME TypeOK, TakenInv, NEW t \in Threads, EnterStep(t) PROVE TakenInv'
<1> USE DEF At, Goto, Enters
<1>1. PICK l \in {"enter", "open", "release"} :
        /\ pc' = [pc EXCEPT ![t] = l] /\ pc[t] \in {"read", "enter"}
        /\ UNCHANGED <<pass, att, waitOn>>
  BY DEF EnterStep, Read, EnterSubmit, EnterRetry, EnterDecide, EnterCancel, EnterStart, Entered
<1>2. pc'[t] = l /\ \A u \in Threads \ {t} : pc'[u] = pc[u]  BY <1>1 DEF TypeOK
<1>3. OwnTaken(t) /\ SameTaken(t)  BY <1>1 DEF TakenInv, SameTaken
<1>4. ~att[t].teardownError  BY <1>1, <1>3 DEF OwnTaken, Leaving, Holding
<1>5. OwnTaken(t)'  BY <1>1, <1>2, <1>3, <1>4, StillTaken DEF Taking
<1> QED  BY <1>1, <1>2, <1>5, TakenStep

LEMMA DriverStepTaken ==
  ASSUME TypeOK, TakenInv, NEW t \in Threads, DriverStep(t) PROVE TakenInv'
<1> USE DEF At, Goto
<1>0. /\ pc[t] \in {"open", "pickup", "loop"} /\ UNCHANGED waitOn
      /\ \A u \in Threads \ {t} : pass'[u] = pass[u]
  BY DEF DriverStep, Open, PickUp, LoopCancelled, LoopApproved, LoopBudget, Resolve, LoopEnd,
         End, InLoop, TypeOK
<1>a. OwnTaken(t) /\ ~att[t].teardownError /\ att[t].cancelTeardown # "busy"
  BY <1>0 DEF TakenInv, OwnTaken, Leaving, Holding, Driving, Taking
<1>1. CASE Resolve(t)
  <2>1. PICK k : att' = [att EXCEPT ![t] = NewAttempt(k)]  BY <1>1 DEF Resolve
  <2>2. pc' = [pc EXCEPT ![t] = "attempt"]  BY <1>1 DEF Resolve
  <2>3. /\ pc'[t] = "attempt" /\ att'[t] = NewAttempt(k)
        /\ \A u \in Threads \ {t} : pc'[u] = pc[u] /\ att'[u] = att[u]
    BY <2>1, <2>2 DEF TypeOK
  <2>4. OwnTaken(t)'  BY <2>3, NewTaken
  <2> QED  BY <1>0, <1>a, <2>3, <2>4, TakenStep
<1>2. CASE ~Resolve(t)
  <2>1. PICK l \in {"pickup", "loop", "finish", "keep_approved"} :
          pc' = [pc EXCEPT ![t] = l] /\ UNCHANGED att
    BY <1>2 DEF DriverStep, Open, PickUp, LoopCancelled, LoopApproved, LoopBudget, LoopEnd, End
  <2>2. pc'[t] = l /\ \A u \in Threads \ {t} : pc'[u] = pc[u]  BY <2>1 DEF TypeOK
  <2>3. OwnTaken(t)'  BY <1>0, <1>a, <2>1, <2>2, StillTaken DEF SameTaken, Taking
  <2> QED  BY <1>0, <1>a, <2>1, <2>2, <2>3, TakenStep
<1> QED  BY <1>1, <1>2

LEMMA EndStepTaken ==
  ASSUME TypeOK, TakenInv, NEW t \in Threads, EndStep(t) PROVE TakenInv'
<1> USE DEF At, Goto
<1>0. /\ pc[t] \in {"after", "keep", "keep_approved", "finish", "finish_second"}
      /\ UNCHANGED <<waitOn, att>> /\ \A u \in Threads \ {t} : pass'[u] = pass[u]
  <2>1. CASE AfterNoResult(t) \/ AfterResult(t) \/ AfterEscaped(t) \/ Keep(t) \/ KeepApproved(t)
    BY <2>1 DEF AfterNoResult, AfterResult, AfterEscaped, Keep, KeepApproved, KeepUnlessCancelled,
                End, InLoop, TypeOK
  <2>2. CASE FinishCancelled(t) \/ FailStep(t) \/ Escalate(t) \/ StopForBudget(t)
             \/ FailUnaccounted(t) \/ Complete(t) \/ FinishSecond(t)
    BY <2>2 DEF FinishCancelled, FailStep, Escalate, StopForBudget, FailUnaccounted, Complete,
                FinishSecond, Ending, Finishes
  <2> QED  BY <2>1, <2>2 DEF EndStep
<1>a. OwnTaken(t) /\ SameTaken(t)  BY <1>0 DEF TakenInv, SameTaken
<1>b. ASSUME NEW l \in {"release", "finish_second", "finish", "keep", "loop"}, pc' = [pc EXCEPT ![t] = l],
             \/ ~att[t].teardownError \/ l \in {"release", "finish_second"}
             \/ l = "finish" /\ pass'[t].end \in {"cancel", "fail"}
      PROVE  TakenInv'
  <2>1. pc'[t] = l /\ \A u \in Threads \ {t} : pc'[u] = pc[u]  BY <1>b DEF TypeOK
  <2>2. OwnTaken(t)'  BY <1>0, <1>a, <1>b, <2>1, StillTaken DEF Taking
  <2> QED  BY <1>0, <1>b, <2>1, <2>2, TakenStep
<1>1. CASE AfterNoResult(t)
  <2>1. PICK how \in {"cancel", "fail"} : End(t, how)  BY <1>1 DEF AfterNoResult
  <2>2. pc' = [pc EXCEPT ![t] = "finish"] /\ pass'[t].end = how
    BY <2>1, EndEffect DEF End, Ends
  <2> QED  BY <1>b, <2>2
<1>2. CASE AfterResult(t) \/ Keep(t) \/ KeepApproved(t)
  <2>1. ~att[t].teardownError
    <3>1. CASE AfterResult(t)  BY <3>1 DEF AfterResult, NoResult
    <3>2. CASE pc[t] \in {"keep", "keep_approved"}
      BY <1>a, <3>2 DEF OwnTaken, Leaving, Holding, Driving
    <3> QED  BY <1>2, <3>1, <3>2 DEF Keep, KeepApproved
  <2>2. \E l \in {"finish", "keep", "loop"} : pc' = [pc EXCEPT ![t] = l]
    BY <1>2 DEF AfterResult, Keep, KeepApproved, KeepUnlessCancelled, End
  <2> QED  BY <1>b, <2>1, <2>2
<1>3. CASE \/ AfterEscaped(t) \/ FinishCancelled(t) \/ FailStep(t) \/ Escalate(t) \/ StopForBudget(t)
           \/ FailUnaccounted(t) \/ Complete(t) \/ FinishSecond(t)
  <2>1. \E l \in {"release", "finish_second"} : pc' = [pc EXCEPT ![t] = l]
    BY <1>3 DEF AfterEscaped, FinishCancelled, FailStep, Escalate, StopForBudget, FailUnaccounted,
                Complete, FinishSecond
  <2> QED  BY <1>b, <2>1
<1> QED  BY <1>1, <1>2, <1>3 DEF EndStep

LEMMA AttemptStepTaken ==
  ASSUME TypeOK, TakenInv, NEW t \in Threads, AttemptStep(t) PROVE TakenInv'
<1> USE DEF At, Goto
<1>0. /\ UNCHANGED <<waitOn, pass>> /\ pc[t] # "cancel_teardown"
  <2>1. CASE BeginAttempt(t) \/ Materialize(t) \/ WorkerUp(t) \/ Invoke(t)
    BY <2>1 DEF BeginAttempt, Materialize, WorkerUp, Invoke, InAttempt
  <2>2. CASE Interact(t)
    <3>1. PICK kind, severity, known, amount : Answer(t, kind, severity, known, amount)
      BY <2>2 DEF Interact
    <3> QED  BY <3>1 DEF Answer, InAttempt
  <2>3. CASE ReadEnvelope(t) \/ ClaimTeardown(t) \/ TeardownWait(t) \/ Teardown(t) \/ Stopped(t)
    BY <2>3 DEF ReadEnvelope, ClaimTeardown, TeardownWait, Teardown, Stopped, InAttempt
  <2> QED  BY <2>1, <2>2, <2>3 DEF AttemptStep
<1>a. OwnTaken(t) /\ att[t] \in Attempts  BY DEF TakenInv, TypeOK
<1>b. ASSUME NEW l \in Driving, pc' = [pc EXCEPT ![t] = l], NEW a, att' = [att EXCEPT ![t] = a]
      PROVE  pc'[t] = l /\ att'[t] = a /\ l # "cancel_teardown"
             /\ \A u \in Threads \ {t} : pc'[u] = pc[u] /\ att'[u] = att[u]
  BY <1>b DEF TypeOK, Driving
<1>c. ASSUME NEW l \in Driving, pc' = [pc EXCEPT ![t] = l], NEW a, att' = [att EXCEPT ![t] = a],
             OwnTaken(t)', att[t].cancelTeardown = "busy" => a.cancelTeardown = "busy"
      PROVE  TakenInv'
  BY <1>0, <1>b, <1>c, TakenStep
<1>d. att' = att => att' = [att EXCEPT ![t] = att[t]]  BY DEF TypeOK
\* With the worker in hand.
<1>e. ASSUME NEW l \in Taking, pc[t] \in Taking, pc' = [pc EXCEPT ![t] = l],
             NEW a, att' = [att EXCEPT ![t] = a],
             a.worker = att[t].worker, a.released = att[t].released, a.outcome # "escaped",
             a.cancelTeardown = att[t].cancelTeardown, a.teardownError = att[t].teardownError
      PROVE  TakenInv'
  <2>0. l \in Driving  BY TakenPlaces
  <2>1. pc'[t] = l /\ att'[t] = a  BY <1>b, <1>e, <2>0
  <2>2. OwnTaken(t)'
    BY <1>a, <1>e, <2>1 DEF OwnTaken, Taking, Leaving, Holding, Driving
  <2> QED  BY <1>c, <1>e, <2>0, <2>2
<1>1. CASE BeginAttempt(t)
  <2>1. PICK l \in {"after", "materialize"} :
          pc' = [pc EXCEPT ![t] = l] /\ att' = att /\ pc[t] = "attempt"
    BY <1>1 DEF BeginAttempt
  <2>2. l \in Driving /\ ~att[t].teardownError /\ SameTaken(t)
    BY <1>a, <2>1 DEF OwnTaken, Leaving, Holding, Driving, SameTaken
  <2>3. pc'[t] = l  BY <2>1 DEF TypeOK
  <2>4. OwnTaken(t)'  BY <1>a, <2>1, <2>2, <2>3, StillTaken DEF Taking
  <2> QED  BY <1>c, <1>d, <2>1, <2>2, <2>4
<1>2. CASE Materialize(t)
  <2>1. pc[t] = "materialize" /\ ~att[t].teardownError /\ ~att[t].released
    BY <1>a, <1>2 DEF Materialize, OwnTaken, Leaving, Holding, Driving
  <2>2. CASE att' = att /\ pc' = [pc EXCEPT ![t] = "after"]
    <3>1. pc'[t] = "after" /\ "after" \in Driving  BY <2>2 DEF TypeOK, Driving
    <3>2. OwnTaken(t)'  BY <1>a, <2>1, <2>2, <3>1, StillTaken DEF Taking, SameTaken
    <3> QED  BY <1>c, <1>d, <2>2, <3>1, <3>2
  <2>3. CASE att' = [att EXCEPT ![t].worker = TRUE] /\ pc' = [pc EXCEPT ![t] = "worker_up"]
    <3> DEFINE a == [att[t] EXCEPT !.worker = TRUE]
    <3>1. att' = [att EXCEPT ![t] = a]  BY <2>3
    <3>2. /\ a.released = att[t].released /\ a.teardownError = att[t].teardownError
          /\ a.cancelTeardown = att[t].cancelTeardown /\ a.outcome = att[t].outcome
      BY <1>a DEF Attempts
    <3> HIDE DEF a
    <3>3. "worker_up" \in Driving  BY DEF Driving
    <3>4. pc'[t] = "worker_up" /\ att'[t] = a  BY <1>b, <2>3, <3>1, <3>3
    <3>5. OwnTaken(t)'  BY <1>a, <2>1, <3>2, <3>4 DEF OwnTaken, Taking, Leaving
    <3> QED  BY <1>c, <2>3, <3>1, <3>2, <3>3, <3>5
  <2> QED  BY <1>2, <2>2, <2>3 DEF Materialize
<1>3. CASE WorkerUp(t)
  <2> DEFINE c == Dispatch("MATERIALIZED", "ready")
             a == [att[t] EXCEPT !.started = TRUE, !.cog = c]
  <2>1. /\ att' = [att EXCEPT ![t] = a] /\ pc' = [pc EXCEPT ![t] = "invoke"] /\ pc[t] \in Taking
    BY <1>3 DEF WorkerUp, Taking
  <2> HIDE DEF c
  <2>2. /\ a.worker = att[t].worker /\ a.released = att[t].released /\ a.outcome = att[t].outcome
        /\ a.cancelTeardown = att[t].cancelTeardown /\ a.teardownError = att[t].teardownError
    BY <1>a DEF Attempts
  <2> HIDE DEF a
  <2>3. "invoke" \in Taking /\ att[t].outcome # "escaped"  BY <1>a DEF Taking, OwnTaken
  <2> QED  BY <1>e, <2>1, <2>2, <2>3
<1>4. CASE Invoke(t)
  <2>0. pc[t] \in Taking /\ {"teardown", "interact"} \subseteq Taking /\ att[t].outcome # "escaped"
    BY <1>4, <1>a DEF Invoke, Taking, OwnTaken
  <2>1. CASE att' = att /\ pc' = [pc EXCEPT ![t] = "teardown"]
    BY <1>d, <1>e, <2>0, <2>1
  <2>2. CASE /\ att' = [att EXCEPT ![t].cog = Dispatch(@, "invoke")]
             /\ pc' = [pc EXCEPT ![t] = "interact"]
    <3> DEFINE c == Dispatch(att[t].cog, "invoke")
               a == [att[t] EXCEPT !.cog = c]
    <3>1. att' = [att EXCEPT ![t] = a]  BY <2>2
    <3> HIDE DEF c
    <3>2. /\ a.worker = att[t].worker /\ a.released = att[t].released /\ a.outcome = att[t].outcome
          /\ a.cancelTeardown = att[t].cancelTeardown /\ a.teardownError = att[t].teardownError
      BY <1>a DEF Attempts
    <3> HIDE DEF a
    <3> QED  BY <1>e, <2>0, <2>2, <3>1, <3>2
  <2> QED  BY <1>4, <2>1, <2>2 DEF Invoke
<1>5. CASE Interact(t)
  <2>1. PICK kind, severity, known, amount : Answer(t, kind, severity, known, amount)
    BY <1>5 DEF Interact
  <2> DEFINE a == [att[t] EXCEPT !.answer = kind, !.severity = severity,
                                 !.known = known, !.amount = amount]
  <2>2. /\ att' = [att EXCEPT ![t] = a] /\ pc' = [pc EXCEPT ![t] = "read_envelope"]
        /\ pc[t] \in Taking /\ "read_envelope" \in Taking /\ att[t].outcome # "escaped"
    BY <1>a, <2>1 DEF Answer, Taking, OwnTaken
  <2>3. /\ a.worker = att[t].worker /\ a.released = att[t].released /\ a.outcome = att[t].outcome
        /\ a.cancelTeardown = att[t].cancelTeardown /\ a.teardownError = att[t].teardownError
    BY <1>a DEF Attempts
  <2> HIDE DEF a
  <2> QED  BY <1>e, <2>2, <2>3
<1>6. CASE ReadEnvelope(t)
  <2> DEFINE o == Outcome(att[t])
             w == att[t].answer \in {"ok", "error"}
             a == [att[t] EXCEPT !.answered = w, !.outcome = o]
  <2>1. /\ att' = [att EXCEPT ![t] = a] /\ pc' = [pc EXCEPT ![t] = "teardown"]
        /\ pc[t] \in Taking /\ "teardown" \in Taking
    BY <1>6 DEF ReadEnvelope, Taking
  <2>2. o # "escaped"  BY DEF Outcome
  <2> HIDE DEF o, w
  <2>3. /\ a.worker = att[t].worker /\ a.released = att[t].released /\ a.outcome = o
        /\ a.cancelTeardown = att[t].cancelTeardown /\ a.teardownError = att[t].teardownError
    BY ZenonT(60), <1>a DEF Attempts
  <2> HIDE DEF a
  <2> QED  BY <1>e, <2>1, <2>2, <2>3
<1>7. CASE ClaimTeardown(t)
  <2> DEFINE c == MovedForTeardown(att[t])
             a == [att[t] EXCEPT !.released = TRUE, !.cog = c]
             l == IF att[t].released THEN "td_wait" ELSE "td_exec"
  <2>1. /\ att' = [att EXCEPT ![t] = a] /\ pc' = [pc EXCEPT ![t] = l] /\ pc[t] = "teardown"
    BY <1>7 DEF ClaimTeardown
  <2> HIDE DEF c
  <2>2. /\ a.released /\ a.outcome = att[t].outcome
        /\ a.cancelTeardown = att[t].cancelTeardown /\ a.teardownError = att[t].teardownError
    BY <1>a DEF Attempts
  <2> HIDE DEF a
  <2>3. l \in Driving  BY DEF Driving
  <2>4. /\ att[t].released => l = "td_wait"
        /\ ~att[t].released => l = "td_exec"
    OBVIOUS
  <2>5. pc'[t] = l /\ att'[t] = a
    <3> HIDE DEF l
    <3> QED  BY <1>b, <2>1, <2>3
  <2>6. /\ ~att[t].teardownError /\ att[t].outcome # "escaped"
        /\ att[t].released <=> att[t].cancelTeardown # "none"
    BY <1>a, <2>1 DEF OwnTaken, Taking, Leaving, Holding, Driving
  <2>7. OwnTaken(t)'
    BY <2>2, <2>5, <2>6 DEF OwnTaken, Taking
  <2> QED  BY <1>c, <2>1, <2>2, <2>3, <2>7
<1>8. CASE TeardownWait(t)
  <2>1. PICK l \in {"td_exec", "stopped"} :
          /\ att' = att /\ pc' = [pc EXCEPT ![t] = l] /\ pc[t] = "td_wait"
          /\ att[t].cancelTeardown # "busy"
    BY <1>8 DEF TeardownWait
  <2>2. l \in Driving /\ ~att[t].teardownError /\ att[t].released
    BY <1>a, <2>1 DEF OwnTaken, Leaving, Holding, Driving
  <2>3. pc'[t] = l  BY <2>1 DEF TypeOK
  <2>4. OwnTaken(t)'  BY <1>a, <2>1, <2>2, <2>3 DEF OwnTaken, Taking
  <2> QED  BY <1>c, <1>d, <2>1, <2>2, <2>4
<1>9. CASE Teardown(t)
  <2> DEFINE c == MovedByFailure(att[t])
             a == [att[t] EXCEPT !.teardownError = TRUE, !.cog = c]
  <2>1. /\ att' = [att EXCEPT ![t] = att[t]] \/ att' = [att EXCEPT ![t] = a]
        /\ pc' = [pc EXCEPT ![t] = "stopped"] /\ pc[t] = "td_exec"
    BY <1>9, <1>d DEF Teardown
  <2> HIDE DEF c
  <2>2. /\ a.released = att[t].released /\ a.outcome = att[t].outcome /\ a.worker = att[t].worker
        /\ a.cancelTeardown = att[t].cancelTeardown
    BY <1>a DEF Attempts
  <2> HIDE DEF a
  <2>3. PICK b \in {att[t], a} : att' = [att EXCEPT ![t] = b]  BY <2>1
  <2>4. "stopped" \in Driving  BY DEF Driving
  <2>5. pc'[t] = "stopped" /\ att'[t] = b  BY <1>b, <2>1, <2>3, <2>4
  <2>6. /\ b.released = att[t].released /\ b.outcome = att[t].outcome /\ b.worker = att[t].worker
        /\ b.cancelTeardown = att[t].cancelTeardown
    BY <2>2
  <2>7. OwnTaken(t)'  BY <1>a, <2>1, <2>5, <2>6 DEF OwnTaken, Taking, Leaving
  <2> QED  BY <1>c, <2>1, <2>3, <2>4, <2>6, <2>7
<1>10. CASE Stopped(t)
  <2>1. att' = att /\ pc' = [pc EXCEPT ![t] = "after"] /\ pc[t] = "stopped"
    BY <1>10 DEF Stopped
  <2>2. pc'[t] = "after" /\ "after" \in Driving  BY <2>1 DEF TypeOK, Driving
  <2>3. OwnTaken(t)'  BY <1>a, <2>1, <2>2, StillTaken DEF Taking, SameTaken
  <2> QED  BY <1>c, <1>d, <2>1, <2>2, <2>3
<1> QED  BY <1>1, <1>2, <1>3, <1>4, <1>5, <1>6, <1>7, <1>8, <1>9, <1>10 DEF AttemptStep

LEMMA NoWriteFails ==
  ASSUME TypeOK, MaxTrackFailures = 0, NEW t \in Threads PROVE ~FailedWrite(t)
<1>1. host.failures \in Nat  BY DEF TypeOK, Hosts
<1>2. ~CanFail  BY <1>1 DEF CanFail
<1> QED  BY <1>2 DEF FailedWrite, WorkerWriteFails, ReadyWriteFails, UsageWriteFails,
                     HandlerWriteFails, DriverWriteFails, WriteFailed

LEMMA NextTaken ==
  ASSUME TypeOK, TakenInv, MaxTrackFailures = 0, [Next]_vars PROVE TakenInv'
<1>1. ASSUME NEW t \in Threads, ThreadStep(t) \/ Begin(t) \/ StartHost(t) PROVE TakenInv'
  BY <1>1, ClaimStepTaken, EnterStepTaken, DriverStepTaken, AttemptStepTaken, EndStepTaken
     DEF ThreadStep
<1>2. CASE Crash
  <2>1. /\ pc' = [t \in Threads |-> "idle"] /\ att' = [t \in Threads |-> NewAttempt(NoKey)]
    BY <1>2 DEF Crash
  <2>2. ASSUME NEW u \in Threads PROVE OwnTaken(u)' /\ CancelAt(u)'
    BY <2>1, NewTaken DEF CancelAt
  <2> QED  BY <2>2 DEF TakenInv
<1>3. CASE ApiSubmit \/ DeadlinePasses \/ Boot \/ AtRest \/ UNCHANGED vars
  <2>1. UNCHANGED <<pc, att, pass, waitOn>>  BY <1>3 DEF ApiSubmit, DeadlinePasses, Boot, AtRest, vars
  <2> QED  BY <2>1 DEF TakenInv, OwnTaken, CancelAt
<1> QED  BY <1>1, <1>2, <1>3, NoWriteFails DEF Next

--------------------------------------------------------------------------
(***************************************************************************)
(* The workers, while no Track write raises.  Every worker alive is the    *)
(* one in the driver's hands or one whose failed teardown is recorded, and *)
(* the number of one that is not in hand is past: no later attempt has it. *)
(***************************************************************************)
Past(T, w) ==
  /\ w \in T.leaked
  /\ \/ w[2] < Number(T, w[1])
     \/ T.state = "CANCELLED"
     \/ T.state = "FAILED" /\ w[2] <= Number(T, w[1])

WorkerAt(t) ==
  /\ pc[t] \in Live => \A w \in workers : w = att[t].key \/ Past(trk, w)
  /\ pc[t] \in Live /\ att[t].cancelTeardown = "ok" => att[t].key \notin workers
  /\ pc[t] \in {"stopped", "after", "finish"} =>
       \A w \in workers : Past(trk, w) \/ (att[t].teardownError /\ w = att[t].key)
  /\ pc[t] = "finish_second" =>
       \A w \in workers : /\ w \in trk.leaked
                          /\ Past(trk, w) \/ (att[t].teardownError /\ w = att[t].key)
  /\ pc[t] \in {"finish", "finish_second"} /\ att[t].teardownError =>
       att[t].key[2] <= Number(trk, att[t].key[1])

Settled == \A w \in workers : Past(trk, w)

WorkerInv ==
  /\ \A t \in Threads : WorkerAt(t)
  /\ (\A t \in Threads : pc[t] \notin Live \cup Leaving) => Settled

\* A number is past for good.
LEMMA PastKept ==
  ASSUME NEW T \in Tracks, NEW U, NEW w \in Keys, Past(T, w),
         U.esc = T.esc, U.retries = T.retries, T.leaked \subseteq U.leaked,
         U.state = T.state \/ T.state \notin {"FAILED", "CANCELLED"}
  PROVE  Past(U, w)
  BY DEF Past, Number

LEMMA PastEscalated ==
  ASSUME NEW T \in Tracks, T.state = "RUNNING", NEW k \in Keys, NEW w \in Keys, Past(T, w)
  PROVE  Past(GateEscalated(T, k), w)
<1> DEFINE U == GateEscalated(T, k)
<1>1. U.esc = Bump(T.esc, k[1]) /\ U.retries = T.retries /\ U.leaked = T.leaked
  BY GateEscalatedFields
<1> HIDE DEF U
<1>2. k[1] \in Steps /\ w[1] \in Steps /\ w[2] \in Nat  BY NoKeyIsNone
<1>3. /\ T.esc \in [Steps -> Nat] /\ T.retries \in Nat  BY PerStepFields
<1>4. U.esc[w[1]] = T.esc[w[1]] \/ U.esc[w[1]] = T.esc[w[1]] + 1  BY <1>1, <1>2, <1>3, BumpAt
<1>5. T.esc[w[1]] \in Nat  BY <1>2, <1>3
<1>6. w \in T.leaked /\ w[2] < Number(T, w[1])  BY DEF Past
<1>7. w[2] < Number(U, w[1])  BY <1>1, <1>2, <1>3, <1>4, <1>5, <1>6 DEF Number
<1> QED  BY <1>1, <1>6, <1>7 DEF Past, U

LEMMA PastRetried ==
  ASSUME NEW T \in Tracks, T.state \in {"FAILED", "INTERRUPTED"}, NEW w \in Keys, Past(T, w)
  PROVE  Past(RetryRequested(T), w)
<1> DEFINE U == RetryRequested(T)
<1>1. /\ U.esc = T.esc /\ U.retries \in Nat /\ U.retries >= T.retries /\ U.leaked = T.leaked
      /\ T.state = "FAILED" => U.retries = T.retries + 1
  BY RetryRequestedFields
<1> HIDE DEF U
<1>2. w[1] \in Steps /\ w[2] \in Nat  BY NoKeyIsNone
<1>3. T.esc[w[1]] \in Nat /\ T.retries \in Nat  BY <1>2, PerStepFields
<1>4. w[2] < Number(U, w[1])  BY <1>1, <1>2, <1>3 DEF Past, Number
<1> QED  BY <1>1, <1>4 DEF Past, U

LEMMA WorkerPlaces ==
  /\ Live \cup Leaving \subseteq Driving \ {"open", "pickup"}
  /\ {"stopped", "after", "finish", "finish_second"} \subseteq Leaving
  /\ Live \cap Leaving = {}
  BY DEF Live, Taking, Leaving, Driving

LEMMA AwayWorker ==
  ASSUME NEW u \in Threads, pc'[u] \notin Live \cup Leaving PROVE WorkerAt(u)'
  BY DEF WorkerAt, Leaving

LEMMA SettledAt ==
  ASSUME SyncInv, WorkerInv, NEW t \in Threads, pc[t] \in Holding, pc[t] \notin Live \cup Leaving
  PROVE  Settled
<1>1. ASSUME NEW u \in Threads \ {t} PROVE pc[u] \notin Live \cup Leaving
  <2>1. pc[u] \notin Holding  BY DEF SyncInv, SyncAt
  <2> QED  BY <2>1, WorkerPlaces, Places
<1> QED  BY <1>1 DEF WorkerInv

\* The holder's own step.
LEMMA HolderWorkers ==
  ASSUME SyncInv, NEW t \in Threads, pc[t] \in Holding,
         \A u \in Threads \ {t} : pc'[u] = pc[u],
         WorkerAt(t)', pc'[t] \notin Live \cup Leaving => Settled'
  PROVE  WorkerInv'
<1>1. ASSUME NEW u \in Threads \ {t} PROVE WorkerAt(u)'
  <2>1. pc[u] \notin Holding  BY DEF SyncInv, SyncAt
  <2>2. pc'[u] \notin Live \cup Leaving  BY <2>1, WorkerPlaces, Places
  <2> QED  BY <2>2, AwayWorker
<1>2. (\A u \in Threads : pc'[u] \notin Live \cup Leaving) => Settled'  OBVIOUS
<1> QED  BY <1>1, <1>2 DEF WorkerInv

\* The holder goes from a place without a worker to another, or to the run's end.
LEMMA SettledStep ==
  ASSUME SyncInv, NEW t \in Threads, pc[t] \in Holding, Settled',
         \A u \in Threads \ {t} : pc'[u] = pc[u],
         \/ pc'[t] \notin Live \cup Leaving
         \/ pc'[t] \in {"after", "finish"} /\ ~att'[t].teardownError
  PROVE  WorkerInv'
<1>1. CASE pc'[t] \notin Live \cup Leaving  BY <1>1, AwayWorker, HolderWorkers
<1>2. CASE pc'[t] \in {"after", "finish"} /\ ~att'[t].teardownError
  <2>1. pc'[t] \notin Live /\ pc'[t] \in Leaving  BY <1>2, WorkerPlaces
  <2>2. WorkerAt(t)'  BY <1>2, <2>1 DEF WorkerAt, Settled
  <2> QED  BY <2>1, <2>2, HolderWorkers
<1> QED  BY <1>1, <1>2

\* A step that leaves the Track alone and moves nobody near a worker.
SameWorker(u) ==
  /\ pc'[u] = pc[u] /\ att'[u].key = att[u].key /\ att'[u].teardownError = att[u].teardownError
  /\ att'[u].cancelTeardown = "ok" => att[u].cancelTeardown = "ok" \/ att[u].key \notin workers'

LEMMA BystanderWorkers ==
  ASSUME WorkerInv, UNCHANGED trk, workers' \subseteq workers,
         \A u \in Threads : \/ SameWorker(u)
                            \/ pc[u] \notin Live \cup Leaving /\ pc'[u] \notin Live \cup Leaving
  PROVE  WorkerInv'
<1>1. ASSUME NEW u \in Threads PROVE WorkerAt(u)'
  <2>1. CASE pc'[u] \notin Live \cup Leaving  BY <2>1, AwayWorker
  <2>2. CASE SameWorker(u)
    <3>1. WorkerAt(u)  BY DEF WorkerInv
    <3> QED  BY <2>2, <3>1 DEF WorkerAt, SameWorker, Past, Number
  <2> QED  BY <2>1, <2>2
<1>2. ASSUME \A u \in Threads : pc'[u] \notin Live \cup Leaving PROVE Settled'
  <2>1. \A u \in Threads : pc[u] \notin Live \cup Leaving  BY <1>2 DEF SameWorker
  <2> QED  BY <2>1 DEF WorkerInv, Settled, Past, Number
<1> QED  BY <1>1, <1>2 DEF WorkerInv

LEMMA InitWorkers == Init => WorkerInv
<1> SUFFICES ASSUME Init PROVE WorkerInv  OBVIOUS
<1>1. \A t \in Threads : pc[t] \notin Live \cup Leaving  BY DEF Init, Live, Taking, Leaving
<1>2. \A t \in Threads : WorkerAt(t)  BY <1>1 DEF WorkerAt, Leaving
<1> QED  BY <1>2 DEF WorkerInv, Settled, Init

LEMMA CancelTeardownWorkers ==
  ASSUME TypeOK, TakenInv, WorkerInv, NEW t \in Threads, AcceptCancel(t) \/ CancelTeardown(t)
  PROVE  WorkerInv'
<1> USE DEF At, Goto
<1>h. PICK h : h = waitOn[t]  OBVIOUS
<1>0. /\ UNCHANGED trk /\ workers' \subseteq workers
      /\ pc[t] \notin Live \cup Leaving
      /\ pc' \in {[pc EXCEPT ![t] = "cancel_teardown"], [pc EXCEPT ![t] = "idle"]}
  BY DEF AcceptCancel, CancelTeardown, Live, Taking, Leaving
<1>1. /\ pc'[t] \notin Live \cup Leaving /\ \A u \in Threads \ {t} : pc'[u] = pc[u]
  BY <1>0 DEF TypeOK, Live, Taking, Leaving
<1>2. \A u \in Threads : SameAttempt(u)  BY CancelSame
<1>3. ASSUME NEW u \in Threads \ {t}, att'[u].cancelTeardown = "ok", att[u].cancelTeardown # "ok"
      PROVE  att[u].key \notin workers'
  <2>1. CASE AcceptCancel(t)
    <3>1. h \in Threads /\ att[h] \in Attempts  BY <1>h, <2>1 DEF AcceptCancel, TypeOK
    <3> DEFINE b == [att[h] EXCEPT !.released = TRUE, !.cancelTeardown = "busy"]
    <3>2. att' = att \/ att' = [att EXCEPT ![h] = b]  BY <1>h, <2>1 DEF AcceptCancel
    <3>3. b.cancelTeardown = "busy"  BY <3>1 DEF Attempts
    <3> HIDE DEF b
    <3>4. att'[u] = att[u] \/ att'[u] = b  BY <3>1, <3>2 DEF TypeOK
    <3> QED  BY <1>3, <3>3, <3>4
  <2>2. CASE CancelTeardown(t)
    <3>1. h \in Threads /\ att[h] \in Attempts
      BY <1>h, <2>2 DEF CancelTeardown, TakenInv, CancelAt, TypeOK
    <3>2. PICK x \in {"ok", "failed"} :
            /\ att' = [att EXCEPT ![h].cancelTeardown = x]
            /\ x = "ok" => workers' = workers \ {att[h].key}
      BY <1>h, <2>2 DEF CancelTeardown
    <3> DEFINE b == [att[h] EXCEPT !.cancelTeardown = x]
    <3>3. att' = [att EXCEPT ![h] = b]  BY <3>2
    <3>4. b.cancelTeardown = x  BY <3>1 DEF Attempts
    <3> HIDE DEF b
    <3>5. att'[u] = IF u = h THEN b ELSE att[u]  BY <3>1, <3>3 DEF TypeOK
    <3> QED  BY <1>3, <3>2, <3>4, <3>5
  <2> QED  BY <2>1, <2>2
<1>4. ASSUME NEW u \in Threads \ {t} PROVE SameWorker(u)
  BY <1>1, <1>2, <1>3 DEF SameWorker, SameAttempt
<1> QED  BY <1>0, <1>1, <1>4, BystanderWorkers

LEMMA ClaimStepWorkers ==
  ASSUME TypeOK, TakenInv, WorkerInv, NEW t \in Threads,
         ClaimStep(t) \/ Begin(t) \/ StartHost(t) \/ Read(t)
  PROVE  WorkerInv'
<1> USE DEF At, Goto
<1>1. CASE AcceptCancel(t) \/ CancelTeardown(t)  BY <1>1, CancelTeardownWorkers
<1>2. CASE ~(AcceptCancel(t) \/ CancelTeardown(t))
  <2>0. UNCHANGED <<trk, workers>>
    BY <1>2 DEF ClaimStep, Acquire, Busy, WaitFinished, WaitAccepting, Status,
                Release, LetGo, Begin, BeginCall, StartHost, Read
  <2>1. \A u \in Threads \ {t} : att'[u] = att[u]
    BY <1>2 DEF ClaimStep, Acquire, Busy, WaitFinished, WaitAccepting, Status,
                Release, LetGo, Begin, BeginCall, StartHost, Read, TypeOK
  <2>2. PICK l \in {"read", "wait", "idle", "acquire", "status", "let_go", "enter"} :
          pc' = [pc EXCEPT ![t] = l]
    BY <1>2 DEF ClaimStep, Acquire, Busy, WaitFinished, WaitAccepting, Status,
                Release, LetGo, Begin, BeginCall, StartHost, Read
  <2>3. pc[t] \in {"idle", "acquire", "wait", "status", "release", "let_go", "read"}
    BY <1>2 DEF ClaimStep, Acquire, Busy, WaitFinished, WaitAccepting, Status,
                Release, LetGo, Begin, BeginCall, StartHost, Read
  <2>4. /\ pc[t] \notin Live \cup Leaving /\ pc'[t] \notin Live \cup Leaving
        /\ \A u \in Threads \ {t} : pc'[u] = pc[u]
    BY <2>2, <2>3 DEF TypeOK, Live, Taking, Leaving
  <2>5. \A u \in Threads \ {t} : SameWorker(u)  BY <2>1, <2>4 DEF SameWorker
  <2> QED  BY <2>0, <2>4, <2>5, BystanderWorkers
<1> QED  BY <1>1, <1>2

\* The Track is written where no worker is in hand.
LEMMA SettledKept ==
  ASSUME TypeOK, Settled, UNCHANGED workers,
         trk'.esc = trk.esc, trk'.retries = trk.retries, trk.leaked \subseteq trk'.leaked,
         trk'.state = trk.state \/ trk.state \notin {"FAILED", "CANCELLED"}
  PROVE  Settled'
<1>1. trk \in Tracks /\ workers \subseteq Keys  BY DEF TypeOK
<1>2. ASSUME NEW w \in workers PROVE Past(trk', w)  BY <1>1, PastKept DEF Settled
<1> QED  BY <1>2 DEF Settled

LEMMA EnterStepWorkers ==
  ASSUME TypeInv, SyncInv, TakenInv, WorkerInv, NEW t \in Threads, EnterStep(t) PROVE WorkerInv'
<1> USE DEF At, Goto, Enters
<1>0. TypeOK /\ SyncAt(t) /\ KeyAt(t) /\ trk \in Tracks /\ workers \subseteq Keys
  BY DEF TypeInv, KeyInv, TypeOK, SyncInv
<1>1. CASE Read(t)  BY <1>0, <1>1, ClaimStepWorkers
<1>2. CASE ~Read(t)
  <2>1. /\ pc[t] = "enter" /\ UNCHANGED workers
        /\ pc' \in {[pc EXCEPT ![t] = "open"], [pc EXCEPT ![t] = "release"]}
    BY <1>2 DEF EnterStep, EnterSubmit, EnterRetry, EnterDecide, EnterCancel, EnterStart, Entered
  <2>2. /\ pc[t] \in Holding /\ pc[t] \notin Live \cup Leaving
        /\ pc'[t] \notin Live \cup Leaving /\ \A u \in Threads \ {t} : pc'[u] = pc[u]
    BY <1>0, <2>1 DEF TypeOK, Holding, Live, Taking, Leaving
  <2>3. Settled  BY <2>2, SettledAt
  <2>4. /\ snap[t].state # "NONE" => snap[t] = trk
        /\ snap[t].state = "NONE" /\ trk.state = "NONE" => snap[t] = trk
    BY <1>0, <2>1 DEF SyncAt
  <2> DEFINE k == call[t].named
  <2>5. \/ trk' = trk
        \/ trk.state = "NONE" /\ trk' = OpSubmitted(trk)
        \/ trk.state \in {"FAILED", "INTERRUPTED"} /\ trk' = RetryRequested(trk)
        \/ /\ trk.state = "WAITING_AT_GATE" /\ k \in Keys
           /\ trk' \in {Approved(trk, k), Rejected(trk, k), SentBack(trk, k), RevisionsExhausted(trk, k)}
        \/ /\ trk.state \in {"SUBMITTED", "RUNNING", "WAITING_AT_GATE"}
           /\ trk' \in {RunCancelled(trk), RunInterrupted(trk)}
    <3>1. CASE EnterSubmit(t)  BY <3>1 DEF EnterSubmit, Append
    <3>2. CASE EnterRetry(t)
      <4>1. Retriable(snap[t]) => snap[t].state \in {"FAILED", "INTERRUPTED"}
        BY DEF Retriable, Accepts, Ended, Edges
      <4> QED  BY <2>4, <3>2, <4>1 DEF EnterRetry, Append
    <3>3. CASE EnterDecide(t)
      <4>1. k \in Keys  BY <1>0, <3>3 DEF EnterDecide, KeyAt
      <4>2. Decidable(snap[t], k) => trk.state = "WAITING_AT_GATE"  BY <2>4 DEF Decidable
      <4>3. \/ trk' = trk
            \/ /\ Decidable(snap[t], k)
               /\ trk' \in {Approved(trk, k), Rejected(trk, k), SentBack(trk, k),
                            RevisionsExhausted(trk, k)}
        BY <3>3 DEF EnterDecide, Append
      <4> QED  BY <4>1, <4>2, <4>3
    <3>4. CASE EnterCancel(t)
      <4>1. Accepts(snap[t].state, "cancel") =>
              snap[t].state \in {"SUBMITTED", "RUNNING", "WAITING_AT_GATE"}
        BY DEF Accepts, Edges
      <4> QED  BY <2>4, <3>4, <4>1 DEF EnterCancel, Append
    <3>5. CASE EnterStart(t)  BY <2>4, <3>5 DEF EnterStart, Append
    <3> QED  BY <1>2, <3>1, <3>2, <3>3, <3>4, <3>5 DEF EnterStep
  <2> HIDE DEF k
  <2>6. CASE trk.state \in {"FAILED", "INTERRUPTED"} /\ trk' = RetryRequested(trk)
    <3>1. ASSUME NEW w \in workers PROVE Past(trk', w)
      BY <1>0, <2>3, <2>6, PastRetried DEF Settled
    <3>2. Settled'  BY <2>1, <3>1 DEF Settled
    <3> QED  BY <2>2, <3>2, SettledStep
  <2>7. CASE ~(trk.state \in {"FAILED", "INTERRUPTED"} /\ trk' = RetryRequested(trk))
    <3>1. /\ trk'.esc = trk.esc /\ trk'.retries = trk.retries /\ trk'.leaked = trk.leaked
          /\ trk' = trk \/ trk.state \notin {"FAILED", "CANCELLED"}
      <4>1. CASE trk' = trk  BY <4>1
      <4>2. CASE trk.state = "NONE" /\ trk' = OpSubmitted(trk)
        BY <1>0, <4>2, OpSubmittedFields DEF SameGates
      <4>3. CASE /\ trk.state = "WAITING_AT_GATE" /\ k \in Keys
                 /\ trk' \in {Approved(trk, k), Rejected(trk, k), SentBack(trk, k), RevisionsExhausted(trk, k)}
        BY <1>0, <4>3, ApprovedFields, RejectedFields, SentBackFields, RevisionsExhaustedFields
           DEF SameGates
      <4>4. CASE /\ trk.state \in {"SUBMITTED", "RUNNING", "WAITING_AT_GATE"}
                 /\ trk' \in {RunCancelled(trk), RunInterrupted(trk)}
        BY <1>0, <4>4, RunCancelledFields, EndFields DEF SameGates
      <4> QED  BY <2>5, <2>7, <4>1, <4>2, <4>3, <4>4
    <3>2. Settled'  BY <1>0, <2>1, <2>3, <3>1, SettledKept
    <3> QED  BY <2>2, <3>2, SettledStep
  <2> QED  BY <2>6, <2>7
<1> QED  BY <1>1, <1>2

LEMMA DriverStepWorkers ==
  ASSUME TypeInv, SyncInv, TakenInv, WorkerInv, NEW t \in Threads, DriverStep(t) PROVE WorkerInv'
<1> USE DEF At, Goto
<1>0. /\ pc[t] \in {"open", "pickup", "loop"} /\ UNCHANGED workers
  BY DEF DriverStep, Open, PickUp, LoopCancelled, LoopApproved, LoopBudget, Resolve, LoopEnd,
         End, InLoop
<1>1. /\ pc[t] \in Driving /\ pc[t] \in Holding /\ pc[t] \notin Live \cup Leaving
  BY <1>0 DEF Driving, Holding, Live, Taking, Leaving
<1>2. TypeOK /\ snap[t] = trk /\ trk \in Tracks /\ Settled /\ SyncAt(t)  BY <1>1, Drives, SettledAt
<1>3. ~att[t].teardownError /\ ~att'[t].teardownError
  <2>1. ~att[t].teardownError  BY <1>0, <1>1 DEF TakenInv, OwnTaken, Leaving
  <2>2. att' = att \/ \E k : att' = [att EXCEPT ![t] = NewAttempt(k)]
    BY DEF DriverStep, Open, PickUp, LoopCancelled, LoopApproved, LoopBudget, Resolve, LoopEnd,
           End, InLoop
  <2> QED  BY <1>2, <2>1, <2>2, NewAttemptFields DEF TypeOK
<1>4. /\ trk'.esc = trk.esc /\ trk'.retries = trk.retries /\ trk'.leaked = trk.leaked
      /\ trk' = trk \/ trk.state = "SUBMITTED"
  <2>1. trk' = trk \/ (trk.state = "SUBMITTED" /\ trk' = RunPickedUp(trk))
    BY <1>2 DEF DriverStep, Open, PickUp, LoopCancelled, LoopApproved, LoopBudget, Resolve, LoopEnd,
                End, InLoop, Append
  <2> QED  BY <1>2, <2>1, RunPickedUpFields DEF SameGates
<1>5. Settled'  BY <1>0, <1>2, <1>4, SettledKept
<1>6. PICK l \in {"pickup", "loop", "finish", "keep_approved", "attempt"} : pc' = [pc EXCEPT ![t] = l]
  BY DEF DriverStep, Open, PickUp, LoopCancelled, LoopApproved, LoopBudget, Resolve, LoopEnd, End
<1>7. /\ pc'[t] = l /\ \A u \in Threads \ {t} : pc'[u] = pc[u]  BY <1>2, <1>6 DEF TypeOK
<1>8. pc'[t] \notin Live \cup Leaving \/ pc'[t] = "finish"  BY <1>7 DEF Live, Taking, Leaving
<1> QED  BY <1>1, <1>3, <1>5, <1>7, <1>8, SettledStep

\* The driver works on with the worker in hand.
LEMMA InHandWorkers ==
  ASSUME TypeInv, SyncInv, WorkerInv, NEW t \in Threads, pc[t] \in Live, pc'[t] \in Live,
         \A u \in Threads \ {t} : pc'[u] = pc[u], UNCHANGED workers,
         att'[t].key = att[t].key, att'[t].cancelTeardown = att[t].cancelTeardown,
         trk'.esc = trk.esc, trk'.retries = trk.retries, trk'.leaked = trk.leaked
  PROVE  WorkerInv'
<1>1. /\ pc[t] \in Holding /\ TypeOK /\ trk \in Tracks /\ trk.state = "RUNNING"
      /\ workers \subseteq Keys
  BY WorkerPlaces, Drives DEF TypeOK
<1>2. WorkerAt(t)  BY DEF WorkerInv
<1>3. ASSUME NEW w \in workers, w # att[t].key PROVE Past(trk', w)
  BY <1>1, <1>2, <1>3, PastKept DEF WorkerAt
<1>4. WorkerAt(t)'  BY <1>2, <1>3, WorkerPlaces DEF WorkerAt
<1> QED  BY <1>1, <1>4, HolderWorkers

LEMMA AttemptStepWorkers ==
  ASSUME TypeInv, SyncInv, TakenInv, WorkerInv, NEW t \in Threads, AttemptStep(t) PROVE WorkerInv'
<1> USE DEF At, Goto
<1>0. pc[t] \in Attempting /\ pc[t] \in Driving \ {"open", "pickup"}
  <2>1. CASE BeginAttempt(t) \/ Materialize(t) \/ WorkerUp(t) \/ Invoke(t)
    BY <2>1 DEF BeginAttempt, Materialize, WorkerUp, Invoke, Attempting, Driving
  <2>2. CASE Interact(t)
    <3>1. PICK kind, severity, known, amount : Answer(t, kind, severity, known, amount)
      BY <2>2 DEF Interact
    <3> QED  BY <3>1 DEF Answer, Attempting, Driving
  <2>3. CASE ReadEnvelope(t) \/ ClaimTeardown(t) \/ TeardownWait(t) \/ Teardown(t) \/ Stopped(t)
    BY <2>3 DEF ReadEnvelope, ClaimTeardown, TeardownWait, Teardown, Stopped, Attempting, Driving
  <2> QED  BY <2>1, <2>2, <2>3 DEF AttemptStep
<1>a. /\ TypeOK /\ pc[t] \in Holding /\ trk \in Tracks /\ trk.state = "RUNNING" /\ HasKey(t)
      /\ att[t] \in Attempts /\ workers \subseteq Keys /\ OwnTaken(t) /\ WorkerAt(t)
  BY <1>0, Drives DEF KeyAt, TypeOK, TakenInv, WorkerInv
\* The shape of a step with the worker in hand.
<1>b. ASSUME NEW l \in Live, pc[t] \in Live, pc' = [pc EXCEPT ![t] = l], UNCHANGED workers,
             NEW a, att' = [att EXCEPT ![t] = a], a.key = att[t].key,
             a.cancelTeardown = att[t].cancelTeardown,
             trk' = trk \/ (SameGates(trk, trk') /\ trk'.leaked = trk.leaked)
      PROVE  WorkerInv'
  <2>1. pc'[t] = l /\ att'[t] = a /\ \A u \in Threads \ {t} : pc'[u] = pc[u]
    BY <1>a, <1>b DEF TypeOK
  <2>2. trk'.esc = trk.esc /\ trk'.retries = trk.retries /\ trk'.leaked = trk.leaked
    BY <1>b DEF SameGates
  <2> QED  BY <1>b, <2>1, <2>2, InHandWorkers
<1>d. att' = att => att' = [att EXCEPT ![t] = att[t]]  BY <1>a DEF TypeOK
<1>1. CASE BeginAttempt(t)
  <2>1. PICK l \in {"after", "materialize"} :
          pc' = [pc EXCEPT ![t] = l] /\ UNCHANGED <<trk, att, workers>> /\ pc[t] = "attempt"
    BY <1>1 DEF BeginAttempt
  <2>2. /\ pc[t] \notin Live \cup Leaving /\ ~att[t].teardownError
    BY <1>a, <2>1 DEF Live, Taking, Leaving, OwnTaken
  <2>3. Settled  BY <1>a, <2>2, SettledAt
  <2>4. Settled'  BY <2>1, <2>3 DEF Settled, Past, Number
  <2>5. pc'[t] = l /\ \A u \in Threads \ {t} : pc'[u] = pc[u]  BY <1>a, <2>1 DEF TypeOK
  <2>6. pc'[t] \notin Live \cup Leaving \/ pc'[t] = "after"  BY <2>5 DEF Live, Taking, Leaving
  <2> QED  BY <1>a, <2>1, <2>2, <2>4, <2>5, <2>6, SettledStep
<1>2. CASE Materialize(t)
  <2>1. pc[t] = "materialize" /\ UNCHANGED trk  BY <1>2 DEF Materialize
  <2>2. /\ pc[t] \notin Live \cup Leaving /\ ~att[t].teardownError /\ ~att[t].released
        /\ att[t].cancelTeardown = "none"
    BY <1>a, <2>1 DEF Live, Taking, Leaving, OwnTaken
  <2>3. Settled  BY <1>a, <2>2, SettledAt
  <2>4. CASE att' = att /\ UNCHANGED workers /\ pc' = [pc EXCEPT ![t] = "after"]
    <3>1. pc'[t] = "after" /\ \A u \in Threads \ {t} : pc'[u] = pc[u]  BY <1>a, <2>4 DEF TypeOK
    <3>2. Settled'  BY <2>1, <2>3, <2>4 DEF Settled, Past, Number
    <3> QED  BY <1>a, <2>2, <2>4, <3>1, <3>2, SettledStep
  <2>5. CASE /\ att' = [att EXCEPT ![t].worker = TRUE] /\ pc' = [pc EXCEPT ![t] = "worker_up"]
             /\ workers' = workers \cup {att[t].key}
    <3> DEFINE a == [att[t] EXCEPT !.worker = TRUE]
    <3>1. att' = [att EXCEPT ![t] = a]  BY <2>5
    <3>2. a.key = att[t].key /\ a.cancelTeardown = att[t].cancelTeardown  BY <1>a DEF Attempts
    <3> HIDE DEF a
    <3>3. pc'[t] = "worker_up" /\ att'[t] = a /\ \A u \in Threads \ {t} : pc'[u] = pc[u]
      BY <1>a, <2>5, <3>1 DEF TypeOK
    <3>4. pc'[t] \in Live  BY <3>3 DEF Live, Taking
    <3>5. \A w \in workers' : w = att'[t].key \/ Past(trk', w)
      BY <2>1, <2>3, <2>5, <3>2, <3>3 DEF Settled
    <3>6. WorkerAt(t)'  BY <2>2, <3>2, <3>3, <3>5 DEF WorkerAt
    <3> QED  BY <1>a, <3>3, <3>4, <3>6, HolderWorkers
  <2> QED  BY <1>2, <2>4, <2>5 DEF Materialize
<1>3. CASE WorkerUp(t)
  <2> DEFINE c == Dispatch("MATERIALIZED", "ready")
             a == [att[t] EXCEPT !.started = TRUE, !.cog = c]
  <2>1. /\ att' = [att EXCEPT ![t] = a] /\ pc' = [pc EXCEPT ![t] = "invoke"] /\ pc[t] = "worker_up"
        /\ trk' = WorkerStarted(trk, att[t].key) /\ UNCHANGED workers
    BY <1>3 DEF WorkerUp, Append
  <2> HIDE DEF c
  <2>2. a.key = att[t].key /\ a.cancelTeardown = att[t].cancelTeardown  BY <1>a DEF Attempts
  <2> HIDE DEF a
  <2>3. {"worker_up", "invoke"} \subseteq Live  BY DEF Live, Taking
  <2>4. SameGates(trk, trk') /\ trk'.leaked = trk.leaked  BY <1>a, <2>1, WorkerFields
  <2> QED  BY <1>b, <2>1, <2>2, <2>3, <2>4
<1>4. CASE Invoke(t)
  <2>0. /\ pc[t] \in Live /\ {"teardown", "interact"} \subseteq Live /\ UNCHANGED <<trk, workers>>
    BY <1>4 DEF Invoke, Live, Taking
  <2>1. CASE att' = att /\ pc' = [pc EXCEPT ![t] = "teardown"]
    BY <1>b, <1>d, <2>0, <2>1
  <2>2. CASE /\ att' = [att EXCEPT ![t].cog = Dispatch(@, "invoke")]
             /\ pc' = [pc EXCEPT ![t] = "interact"]
    <3> DEFINE c == Dispatch(att[t].cog, "invoke")
               a == [att[t] EXCEPT !.cog = c]
    <3>1. att' = [att EXCEPT ![t] = a]  BY <2>2
    <3> HIDE DEF c
    <3>2. a.key = att[t].key /\ a.cancelTeardown = att[t].cancelTeardown  BY <1>a DEF Attempts
    <3> HIDE DEF a
    <3> QED  BY <1>b, <2>0, <2>2, <3>1, <3>2
  <2> QED  BY <1>4, <2>1, <2>2 DEF Invoke
<1>5. CASE Interact(t)
  <2>1. PICK kind, severity, known, amount : Answer(t, kind, severity, known, amount)
    BY <1>5 DEF Interact
  <2> DEFINE a == [att[t] EXCEPT !.answer = kind, !.severity = severity,
                                 !.known = known, !.amount = amount]
  <2>2. /\ att' = [att EXCEPT ![t] = a] /\ pc' = [pc EXCEPT ![t] = "read_envelope"]
        /\ pc[t] \in Live /\ "read_envelope" \in Live /\ UNCHANGED <<trk, workers>>
    BY <2>1 DEF Answer, Live, Taking
  <2>3. a.key = att[t].key /\ a.cancelTeardown = att[t].cancelTeardown  BY <1>a DEF Attempts
  <2> HIDE DEF a
  <2> QED  BY <1>b, <2>2, <2>3
<1>6. CASE ReadEnvelope(t)
  <2> DEFINE o == Outcome(att[t])
             w == att[t].answer \in {"ok", "error"}
             a == [att[t] EXCEPT !.answered = w, !.outcome = o]
  <2>1. /\ att' = [att EXCEPT ![t] = a] /\ pc' = [pc EXCEPT ![t] = "teardown"]
        /\ pc[t] \in Live /\ "teardown" \in Live /\ UNCHANGED workers
        /\ trk' = InteractionUsage(trk, att[t].known, att[t].amount)
    BY <1>6 DEF ReadEnvelope, Append, Live, Taking
  <2> HIDE DEF o, w
  <2>2. a.key = att[t].key /\ a.cancelTeardown = att[t].cancelTeardown
    BY ZenonT(60), <1>a DEF Attempts
  <2> HIDE DEF a
  <2>3. SameGates(trk, trk') /\ trk'.leaked = trk.leaked
    <3>1. att[t].known \in BOOLEAN /\ att[t].amount \in Nat  BY <1>a DEF Attempts
    <3> QED  BY <1>a, <2>1, <3>1, UsageFields
  <2> QED  BY <1>b, <2>1, <2>2, <2>3
<1>7. CASE ClaimTeardown(t)
  <2> DEFINE c == MovedForTeardown(att[t])
             a == [att[t] EXCEPT !.released = TRUE, !.cog = c]
  <2>1. PICK l \in {"td_wait", "td_exec"} :
          /\ att' = [att EXCEPT ![t] = a] /\ pc' = [pc EXCEPT ![t] = l] /\ pc[t] = "teardown"
          /\ UNCHANGED <<trk, workers>>
    BY <1>7 DEF ClaimTeardown
  <2> HIDE DEF c
  <2>2. a.key = att[t].key /\ a.cancelTeardown = att[t].cancelTeardown  BY <1>a DEF Attempts
  <2> HIDE DEF a
  <2>3. l \in Live /\ pc[t] \in Live  BY <2>1 DEF Live, Taking
  <2> QED  BY <1>b, <2>1, <2>2, <2>3
<1>8. CASE TeardownWait(t)
  <2>1. /\ att' = att /\ UNCHANGED <<trk, workers>> /\ pc[t] = "td_wait"
        /\ att[t].cancelTeardown # "busy"
        /\ pc' = [pc EXCEPT ![t] = IF att[t].cancelTeardown = "failed" THEN "td_exec" ELSE "stopped"]
    BY <1>8 DEF TeardownWait
  <2>2. pc[t] \in Live /\ "td_exec" \in Live  BY <2>1 DEF Live
  <2>3. CASE att[t].cancelTeardown = "failed"
    <3>1. pc' = [pc EXCEPT ![t] = "td_exec"]  BY <2>1, <2>3
    <3> QED  BY <1>b, <1>d, <2>1, <2>2, <3>1
  <2>4. CASE att[t].cancelTeardown # "failed"
    <3>1. att[t].cancelTeardown = "ok"
      <4>1. att[t].cancelTeardown \in {"none", "busy", "ok", "failed"}  BY <1>a DEF Attempts
      <4>2. att[t].cancelTeardown # "none"  BY <1>a, <2>1 DEF OwnTaken
      <4> QED  BY <2>1, <2>4, <4>1, <4>2
    <3>2. pc'[t] = "stopped" /\ \A u \in Threads \ {t} : pc'[u] = pc[u]
      BY <1>a, <2>1, <2>4 DEF TypeOK
    <3>3. \A w \in workers : Past(trk, w)  BY <1>a, <2>2, <3>1 DEF WorkerAt
    <3>4. pc'[t] \notin Live /\ pc'[t] \in Leaving  BY <3>2 DEF Live, Taking, Leaving
    <3>5. WorkerAt(t)'  BY <2>1, <3>2, <3>3, <3>4 DEF WorkerAt
    <3> QED  BY <1>a, <3>2, <3>4, <3>5, HolderWorkers
  <2> QED  BY <2>3, <2>4
<1>9. CASE Teardown(t)
  <2> DEFINE c == MovedByFailure(att[t])
             a == [att[t] EXCEPT !.teardownError = TRUE, !.cog = c]
  <2>1. /\ \/ workers' = workers \ {att[t].key} /\ att' = att
           \/ workers' = workers /\ att' = [att EXCEPT ![t] = a]
        /\ pc' = [pc EXCEPT ![t] = "stopped"] /\ pc[t] = "td_exec" /\ UNCHANGED trk
    BY <1>9 DEF Teardown
  <2> HIDE DEF c
  <2>2. a.key = att[t].key /\ a.teardownError  BY <1>a DEF Attempts
  <2> HIDE DEF a
  <2>3. pc'[t] = "stopped" /\ \A u \in Threads \ {t} : pc'[u] = pc[u]  BY <1>a, <2>1 DEF TypeOK
  <2>4. pc[t] \in Live /\ pc'[t] \notin Live /\ pc'[t] \in Leaving
    BY <2>1, <2>3 DEF Live, Taking, Leaving
  <2>5. \A w \in workers : w = att[t].key \/ Past(trk, w)  BY <1>a, <2>4 DEF WorkerAt
  <2>6. \A w \in workers' : Past(trk', w) \/ (att'[t].teardownError /\ w = att'[t].key)
    <3>1. CASE workers' = workers \ {att[t].key}  BY <2>1, <2>5, <3>1
    <3>2. CASE workers' = workers /\ att' = [att EXCEPT ![t] = a]
      <4>1. att'[t] = a  BY <1>a, <3>2 DEF TypeOK
      <4> QED  BY <2>1, <2>2, <2>5, <3>2, <4>1
    <3> QED  BY <2>1, <3>1, <3>2
  <2>7. WorkerAt(t)'  BY <2>3, <2>4, <2>6 DEF WorkerAt
  <2> QED  BY <1>a, <2>3, <2>4, <2>7, HolderWorkers
<1>10. CASE Stopped(t)
  <2>1. /\ att' = att /\ pc' = [pc EXCEPT ![t] = "after"] /\ pc[t] = "stopped" /\ UNCHANGED workers
        /\ trk' = WorkerStopped(trk, att[t].key) \/ trk' = trk
    BY <1>10 DEF Stopped, Append
  <2>2. trk'.esc = trk.esc /\ trk'.retries = trk.retries /\ trk'.leaked = trk.leaked
    BY <1>a, <2>1, WorkerFields DEF SameGates
  <2>3. pc'[t] = "after" /\ \A u \in Threads \ {t} : pc'[u] = pc[u]  BY <1>a, <2>1 DEF TypeOK
  <2>4. \A w \in workers : Past(trk, w) => Past(trk', w)  BY <1>a, <2>2, PastKept
  <2>5. pc'[t] \notin Live /\ pc'[t] \in Leaving  BY <2>3 DEF Live, Taking, Leaving
  <2>6. WorkerAt(t)'  BY <1>a, <2>1, <2>3, <2>4, <2>5 DEF WorkerAt
  <2> QED  BY <1>a, <2>3, <2>5, <2>6, HolderWorkers
<1> QED  BY <1>1, <1>2, <1>3, <1>4, <1>5, <1>6, <1>7, <1>8, <1>9, <1>10 DEF AttemptStep

LEMMA EndStepWorkers ==
  ASSUME TypeInv, SyncInv, DataInv, TakenInv, WorkerInv, NEW t \in Threads, EndStep(t)
  PROVE  WorkerInv'
<1> USE DEF At, Goto
<1>0. /\ pc[t] \in {"after", "keep", "keep_approved", "finish", "finish_second"}
      /\ UNCHANGED <<att, workers>>
  <2>1. CASE AfterNoResult(t) \/ AfterResult(t) \/ AfterEscaped(t) \/ Keep(t) \/ KeepApproved(t)
    BY <2>1 DEF AfterNoResult, AfterResult, AfterEscaped, Keep, KeepApproved, InLoop
  <2>2. CASE FinishCancelled(t) \/ FailStep(t) \/ Escalate(t) \/ StopForBudget(t)
             \/ FailUnaccounted(t) \/ Complete(t) \/ FinishSecond(t)
    BY <2>2 DEF FinishCancelled, FailStep, Escalate, StopForBudget, FailUnaccounted, Complete,
                FinishSecond, Ending, Finishes
  <2> QED  BY <2>1, <2>2 DEF EndStep
<1>p. pc[t] \in Driving \ {"open", "pickup"} /\ pc[t] \notin Live
  BY <1>0 DEF Driving, Live, Taking
<1>a. /\ TypeOK /\ SyncAt(t) /\ KeyAt(t) /\ pc[t] \in Holding /\ snap[t] = trk /\ trk \in Tracks
      /\ trk.state = "RUNNING" /\ att[t] \in Attempts /\ GateAt(t) /\ OwnTaken(t) /\ WorkerAt(t)
      /\ workers \subseteq Keys
  BY <1>p, Drives DEF TypeOK, DataInv, DriverAt, TakenInv, WorkerInv
<1>s. ASSUME ~att[t].teardownError PROVE Settled
  <2>1. CASE pc[t] \in {"keep", "keep_approved"}
    <3>1. pc[t] \notin Live \cup Leaving  BY <1>p, <2>1 DEF Leaving
    <3> QED  BY <1>a, <3>1, SettledAt
  <2>2. CASE pc[t] \in {"after", "finish", "finish_second"}
    BY <1>a, <1>s, <2>2 DEF WorkerAt, Settled
  <2> QED  BY <1>0, <2>1, <2>2
<1>l. ASSUME ~att[t].teardownError,
             NEW l \in {"finish", "keep", "loop", "release"}, pc' = [pc EXCEPT ![t] = l],
             trk'.esc = trk.esc, trk'.retries = trk.retries, trk'.leaked = trk.leaked
      PROVE  WorkerInv'
  <2>1. pc'[t] = l /\ \A u \in Threads \ {t} : pc'[u] = pc[u]  BY <1>a, <1>l DEF TypeOK
  <2>2. pc'[t] \notin Live \cup Leaving \/ pc'[t] = "finish"  BY <2>1 DEF Live, Taking, Leaving
  <2>3. Settled'  BY <1>0, <1>a, <1>s, <1>l, SettledKept
  <2>4. ~att'[t].teardownError  BY <1>0, <1>l
  <2> QED  BY <1>a, <2>1, <2>2, <2>3, <2>4, SettledStep
<1>f. ASSUME pc[t] = "finish", HasKey(t), trk' = StepFailed(trk, att[t].key, att[t].teardownError),
             pc' = [pc EXCEPT ![t] = "finish_second"]
      PROVE  WorkerInv'
  <2>1. pc'[t] = "finish_second" /\ \A u \in Threads \ {t} : pc'[u] = pc[u]
    BY <1>a, <1>f DEF TypeOK
  <2>2. pc'[t] \notin Live /\ pc'[t] \in Leaving  BY <2>1 DEF Live, Taking, Leaving
  <2>3. att[t].key \in Keys /\ att[t].teardownError \in BOOLEAN  BY <1>a, <1>f DEF HasKey, Attempts
  <2>4. /\ trk'.esc = trk.esc /\ trk'.retries = trk.retries
        /\ trk'.leaked = IF att[t].teardownError THEN trk.leaked \cup {att[t].key} ELSE trk.leaked
    BY <1>a, <1>f, <2>3, StepFailedFields DEF SameGates
  <2>5. ASSUME NEW w \in workers
        PROVE  /\ w \in trk'.leaked
               /\ Past(trk', w) \/ (att[t].teardownError /\ w = att[t].key)
    <3>1. CASE Past(trk, w)
      <4>1. Past(trk', w)  BY <1>a, <2>4, <3>1, PastKept
      <4> QED  BY <4>1 DEF Past
    <3>2. CASE att[t].teardownError /\ w = att[t].key  BY <2>4, <3>2
    <3> QED  BY <1>a, <1>f, <3>1, <3>2 DEF WorkerAt
  <2>6. att[t].teardownError => att[t].key[2] <= Number(trk', att[t].key[1])
    BY <1>a, <1>f, <2>4 DEF WorkerAt, Number
  <2>7. WorkerAt(t)'  BY <1>0, <2>1, <2>2, <2>5, <2>6 DEF WorkerAt
  <2> QED  BY <1>a, <2>1, <2>2, <2>7, HolderWorkers
<1>1. CASE AfterNoResult(t)
  <2>1. PICK how \in {"cancel", "fail"} : End(t, how) /\ UNCHANGED <<trk, att>> /\ pc[t] = "after"
    BY <1>1 DEF AfterNoResult
  <2>2. pc'[t] = "finish" /\ \A u \in Threads \ {t} : pc'[u] = pc[u]
    BY <1>a, <2>1, EndEffect DEF Ends
  <2>3. pc'[t] \notin Live /\ pc'[t] \in Leaving  BY <2>2 DEF Live, Taking, Leaving
  <2>4. att[t].key[2] <= Number(trk, att[t].key[1])
    <3>1. att[t].key[2] = Number(trk, att[t].key[1])  BY <1>a, <2>1 DEF GateAt, Trying, Attempting
    <3>2. att[t].key \in Keys  BY <1>a, <2>1 DEF KeyAt, HasKey, Attempting
    <3>3. att[t].key[2] \in Nat  BY <3>2, NoKeyIsNone
    <3> QED  BY <3>1, <3>3
  <2>5. WorkerAt(t)'  BY <1>0, <1>a, <2>1, <2>2, <2>3, <2>4 DEF WorkerAt, Past, Number
  <2> QED  BY <1>a, <2>2, <2>3, <2>5, HolderWorkers
<1>2. CASE AfterResult(t)
  <2>1. /\ ~att[t].teardownError /\ trk' = trk
        /\ \E l \in {"finish", "keep"} : pc' = [pc EXCEPT ![t] = l]
    BY <1>2 DEF AfterResult, NoResult
  <2> QED  BY <1>l, <2>1
<1>3. CASE AfterEscaped(t)  BY <1>3, <1>a DEF AfterEscaped, OwnTaken
<1>k. ASSUME NEW k \in Keys, NEW e, pc[t] \in {"keep", "keep_approved"},
             \/ End(t, "cancel") /\ UNCHANGED trk
             \/ /\ trk' = StepCompleted(trk, k, e)
                /\ End(t, "budget") \/ pc' = [pc EXCEPT ![t] = "loop"]
      PROVE  WorkerInv'
  <2>1. \E l \in {"finish", "loop"} : pc' = [pc EXCEPT ![t] = l]  BY <1>k DEF End
  <2>2. trk'.esc = trk.esc /\ trk'.retries = trk.retries /\ trk'.leaked = trk.leaked
    BY <1>a, <1>k, StepCompletedFields
  <2>3. ~att[t].teardownError  BY <1>k, <1>a DEF OwnTaken, Leaving
  <2> QED  BY <1>l, <2>1, <2>2, <2>3
<1>4. CASE Keep(t) \/ KeepApproved(t)
  <2>1. CASE Keep(t)
    <3>1. /\ \/ End(t, "cancel") /\ UNCHANGED trk
             \/ /\ trk' = StepCompleted(trk, att[t].key, NoKey)
                /\ End(t, "budget") \/ pc' = [pc EXCEPT ![t] = "loop"]
          /\ pc[t] = "keep"
      BY <2>1 DEF Keep, KeepUnlessCancelled, Append
    <3>2. att[t].key \in Keys  BY <1>a, <3>1 DEF KeyAt, HasKey, Attempting
    <3> QED  BY <1>k, <3>1, <3>2
  <2>2. CASE KeepApproved(t)
    <3>1. PICK s \in Steps :
            /\ IsNext(snap[t], s)
            /\ KeepUnlessCancelled(t, LAMBDA T : StepCompleted(T, snap[t].approved[s],
                                                               snap[t].approved[s]))
      BY <2>2 DEF KeepApproved
    <3>2. PICK r \in Steps : IsNext(snap[t], r) /\ snap[t].approved[r] # NoKey
      BY <1>a, <2>2 DEF KeepApproved, KeyAt
    <3>3. r = s  BY <3>1, <3>2, NextUnique
    <3>4. snap[t].approved[s] \in Keys  BY <1>a, <3>2, <3>3, PerStepFields DEF KeysOrNone
    <3>5. /\ \/ End(t, "cancel") /\ UNCHANGED trk
             \/ /\ trk' = StepCompleted(trk, snap[t].approved[s], snap[t].approved[s])
                /\ End(t, "budget") \/ pc' = [pc EXCEPT ![t] = "loop"]
          /\ pc[t] = "keep_approved"
      BY <2>2, <3>1 DEF KeepApproved, KeepUnlessCancelled, Append
    <3> QED  BY SMTT(40), <1>k, <3>4, <3>5
  <2> QED  BY <1>4, <2>1, <2>2
<1>5. CASE FinishCancelled(t)
  <2>1. CASE att[t].teardownError
    <3>1. /\ trk' = StepFailed(trk, att[t].key, TRUE) /\ pc' = [pc EXCEPT ![t] = "finish_second"]
          /\ pc[t] = "finish"
      BY <1>5, <2>1 DEF FinishCancelled, Finishes, Append
    <3>2. HasKey(t)  BY <1>a, <2>1 DEF KeyAt
    <3>3. att[t].teardownError = TRUE  BY <1>a, <2>1 DEF Attempts
    <3> QED  BY <1>f, <3>1, <3>2, <3>3
  <2>2. CASE ~att[t].teardownError
    <3>1. trk' = RunCancelled(trk) /\ pc' = [pc EXCEPT ![t] = "release"]
      BY <1>5, <2>2 DEF FinishCancelled, Append
    <3> QED  BY <1>a, <1>l, <2>2, <3>1, RunCancelledFields DEF SameGates
  <2> QED  BY <2>1, <2>2
<1>6. CASE FailStep(t)
  <2>1. /\ trk' = StepFailed(trk, att[t].key, att[t].teardownError) /\ pc[t] = "finish"
        /\ pc' = [pc EXCEPT ![t] = "finish_second"] /\ pass[t].end = "fail"
    BY <1>6 DEF FailStep, Ending, Finishes, Append
  <2>2. HasKey(t)  BY <1>a, <2>1 DEF KeyAt
  <2> QED  BY <1>f, <2>1, <2>2
<1>7. CASE Escalate(t)
  <2>1. /\ trk' = GateEscalated(trk, att[t].key) /\ pc' = [pc EXCEPT ![t] = "release"]
        /\ pc[t] = "finish" /\ pass[t].end = "escalate"
    BY <1>7 DEF Escalate, Ending, Finishes, Append
  <2>2. att[t].key \in Keys  BY <1>a, <2>1 DEF KeyAt, HasKey
  <2>3. Settled  BY <1>a, <1>s, <2>1 DEF OwnTaken
  <2>4. ASSUME NEW w \in workers PROVE Past(trk', w)
    BY <1>a, <2>1, <2>2, <2>3, PastEscalated DEF Settled
  <2>5. Settled'  BY <1>0, <2>4 DEF Settled
  <2>6. pc'[t] = "release" /\ \A u \in Threads \ {t} : pc'[u] = pc[u]  BY <1>a, <2>1 DEF TypeOK
  <2>7. pc'[t] \notin Live \cup Leaving  BY <2>6 DEF Live, Taking, Leaving
  <2> QED  BY <1>a, <2>5, <2>6, <2>7, SettledStep
<1>8. CASE StopForBudget(t) \/ FailUnaccounted(t) \/ Complete(t)
  <2>1. /\ trk' \in {BudgetStopped(trk), RunFailed(trk), RunCompleted(trk)}
        /\ pc' = [pc EXCEPT ![t] = "release"] /\ pc[t] = "finish"
        /\ pass[t].end \in {"budget", "usage", "complete"}
    BY <1>8 DEF StopForBudget, FailUnaccounted, Complete, Ending, Finishes, Append
  <2>2. ~att[t].teardownError  BY <1>a, <2>1 DEF OwnTaken
  <2>3. trk'.esc = trk.esc /\ trk'.retries = trk.retries /\ trk'.leaked = trk.leaked
    BY <1>a, <2>1, EndFields DEF SameGates
  <2> QED  BY <1>l, <2>1, <2>2, <2>3
<1>9. CASE FinishSecond(t)
  <2>1. /\ trk' \in {RunCancelled(trk), RunFailed(trk)} /\ pc' = [pc EXCEPT ![t] = "release"]
        /\ pc[t] = "finish_second"
    BY <1>9 DEF FinishSecond, Append
  <2>2. /\ trk'.esc = trk.esc /\ trk'.retries = trk.retries /\ trk'.leaked = trk.leaked
        /\ trk'.state \in {"CANCELLED", "FAILED"}
    <3>1. CASE trk' = RunCancelled(trk)
      BY <1>a, <3>1, RunCancelledFields, RunCancelledType DEF SameGates
    <3>2. CASE trk' = RunFailed(trk)
      <4>1. RunFailed(trk).state = "FAILED"  BY <1>a, EndTypes
      <4> QED  BY <1>a, <3>2, <4>1, EndFields DEF SameGates
    <3> QED  BY <2>1, <3>1, <3>2
  <2>3. ASSUME NEW w \in workers PROVE Past(trk', w)
    <3>1. CASE Past(trk, w)  BY <1>a, <2>2, <3>1, PastKept
    <3>2. CASE ~Past(trk, w)
      <4>1. w \in trk.leaked /\ w[2] <= Number(trk, w[1])  BY <1>a, <2>1, <3>2 DEF WorkerAt
      <4> QED  BY <2>2, <4>1 DEF Past, Number
    <3> QED  BY <3>1, <3>2
  <2>4. Settled'  BY <1>0, <2>3 DEF Settled
  <2>5. pc'[t] = "release" /\ \A u \in Threads \ {t} : pc'[u] = pc[u]  BY <1>a, <2>1 DEF TypeOK
  <2>6. pc'[t] \notin Live \cup Leaving  BY <2>5 DEF Live, Taking, Leaving
  <2> QED  BY <1>a, <2>4, <2>5, <2>6, SettledStep
<1> QED  BY <1>1, <1>2, <1>3, <1>4, <1>5, <1>6, <1>7, <1>8, <1>9 DEF EndStep

LEMMA HostStepWorkers ==
  ASSUME TypeInv, SyncInv, WorkerInv,
         ApiSubmit \/ DeadlinePasses \/ Crash \/ Boot \/ AtRest \/ UNCHANGED vars
  PROVE  WorkerInv'
<1>1. CASE ApiSubmit
  <2>1. /\ TypeOK /\ trk \in Tracks /\ trk.state = "NONE" /\ trk' = OpSubmitted(trk)
        /\ UNCHANGED <<pc, workers>>
    BY <1>1 DEF ApiSubmit, TypeInv, TypeOK
  <2>2. trk'.esc = trk.esc /\ trk'.retries = trk.retries /\ trk'.leaked = trk.leaked
    BY <2>1, OpSubmittedFields DEF SameGates
  <2>3. ASSUME NEW u \in Threads PROVE pc[u] \notin Live \cup Leaving
    <3>1. pc[u] \notin Driving  BY <2>1 DEF SyncInv, SyncAt
    <3> QED  BY <3>1, WorkerPlaces
  <2>4. Settled  BY <2>3 DEF WorkerInv
  <2>5. Settled'  BY <2>1, <2>2, <2>4, SettledKept
  <2>6. ASSUME NEW u \in Threads PROVE WorkerAt(u)'  BY <2>1, <2>3, AwayWorker
  <2> QED  BY <2>5, <2>6 DEF WorkerInv
<1>2. CASE Crash
  <2>1. workers' = {} /\ \A u \in Threads : pc'[u] \notin Live \cup Leaving
    BY <1>2 DEF Crash, Live, Taking, Leaving
  <2>2. ASSUME NEW u \in Threads PROVE WorkerAt(u)'  BY <2>1, AwayWorker
  <2> QED  BY <2>1, <2>2 DEF WorkerInv, Settled
<1>3. CASE DeadlinePasses \/ Boot \/ AtRest \/ UNCHANGED vars
  <2>1. UNCHANGED <<trk, pc, workers, att>>  BY <1>3 DEF DeadlinePasses, Boot, AtRest, vars
  <2> QED  BY <2>1, BystanderWorkers DEF SameWorker
<1> QED  BY <1>1, <1>2, <1>3

LEMMA NextWorkers ==
  ASSUME TypeInv, SyncInv, DataInv, TakenInv, WorkerInv, MaxTrackFailures = 0, [Next]_vars
  PROVE  WorkerInv'
<1>0. TypeOK  BY DEF TypeInv
<1>1. ASSUME NEW t \in Threads, ThreadStep(t) \/ Begin(t) \/ StartHost(t) PROVE WorkerInv'
  BY <1>0, <1>1, ClaimStepWorkers, EnterStepWorkers, DriverStepWorkers, AttemptStepWorkers,
     EndStepWorkers DEF ThreadStep
<1> QED  BY <1>0, <1>1, HostStepWorkers, NoWriteFails DEF Next

LEMMA SpecWorkerInv ==
  ASSUME MaxTrackFailures = 0
  PROVE  Spec => [](TypeInv /\ SyncInv /\ DataInv /\ TakenInv /\ WorkerInv)
<1>1. Init => TakenInv /\ WorkerInv  BY InitTaken, InitWorkers
<1>2. TypeInv /\ SyncInv /\ DataInv /\ TakenInv /\ WorkerInv /\ [Next]_vars
        => TakenInv' /\ WorkerInv'
  BY NextTaken, NextWorkers DEF TypeInv
<1> QED  BY <1>1, <1>2, SpecDataInv, PTL DEF Spec
\* The number of an attempt under way is not one of a result escalated or kept.
NewNumber ==
  \A t \in Threads :
    pc[t] \in {"materialize", "worker_up", "invoke", "interact"} =>
      att[t].key \notin trk.raised \cup trk.kept

\* Whatever Track writes fail: a step is sent back at most max_revisions times
\* over the life of its run, interruptions and retries included, and no worker is
\* brought up or asked under a number a recorded result has (resolve's numbering).
THEOREM NumbersNeverReused == Spec => [](RevisionLimit /\ NewNumber)
<1>1. TypeInv /\ SyncInv /\ DataInv => RevisionLimit /\ NewNumber
  <2> SUFFICES ASSUME TypeInv, SyncInv, DataInv PROVE RevisionLimit /\ NewNumber  OBVIOUS
  <2>1. Counted(trk)  BY DEF DataInv, TrackSound
  <2>2. ASSUME NEW t \in Threads, pc[t] \in {"materialize", "worker_up", "invoke", "interact"}
        PROVE  att[t].key \notin trk.raised \cup trk.kept
    <3>1. pc[t] \in Driving /\ pc[t] \in Attempting  BY <2>2 DEF Driving, Attempting
    <3>2. /\ att[t].key \in Keys /\ IsNext(trk, att[t].key[1]) /\ GateAt(t)
      BY <3>1, Drives DEF SyncAt, KeyAt, HasKey, DataInv, DriverAt
    <3>3. att[t].key[2] = Number(trk, att[t].key[1])  BY <3>1, <3>2 DEF GateAt, Trying
    <3>4. att[t].key[2] \in Nat /\ att[t].key[1] \notin trk.done
      BY <3>2, NoKeyIsNone DEF IsNext
    <3> QED  BY <2>1, <3>3, <3>4 DEF Counted
  <2> QED  BY <2>1, <2>2 DEF Counted, RevisionLimit, NewNumber
<1> QED  BY <1>1, SpecDataInv, PTL

\* While no Track write raises, an attempt's number is new: besides, no worker is
\* brought up under the identity of one still alive, left behind by a failed
\* teardown in this process or by the run's earlier calls.  A write that raises
\* before the teardown leaves a worker of the same number (runner._tear_down).
THEOREM AttemptsAreCounted ==
  ASSUME MaxTrackFailures = 0 PROVE Spec => []AttemptsCounted
<1>1. TypeInv /\ SyncInv /\ DataInv /\ WorkerInv =>
        \A t \in Threads : pc[t] = "materialize" => att[t].key \notin workers
  <2> SUFFICES ASSUME TypeInv, SyncInv, DataInv, WorkerInv, NEW t \in Threads, pc[t] = "materialize"
               PROVE  att[t].key \notin workers
    OBVIOUS
  <2>1. /\ pc[t] \in Driving \ {"open", "pickup"} /\ pc[t] \in Attempting
        /\ pc[t] \notin Live \cup Leaving
    BY DEF Driving, Attempting, Live, Taking, Leaving
  <2>2. pc[t] \in Holding /\ trk.state = "RUNNING" /\ att[t].key \in Keys /\ GateAt(t)
    BY <2>1, Drives DEF KeyAt, HasKey, DataInv, DriverAt
  <2>3. Settled  BY <2>1, <2>2, SettledAt
  <2>4. att[t].key[2] = Number(trk, att[t].key[1]) /\ att[t].key[2] \in Nat
    BY <2>1, <2>2, NoKeyIsNone DEF GateAt, Trying
  <2> QED  BY <2>2, <2>3, <2>4 DEF Settled, Past
<1>2. RevisionLimit /\ NewNumber /\ TypeInv /\ SyncInv /\ DataInv /\ WorkerInv => AttemptsCounted
  BY <1>1 DEF NewNumber, AttemptsCounted, FreshKey
<1> QED  BY <1>2, NumbersNeverReused, SpecWorkerInv, PTL

\* While no Track write raises, no worker outlives its attempt unrecorded: once the
\* run has ended, waits or is nobody's, every worker still alive is one whose failed
\* teardown the Track records, whatever cancels, retries and restarts came between
\* (runner._run_attempt, cancel, fail, _finish).
THEOREM NoWorkerOrphaned ==
  ASSUME MaxTrackFailures = 0 PROVE Spec => []NoOrphanWorker
<1>1. TypeInv /\ SyncInv /\ WorkerInv => NoOrphanWorker
  <2> SUFFICES ASSUME TypeInv, SyncInv, WorkerInv, trk.state # "RUNNING" \/ claim = Nobody
               PROVE  workers \subseteq trk.leaked
    BY DEF NoOrphanWorker
  <2>1. ASSUME NEW t \in Threads PROVE pc[t] \notin Live \cup Leaving
    <3>1. SUFFICES ASSUME pc[t] \in Live \cup Leaving PROVE FALSE  OBVIOUS
    <3>2. pc[t] \in Driving \ {"open", "pickup"}  BY <3>1, WorkerPlaces
    <3>3. claim = t /\ trk.state = "RUNNING"  BY <3>2, Drives
    <3>4. t # Nobody  BY NobodyAssumption
    <3> QED  BY <3>3, <3>4
  <2>2. Settled  BY <2>1 DEF WorkerInv
  <2> QED  BY <2>2 DEF Settled, Past
<1> QED  BY <1>1, SpecWorkerInv, PTL
--------------------------------------------------------------------------
(***************************************************************************)
(* A cancel is taken only where the run is being advanced, or is let go;   *)
(* and only of a run that was submitted.                                   *)
(***************************************************************************)
Opened == (Driving \ {"open"}) \cup {"release", "let_go"}

Touched(a) == a.accepting \/ a.cancelled

CancelInv == \A t \in Threads : Touched(adv[t]) => pc[t] \in Opened /\ trk.state # "NONE"

LEMMA CancelInvStep ==
  ASSUME CancelInv, trk.state # "NONE" => trk'.state # "NONE",
         \A u \in Threads : Touched(adv'[u]) =>
           /\ pc'[u] \in Opened
           /\ Touched(adv[u]) \/ trk.state # "NONE"
  PROVE  CancelInv'
  BY DEF CancelInv

\* The thread that moves keeps to the places where a cancel is taken.
LEMMA OpenedStep ==
  ASSUME CancelInv, trk.state # "NONE" => trk'.state # "NONE", NEW t \in Threads,
         \A u \in Threads \ {t} : pc'[u] = pc[u] /\ (Touched(adv'[u]) => Touched(adv[u])),
         Touched(adv'[t]) => pc'[t] \in Opened /\ (Touched(adv[t]) \/ trk.state # "NONE")
  PROVE  CancelInv'
  BY CancelInvStep DEF CancelInv

LEMMA InitCancel == Init => CancelInv
  BY DEF Init, CancelInv, Touched, NewAdvancing

LEMMA ClaimStepCancel ==
  ASSUME TypeOK, CancelInv, NEW t \in Threads, ClaimStep(t) \/ Begin(t) \/ StartHost(t)
  PROVE  CancelInv' /\ UNCHANGED trk
<1> USE DEF At, Goto
<1>0. UNCHANGED trk
  BY DEF ClaimStep, Acquire, Busy, WaitFinished, WaitAccepting, Status, AcceptCancel, CancelTeardown,
         Release, LetGo, Begin, BeginCall, StartHost
<1>a. adv \in [Threads -> Advancings] /\ pc \in [Threads -> Labels]  BY DEF TypeOK
<1>1. CASE AcceptCancel(t)
  <2>1. PICK h \in Threads : /\ adv[h].accepting /\ adv' = [adv EXCEPT ![h].cancelled = TRUE]
                             /\ pc[t] = "wait"
    BY <1>1 DEF AcceptCancel, TypeOK
  <2>2. h # t /\ ~Touched(adv[t])  BY <2>1 DEF CancelInv, Touched, Opened, Driving
  <2>3. \A u \in Threads : Touched(adv'[u]) => Touched(adv[u])
    BY <1>a, <2>1 DEF Touched, Advancings
  <2>4. \A u \in Threads \ {t} : pc'[u] = pc[u]  BY <1>1, <1>a DEF AcceptCancel
  <2> QED  BY <1>0, <2>2, <2>3, <2>4, OpenedStep
<1>2. CASE Release(t)
  <2>1. UNCHANGED adv /\ pc'[t] = "let_go" /\ \A u \in Threads \ {t} : pc'[u] = pc[u]
    BY <1>2, <1>a DEF Release
  <2> QED  BY <1>0, <2>1, OpenedStep DEF Opened
<1>3. CASE Acquire(t) \/ LetGo(t)
  <2>1. adv' = [adv EXCEPT ![t] = NewAdvancing] /\ \A u \in Threads \ {t} : pc'[u] = pc[u]
    BY <1>3, <1>a DEF Acquire, LetGo
  <2>2. ~Touched(adv'[t]) /\ \A u \in Threads \ {t} : adv'[u] = adv[u]
    BY <1>a, <2>1 DEF Touched, NewAdvancing
  <2> QED  BY <1>0, <2>1, <2>2, OpenedStep
<1>4. CASE \/ Busy(t) \/ WaitFinished(t) \/ WaitAccepting(t) \/ Status(t) \/ CancelTeardown(t)
           \/ Begin(t) \/ StartHost(t)
  <2>1. /\ UNCHANGED adv /\ pc[t] \in {"acquire", "wait", "status", "cancel_teardown", "idle"}
        /\ \A u \in Threads \ {t} : pc'[u] = pc[u]
    BY <1>4, <1>a DEF Busy, WaitFinished, WaitAccepting, Status, CancelTeardown, Begin, BeginCall,
                      StartHost
  <2>2. ~Touched(adv[t])  BY <2>1 DEF CancelInv, Opened, Driving
  <2> QED  BY <1>0, <2>1, <2>2, OpenedStep
<1> QED  BY <1>0, <1>1, <1>2, <1>3, <1>4 DEF ClaimStep

LEMMA EnterStepCancel ==
  ASSUME TypeOK, CancelInv, trk.state # "NONE" => trk'.state # "NONE",
         NEW t \in Threads, EnterStep(t)
  PROVE  CancelInv' /\ ~Touched(adv[t])
<1> USE DEF At, Goto
<1>1. /\ UNCHANGED adv /\ pc[t] \in {"read", "enter"} /\ \A u \in Threads \ {t} : pc'[u] = pc[u]
  BY DEF EnterStep, Read, EnterSubmit, EnterRetry, EnterDecide, EnterCancel, EnterStart, Enters,
         Entered, TypeOK
<1>2. ~Touched(adv[t])  BY <1>1 DEF CancelInv, Opened, Driving
<1> QED  BY <1>1, <1>2, OpenedStep

LEMMA DriverStepCancel ==
  ASSUME TypeInv, SyncInv, CancelInv, trk.state # "NONE" => trk'.state # "NONE",
         NEW t \in Threads, DriverStep(t)
  PROVE  /\ CancelInv' /\ pc[t] \in Driving
         /\ \/ trk' = trk
            \/ trk.state = "SUBMITTED" /\ trk'.state = "RUNNING" /\ trk'.done = trk.done
<1> USE DEF At, Goto
<1>0. pc[t] \in {"open", "pickup", "loop"}
  BY DEF DriverStep, Open, PickUp, LoopCancelled, LoopApproved, LoopBudget, Resolve, LoopEnd,
         End, InLoop
<1>1. pc[t] \in Driving  BY <1>0 DEF Driving
<1>2. TypeOK /\ snap[t] = trk /\ trk \in Tracks /\ SyncAt(t)  BY <1>1, Drives
<1>3. trk' = trk \/ (trk.state = "SUBMITTED" /\ trk' = RunPickedUp(trk))
  BY <1>2 DEF DriverStep, Open, PickUp, LoopCancelled, LoopApproved, LoopBudget, Resolve, LoopEnd,
              End, InLoop, Append
<1>4. trk' = trk \/ (trk.state = "SUBMITTED" /\ trk'.state = "RUNNING" /\ trk'.done = trk.done)
  BY <1>2, <1>3, RunPickedUpType
<1>5. trk.state # "NONE"  BY <1>0, <1>1, <1>2 DEF SyncAt
<1>6. PICK l \in {"pickup", "loop", "finish", "keep_approved", "attempt"} : pc' = [pc EXCEPT ![t] = l]
  BY DEF DriverStep, Open, PickUp, LoopCancelled, LoopApproved, LoopBudget, Resolve, LoopEnd, End
<1>7. pc'[t] \in Opened /\ \A u \in Threads \ {t} : pc'[u] = pc[u]
  BY <1>2, <1>6 DEF TypeOK, Opened, Driving
<1>8. \A u \in Threads \ {t} : adv'[u] = adv[u]
  BY <1>2 DEF DriverStep, Open, PickUp, LoopCancelled, LoopApproved, LoopBudget, Resolve, LoopEnd,
              InLoop, TypeOK
<1>9. CancelInv'  BY <1>5, <1>7, <1>8, OpenedStep
<1> QED  BY <1>1, <1>4, <1>9

\* What an attempt records leaves the run and its results alone.
LEMMA AttemptStepCancel ==
  ASSUME TypeInv, SyncInv, CancelInv, trk.state # "NONE" => trk'.state # "NONE",
         NEW t \in Threads, AttemptStep(t)
  PROVE  CancelInv' /\ pc[t] \in Driving /\ trk'.state = trk.state /\ trk'.done = trk.done
<1> USE DEF At, Goto
<1>0. /\ pc[t] \in Attempting /\ pc[t] \in Driving \ {"open", "pickup"} /\ UNCHANGED adv
      /\ \E l \in Attempting : pc' = [pc EXCEPT ![t] = l]
  <2>1. CASE BeginAttempt(t) \/ Materialize(t) \/ WorkerUp(t) \/ Invoke(t)
    BY <2>1 DEF BeginAttempt, Materialize, WorkerUp, Invoke, InAttempt, Attempting, Driving
  <2>2. CASE Interact(t)
    <3>1. PICK kind, severity, known, amount : Answer(t, kind, severity, known, amount)
      BY <2>2 DEF Interact
    <3> QED  BY <3>1 DEF Answer, InAttempt, Attempting, Driving
  <2>4. CASE ReadEnvelope(t)  BY <2>4 DEF ReadEnvelope, InAttempt, Attempting, Driving
  <2>3. CASE ClaimTeardown(t) \/ TeardownWait(t) \/ Teardown(t) \/ Stopped(t)
    BY <2>3 DEF ClaimTeardown, TeardownWait, Teardown, Stopped, InAttempt, Attempting, Driving
  <2> QED  BY <2>1, <2>2, <2>3, <2>4 DEF AttemptStep
<1>a. /\ TypeOK /\ snap[t] = trk /\ trk \in Tracks /\ HasKey(t) /\ trk.state = "RUNNING"
      /\ att[t].known \in BOOLEAN /\ att[t].amount \in Nat
  BY <1>0, Drives DEF KeyAt, TypeOK, Attempts
<1>1. \/ trk' = trk
      \/ trk' = WorkerStarted(trk, att[t].key) \/ trk' = WorkerStopped(trk, att[t].key)
      \/ trk' = InteractionUsage(trk, att[t].known, att[t].amount)
  <2>1. CASE BeginAttempt(t) \/ Materialize(t) \/ WorkerUp(t) \/ Invoke(t)
    BY <2>1 DEF BeginAttempt, Materialize, WorkerUp, Invoke, InAttempt, Append
  <2>2. CASE Interact(t)
    <3>1. PICK kind, severity, known, amount : Answer(t, kind, severity, known, amount)
      BY <2>2 DEF Interact
    <3> QED  BY <3>1 DEF Answer
  <2>4. CASE ReadEnvelope(t)  BY <2>4 DEF ReadEnvelope, Append
  <2>3. CASE ClaimTeardown(t) \/ TeardownWait(t) \/ Teardown(t) \/ Stopped(t)
    BY <2>3 DEF ClaimTeardown, TeardownWait, Teardown, Stopped, InAttempt, Append
  <2> QED  BY <2>1, <2>2, <2>3, <2>4 DEF AttemptStep
<1>2. trk'.state = trk.state /\ trk'.done = trk.done
  BY <1>a, <1>1, WorkerTypes, UsageType DEF HasKey
<1>3. pc'[t] \in Opened /\ \A u \in Threads \ {t} : pc'[u] = pc[u]
  BY <1>0, <1>a DEF TypeOK, Opened, Attempting, Driving
<1>4. CancelInv'  BY <1>0, <1>a, <1>3, OpenedStep
<1> QED  BY <1>0, <1>2, <1>4

LEMMA EndStepCancel ==
  ASSUME TypeInv, SyncInv, CancelInv, trk.state # "NONE" => trk'.state # "NONE",
         NEW t \in Threads, EndStep(t)
  PROVE  /\ CancelInv' /\ pc[t] \in Driving
         /\ adv[t].cancelled => /\ trk'.done = trk.done
                                /\ trk'.state \in {trk.state, "CANCELLED"}
<1> USE DEF At, Goto
<1>0. /\ pc[t] \in {"after", "keep", "keep_approved", "finish", "finish_second"}
      /\ UNCHANGED att
  <2>1. CASE AfterNoResult(t) \/ AfterResult(t) \/ AfterEscaped(t) \/ Keep(t) \/ KeepApproved(t)
    BY <2>1 DEF AfterNoResult, AfterResult, AfterEscaped, Keep, KeepApproved, InLoop
  <2>2. CASE FinishCancelled(t) \/ FailStep(t) \/ Escalate(t) \/ StopForBudget(t)
             \/ FailUnaccounted(t) \/ Complete(t) \/ FinishSecond(t)
    BY <2>2 DEF FinishCancelled, FailStep, Escalate, StopForBudget, FailUnaccounted, Complete,
                FinishSecond, Ending, Finishes
  <2> QED  BY <2>1, <2>2 DEF EndStep
<1>1. pc[t] \in Driving \ {"open", "pickup"}  BY <1>0 DEF Driving
<1>a. TypeOK /\ KeyAt(t) /\ snap[t] = trk /\ trk \in Tracks /\ trk.state = "RUNNING"
  BY <1>1, Drives
<1>2. \A u \in Threads \ {t} : adv'[u] = adv[u]
  <2>1. adv' = adv \/ adv' = [adv EXCEPT ![t].accepting = FALSE]
    BY DEF EndStep, AfterNoResult, AfterResult, AfterEscaped, Keep, KeepApproved, InLoop,
           FinishCancelled, FailStep, Escalate, StopForBudget, FailUnaccounted, Complete,
           FinishSecond, Ending, Finishes
  <2> QED  BY <1>a, <2>1 DEF TypeOK
<1>3. PICK l \in {"release", "finish_second", "finish", "keep", "loop"} : pc' = [pc EXCEPT ![t] = l]
  <2>1. CASE AfterNoResult(t) \/ AfterResult(t) \/ AfterEscaped(t) \/ Keep(t) \/ KeepApproved(t)
    BY <2>1 DEF AfterNoResult, AfterResult, AfterEscaped, Keep, KeepApproved, KeepUnlessCancelled, End
  <2>2. CASE FinishCancelled(t) \/ FailStep(t) \/ Escalate(t) \/ StopForBudget(t)
             \/ FailUnaccounted(t) \/ Complete(t) \/ FinishSecond(t)
    BY <2>2 DEF FinishCancelled, FailStep, Escalate, StopForBudget, FailUnaccounted, Complete,
                FinishSecond
  <2> QED  BY <2>1, <2>2 DEF EndStep
<1>4. pc'[t] \in Opened /\ \A u \in Threads \ {t} : pc'[u] = pc[u]
  BY <1>3, <1>a DEF TypeOK, Opened, Driving
<1>5. CancelInv'  BY <1>a, <1>2, <1>4, OpenedStep
<1>6. ASSUME adv[t].cancelled
      PROVE  \/ trk' = trk \/ trk' = RunCancelled(trk)
             \/ att[t].teardownError /\ trk' = StepFailed(trk, att[t].key, TRUE)
  <2>1. CASE AfterNoResult(t) \/ AfterResult(t) \/ AfterEscaped(t) \/ Keep(t) \/ KeepApproved(t)
    BY <1>6, <2>1 DEF AfterNoResult, AfterResult, AfterEscaped, Keep, KeepApproved,
                      KeepUnlessCancelled
  <2>2. CASE FinishCancelled(t) \/ FailStep(t) \/ Escalate(t) \/ StopForBudget(t)
             \/ FailUnaccounted(t) \/ Complete(t) \/ FinishSecond(t)
    BY <1>6, <2>2 DEF FinishCancelled, FailStep, Escalate, StopForBudget, FailUnaccounted, Complete,
                      FinishSecond, Ending, Append
  <2> QED  BY <2>1, <2>2 DEF EndStep
<1>7. ASSUME adv[t].cancelled
      PROVE  trk'.done = trk.done /\ trk'.state \in {trk.state, "CANCELLED"}
  <2>1. CASE att[t].teardownError /\ trk' = StepFailed(trk, att[t].key, TRUE)
    <3>1. att[t].key \in Keys /\ TRUE \in BOOLEAN  BY <1>a, <2>1 DEF KeyAt, HasKey
    <3> QED  BY <1>a, <2>1, <3>1, StepFailedType
  <2> QED  BY <1>a, <1>6, <1>7, <2>1, RunCancelledType
<1> QED  BY <1>1, <1>5, <1>7

LEMMA FailedWriteCancel ==
  ASSUME TypeInv, SyncInv, CancelInv, trk.state # "NONE" => trk'.state # "NONE",
         NEW t \in Threads, FailedWrite(t)
  PROVE  CancelInv' /\ pc[t] \in Driving /\ trk'.state = trk.state /\ trk'.done = trk.done
<1> USE DEF At, Goto
<1>0. /\ pc[t] \in Driving /\ UNCHANGED adv
      /\ pc' \in {[pc EXCEPT ![t] = "teardown"], [pc EXCEPT ![t] = "release"]}
  <2>1. CASE WorkerWriteFails(t) \/ ReadyWriteFails(t) \/ UsageWriteFails(t) \/ HandlerWriteFails(t)
    BY <2>1 DEF WorkerWriteFails, ReadyWriteFails, UsageWriteFails, HandlerWriteFails, WriteFailed,
                Driving
  <2>2. CASE DriverWriteFails(t)
    BY <2>2 DEF DriverWriteFails, DriverWrites, WriteFailed, Driving
  <2> QED  BY <2>1, <2>2 DEF FailedWrite
<1>a. /\ TypeOK /\ SyncAt(t) /\ KeyAt(t) /\ trk \in Tracks  BY <1>0, Drives
<1>1. /\ trk'.state = trk.state /\ trk'.done = trk.done
  <2>1. CASE ReadyWriteFails(t)
    <3>1. /\ trk' = WorkerStarted(trk, att[t].key) /\ pc[t] = "worker_up"
      BY <2>1 DEF ReadyWriteFails, Append
    <3>2. att[t].key \in Keys  BY <1>a, <3>1 DEF KeyAt, HasKey, Attempting
    <3> QED  BY <1>a, <3>1, <3>2, WorkerTypes
  <2>2. CASE UsageWriteFails(t)
    <3>1. /\ trk' = InteractionUsage(trk, FALSE, 0) /\ 0 \in Nat /\ FALSE \in BOOLEAN
      BY <2>2 DEF UsageWriteFails, Append
    <3> QED  BY <1>a, <3>1, UsageType
  <2>3. CASE WorkerWriteFails(t) \/ HandlerWriteFails(t) \/ DriverWriteFails(t)
    BY <2>3 DEF WorkerWriteFails, HandlerWriteFails, DriverWriteFails
  <2> QED  BY <2>1, <2>2, <2>3 DEF FailedWrite
<1>2. pc'[t] \in Opened /\ \A u \in Threads \ {t} : pc'[u] = pc[u]
  BY <1>0, <1>a DEF TypeOK, Opened, Driving
<1>3. trk.state # "NONE"
  <2>1. pc[t] \in {"open", "pickup"} \/ pc[t] \in Driving \ {"open", "pickup"}  BY <1>0
  <2> QED  BY <1>a, <2>1 DEF SyncAt
<1>4. CancelInv'  BY <1>0, <1>2, <1>3, OpenedStep
<1> QED  BY <1>0, <1>1, <1>4

\* What the step of a behaviour may do to a run whose holder has taken a cancel.
CancelKept ==
  \A t \in Threads :
    adv[t].cancelled /\ claim = t =>
      /\ trk'.done = trk.done
      /\ \/ trk'.state \in {trk.state, "CANCELLED"}
         \/ trk.state = "SUBMITTED" /\ trk'.state = "RUNNING"

LEMMA NextCancel ==
  ASSUME TypeInv, SyncInv, CancelInv, [Next]_vars PROVE CancelInv' /\ CancelKept
<1>0. TypeOK  BY DEF TypeInv
<1>n. trk.state # "NONE" => trk'.state # "NONE"
  <2>1. Follows(trk, trk')  BY NextSync
  <2> QED  BY <2>1 DEF Follows, Moves
<1>a. ASSUME NEW t \in Threads, NEW u \in Threads, pc[t] \in Driving, claim = u PROVE u = t
  BY <1>a, Drives
<1>1. ASSUME NEW t \in Threads, ClaimStep(t) \/ Begin(t) \/ StartHost(t) PROVE CancelInv' /\ CancelKept
  BY <1>0, <1>1, ClaimStepCancel DEF CancelKept
<1>2. ASSUME NEW t \in Threads, EnterStep(t) PROVE CancelInv' /\ CancelKept
  <2>1. CancelInv' /\ ~Touched(adv[t])  BY <1>0, <1>n, <1>2, EnterStepCancel
  <2>2. CASE Read(t)
    <3>1. UNCHANGED trk  BY <2>2 DEF Read
    <3> QED  BY <2>1, <3>1 DEF CancelKept
  <2>3. CASE ~Read(t)
    <3>1. pc[t] = "enter"
      BY <1>2, <2>3 DEF EnterStep, EnterSubmit, EnterRetry, EnterDecide, EnterCancel, EnterStart,
                        Enters, At
    <3>2. claim = t  BY <3>1 DEF SyncInv, SyncAt, Holding
    <3> QED  BY <2>1, <3>2 DEF CancelKept, Touched
  <2> QED  BY <2>2, <2>3
<1>3. ASSUME NEW t \in Threads, DriverStep(t) PROVE CancelInv' /\ CancelKept
  <2>1. /\ CancelInv' /\ pc[t] \in Driving
        /\ \/ trk' = trk
           \/ trk.state = "SUBMITTED" /\ trk'.state = "RUNNING" /\ trk'.done = trk.done
    BY <1>n, <1>3, DriverStepCancel
  <2> QED  BY <2>1 DEF CancelKept
<1>4. ASSUME NEW t \in Threads, AttemptStep(t) PROVE CancelInv' /\ CancelKept
  BY <1>n, <1>4, AttemptStepCancel DEF CancelKept
<1>5. ASSUME NEW t \in Threads, EndStep(t) PROVE CancelInv' /\ CancelKept
  <2>1. /\ CancelInv' /\ pc[t] \in Driving
        /\ adv[t].cancelled => /\ trk'.done = trk.done
                               /\ trk'.state \in {trk.state, "CANCELLED"}
    BY <1>n, <1>5, EndStepCancel
  <2> QED  BY <1>a, <2>1 DEF CancelKept
<1>6. ASSUME NEW t \in Threads, FailedWrite(t) PROVE CancelInv' /\ CancelKept
  BY <1>n, <1>6, FailedWriteCancel DEF CancelKept
<1>7. CASE ApiSubmit
  <2>1. trk.state = "NONE" /\ UNCHANGED <<pc, adv>>  BY <1>7 DEF ApiSubmit
  <2>2. \A u \in Threads : ~Touched(adv[u])  BY <2>1 DEF CancelInv
  <2> QED  BY <2>1, <2>2 DEF CancelKept, CancelInv, Touched
<1>8. CASE Crash
  <2>1. UNCHANGED trk /\ \A u \in Threads : ~Touched(adv'[u])
    BY <1>8 DEF Crash, Touched, NewAdvancing
  <2> QED  BY <2>1 DEF CancelKept, CancelInv
<1>9. CASE DeadlinePasses \/ Boot \/ AtRest \/ UNCHANGED vars
  <2>1. UNCHANGED <<trk, pc, adv>>  BY <1>9 DEF DeadlinePasses, Boot, AtRest, vars
  <2> QED  BY <2>1 DEF CancelKept, CancelInv
<1> QED  BY <1>1, <1>2, <1>3, <1>4, <1>5, <1>6, <1>7, <1>8, <1>9 DEF Next, ThreadStep

\* A cancel the holder has taken wins: whatever the worker answers, whichever Track
\* write fails, a deadline or a budget, the holder keeps no further result and moves
\* the run nowhere but to CANCELLED (runner._keep, _finish, _cancelled).
THEOREM CancelsWin == Spec => CancelWins
<1>1. Init => CancelInv  BY InitCancel
<1>2. TypeInv /\ SyncInv /\ CancelInv /\ [Next]_vars => CancelInv' /\ [CancelKept]_vars
  BY NextCancel
<1>3. Spec => [][CancelKept]_vars  BY <1>1, <1>2, SpecSyncInv, PTL DEF Spec
<1> QED  BY <1>3 DEF CancelWins, CancelKept
=============================================================================
