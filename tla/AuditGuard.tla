----------------------------- MODULE AuditGuard -----------------------------
(***************************************************************************)
(* audited() (frames/audit.py): an action's body and the row that records  *)
(* it are one transaction.  The body gets a guarded connection on which it *)
(* may run statements, open savepoints and go back to them; it may catch   *)
(* what the guard or the database raises and carry on.                     *)
(*                                                                         *)
(* The database (external) aborts a transaction at an error, until a       *)
(* savepoint is gone back to; the driver opens a new one for a statement   *)
(* that finds none open.  Whatever might still get past the guard is the   *)
(* action Escape: nothing is assumed of it.                                *)
(***************************************************************************)
EXTENDS Integers, Sequences

CONSTANTS
  Actions,     \* the audited actions, one after another on a pooled connection
  MaxOps,      \* bound on what one body does
  MaxDepth     \* bound on open savepoints

VARIABLES
  action,      \* the action under way, or NoAction
  at,          \* "between", "body", "raised", "leaving"
  status,      \* the connection's transaction status
  done,        \* whether the body's change is in the open transaction
  saved,       \* the open savepoints: what was done when each was opened
  event,       \* the event's fields: as stamped, rewritten, or not storable
  ops,
  durable,     \* actions whose change is committed
  recorded,    \* actions whose row is
  escaped,     \* actions whose transaction was ended behind the guard, and
  reopened,    \* those with a statement after that (history)
  outcome      \* how each action ended
auditVars == <<action, at, status, done, saved, event, ops, durable, recorded, escaped, reopened, outcome>>

NoAction == "none"
NoTrans == "idle"
InTrans == "intrans"
InError == "inerror"

Stored == UNCHANGED <<durable, recorded, escaped, reopened>>
Bounded == ops < MaxOps /\ ops' = ops + 1

---------------------------------------------------------------------------
(* Entering *)

\* _validate_vocabulary, then BEGIN.
Enter(a) ==
  /\ at = "between" /\ outcome[a] = NoAction
  /\ action' = a /\ at' = "body" /\ status' = InTrans /\ done' = FALSE /\ saved' = <<>>
  /\ event' = "stamped" /\ ops' = 0
  /\ Stored /\ UNCHANGED outcome

UnknownAction(a) ==
  /\ at = "between" /\ outcome[a] = NoAction
  /\ outcome' = [outcome EXCEPT ![a] = "error"]
  /\ Stored /\ UNCHANGED <<action, at, status, done, saved, event, ops>>

---------------------------------------------------------------------------
(* The body, on a GuardedConnection *)

\* What a statement is, once its noise is blanked: something harmless, one that
\* ends the transaction, one that hides an end in a body the server refuses to
\* run in a transaction block, or one that cannot be read.
Kinds == {"change", "fails", "control", "hidden", "unreadable"}

NothingScreened(kind) == FALSE

\* A statement is screened in the bytes the server gets, or not run at all.
Screenable(kind) == kind # "unreadable"

\* _screen_sql, _screened_query
Refuses(kind) == ~Screenable(kind) \/ kind = "control"

execute(kind) ==
  /\ at = "body" /\ Bounded
  /\ IF Refuses(kind)
     THEN at' = "raised" /\ UNCHANGED <<status, done, saved>> /\ Stored
     ELSE /\ reopened' = IF status = NoTrans THEN reopened \cup {action} ELSE reopened
          /\ CASE status # InError /\ kind = "change" ->
                    status' = InTrans /\ done' = TRUE /\ UNCHANGED <<at, saved, durable>>
               [] status # InError /\ kind = "control" ->
                    /\ status' = NoTrans /\ saved' = <<>>
                    /\ durable' = IF done THEN durable \cup {action} ELSE durable
                    /\ UNCHANGED <<at, done>>
               [] OTHER -> status' = InError /\ at' = "raised" /\ UNCHANGED <<done, saved, durable>>
          /\ UNCHANGED <<recorded, escaped>>
  /\ UNCHANGED <<action, event, outcome>>

\* conn.transaction(): a savepoint.
Savepoint ==
  /\ at = "body" /\ Bounded /\ status = InTrans /\ Len(saved) < MaxDepth
  /\ saved' = Append(saved, done)
  /\ Stored /\ UNCHANGED <<action, at, status, done, event, outcome>>

\* ROLLBACK TO, or a savepoint's block left by an exception.
RollbackTo ==
  /\ at \in {"body", "raised"} /\ Bounded /\ status # NoTrans /\ saved # <<>>
  /\ status' = InTrans /\ done' = saved[Len(saved)] /\ saved' = SubSeq(saved, 1, Len(saved) - 1)
  /\ at' = "body"
  /\ Stored /\ UNCHANGED <<action, event, outcome>>

\* commit(), rollback(), close(), cancel(), autocommit, .connection
MethodRefused ==
  /\ at = "body" /\ Bounded
  /\ at' = "raised"
  /\ Stored /\ UNCHANGED <<action, status, done, saved, event, outcome>>

\* The event's fields: target and detail are the body's to set, the others not.
SetFields(kind) ==
  /\ at = "body" /\ Bounded
  /\ event' = kind
  /\ Stored /\ UNCHANGED <<action, at, status, done, saved, outcome>>

\* The body swallows what was raised.
Swallow ==
  /\ at = "raised"
  /\ at' = "body"
  /\ Stored /\ UNCHANGED <<action, status, done, saved, event, ops, outcome>>

\* Something unforeseen ends the transaction on the server.
Escape ==
  /\ at = "body" /\ status = InTrans
  /\ status' = NoTrans /\ saved' = <<>> /\ done' = FALSE
  /\ durable' \in {durable, IF done THEN durable \cup {action} ELSE durable}
  /\ escaped' = escaped \cup {action}
  /\ UNCHANGED <<action, at, event, ops, recorded, reopened, outcome>>

---------------------------------------------------------------------------
(* Leaving *)

End(result) ==
  /\ outcome' = [outcome EXCEPT ![action] = result]
  /\ action' = NoAction /\ at' = "between" /\ status' = NoTrans /\ done' = FALSE /\ saved' = <<>>
  /\ event' = "stamped" /\ ops' = 0

\* An exception out of the body rolls everything back.
BodyRaises ==
  /\ at = "raised"
  /\ End("error") /\ Stored

BodyReturns ==
  /\ at = "body"
  /\ at' = "leaving"
  /\ Stored /\ UNCHANGED <<action, status, done, saved, event, ops, outcome>>

\* The fields stamped at entry are the same, and the others fit their columns.
AsStamped == event # "rewritten"
Storable == event # "unstorable"

\* audited after the body: the stamped fields, then _validate_row.
FieldsRefused ==
  /\ at = "leaving" /\ ~(AsStamped /\ Storable)
  /\ End("error") /\ Stored

TakenOnTrust == TRUE

\* _assert_transaction_intact
Intact == status = InTrans

NotIntact ==
  /\ at = "leaving" /\ event = "stamped" /\ ~Intact
  /\ End("broken") /\ Stored

InsertAndCommit ==
  /\ at = "leaving" /\ event = "stamped" /\ Intact /\ status # InError
  /\ recorded' = recorded \cup {action}
  /\ durable' = IF done THEN durable \cup {action} ELSE durable
  /\ End("ok") /\ UNCHANGED <<escaped, reopened>>

\* The insert fails, or the connection is lost before the commit arrives, or
\* after it: then it stands though nobody is told.
InsertFails ==
  /\ at = "leaving" /\ event = "stamped" /\ Intact
  /\ \/ UNCHANGED <<recorded, durable>>
     \/ recorded' = recorded \cup {action} /\ durable' = IF done THEN durable \cup {action} ELSE durable
  /\ End("error") /\ UNCHANGED <<escaped, reopened>>

---------------------------------------------------------------------------
AuditInit ==
  /\ action = NoAction /\ at = "between" /\ status = NoTrans /\ done = FALSE /\ saved = <<>>
  /\ event = "stamped" /\ ops = 0
  /\ durable = {} /\ recorded = {} /\ escaped = {} /\ reopened = {} /\ outcome = [a \in Actions |-> NoAction]

AuditNext ==
  \/ \E a \in Actions : Enter(a) \/ UnknownAction(a)
  \/ \E kind \in Kinds : execute(kind)
  \/ \E kind \in {"stamped", "rewritten", "unstorable"} : SetFields(kind)
  \/ Savepoint \/ RollbackTo \/ MethodRefused \/ Swallow \/ Escape
  \/ BodyRaises \/ BodyReturns \/ FieldsRefused \/ NotIntact \/ InsertAndCommit \/ InsertFails

AuditSpec == AuditInit /\ [][AuditNext]_auditVars

---------------------------------------------------------------------------
(* Properties *)

\* A change is committed only with its row, whatever the body raised, swallowed,
\* rewrote or rolled back (audited); and when something ends the transaction
\* behind the guard and nothing reopens one, the action fails loudly and no row
\* claims it (_assert_transaction_intact).
AuditedTogether ==
  \A a \in Actions :
    /\ a \in durable => a \in recorded \cup escaped
    /\ outcome[a] = "ok" => a \in recorded
    /\ a \in escaped \ reopened => a \notin recorded /\ outcome[a] # "ok"
=============================================================================
