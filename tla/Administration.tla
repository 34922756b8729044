---------------------------- MODULE Administration ----------------------------
(***************************************************************************)
(* Who is an operator, and what operators do from the admin panel:         *)
(* platform roles reconciled at sign-in (frames/platform_role_sync.py) and  *)
(* changed by hand (frames/platform_role_admin.py), model access through   *)
(* the identity provider (frames/model_access.py) and the connector switch *)
(* (frames/connector_store.py).  Every change is one audited transaction;   *)
(* the last audit row about each target is kept.                           *)
(***************************************************************************)
EXTENDS Naturals, FiniteSets

CONSTANTS
  Staff,        \* who can sign in
  NoTarget,     \* what a request that is not there is about
  Bootstrapped, \* the operators inserted by hand before the hub started
  Subjects,     \* those of them whose model access is managed
  Connectors,   \* CONNECTOR_KEYS
  PanelSlots    \* requests of the panel in flight at once

VARIABLES
  roles,      \* collab_platform_roles: status and source for each user
  roleLog,    \* the last audited role change about each user
  signIn,     \* what each user's sign-in has decided and not yet written
  panel,      \* requests of the admin panel
  access,     \* the members of a model's group at the identity provider
  accessLog,  \* the last audited change of a user's model access
  unrecorded, \* users with a membership change whose audit row was lost
  disabled,   \* collab_connector_state: the connectors switched off
  switchLog   \* the last audited switch of each connector

adminVars == <<roles, roleLog, signIn, panel, access, accessLog, unrecorded, disabled, switchLog>>
roleVars == <<roles, roleLog>>
accessVars == <<access, accessLog, unrecorded>>
switchVars == <<disabled, switchLog>>

-----------------------------------------------------------------------------
NoRole == [status |-> "none", source |-> "none"]
(* resolve_platform_role: a revoked row is no role. *)
Operator(u) == roles[u].status = "active"
ActiveOperators == {u \in Staff : Operator(u)}
SyncOwned(u) == roles[u].source \in {"none", "idp"}
IdlePanel == [op |-> "idle", pc |-> "idle", on |-> NoTarget, seen |-> {}]

AdminInit ==
  /\ roles = [u \in Staff |-> IF u \in Bootstrapped THEN [status |-> "active", source |-> "manual"]
                               ELSE NoRole]
  /\ roleLog = [u \in Staff |-> IF u \in Bootstrapped THEN "grant" ELSE "none"]
  /\ signIn = [u \in Staff |-> "idle"]
  /\ panel = [s \in PanelSlots |-> IdlePanel]
  /\ access = {} /\ accessLog = [u \in Subjects |-> "none"] /\ unrecorded = {}
  /\ disabled = {} /\ switchLog = [c \in Connectors |-> "none"]

(* The rows lock_active_operators holds until its transaction ends. *)
HeldRows == UNION {panel[s].seen : s \in PanelSlots}

-----------------------------------------------------------------------------
(* Sign-in: the row is read, and the claim decides what to write. *)

Reconcile(u, inAdminGroup) ==
  /\ signIn[u] = "idle"
  /\ \/ inAdminGroup /\ SyncOwned(u) /\ ~Operator(u) /\ signIn' = [signIn EXCEPT ![u] = "grant"]
     \/ ~inAdminGroup /\ SyncOwned(u) /\ Operator(u) /\ signIn' = [signIn EXCEPT ![u] = "revoke"]
  /\ UNCHANGED <<roleVars, panel, accessVars, switchVars>>

(* The claim of the ID token; an absent one reconciles nothing. *)
ReconcilePlatformRole(u) == \E inAdminGroup \in BOOLEAN : Reconcile(u, inAdminGroup)

(* What the reconcile raises is logged: the sign-in goes on with the row there is. *)
SyncFailed(u) ==
  /\ signIn[u] # "idle"
  /\ signIn' = [signIn EXCEPT ![u] = "idle"]
  /\ UNCHANGED <<roleVars, panel, accessVars, switchVars>>

SyncWriteAlwaysLogged(u, role, changed) ==
  /\ roles' = IF changed THEN [roles EXCEPT ![u] = role] ELSE roles
  /\ roleLog' = [roleLog EXCEPT ![u] = signIn[u]]
  /\ signIn' = [signIn EXCEPT ![u] = "idle"]
  /\ UNCHANGED <<panel, accessVars, switchVars>>

SyncWrite(u, role, changed) ==
  /\ roles' = IF changed THEN [roles EXCEPT ![u] = role] ELSE roles
  /\ roleLog' = IF changed THEN [roleLog EXCEPT ![u] = signIn[u]] ELSE roleLog
  /\ signIn' = [signIn EXCEPT ![u] = "idle"]
  /\ UNCHANGED <<panel, accessVars, switchVars>>

SyncGrantRegardless(u) ==
  /\ signIn[u] = "grant" /\ u \notin HeldRows
  /\ SyncWrite(u, [status |-> "active", source |-> "idp"], TRUE)

(* The upsert changes nothing when the row has become a manual one meanwhile. *)
SyncGrant(u) ==
  /\ signIn[u] = "grant" /\ u \notin HeldRows
  /\ SyncWrite(u, [status |-> "active", source |-> "idp"], SyncOwned(u))

SyncRevokeUnlocked(u) ==
  /\ signIn[u] = "revoke"
  /\ SyncWrite(u, [status |-> "revoked", source |-> "idp"],
               roles[u] = [status |-> "active", source |-> "idp"])

(* The active operators are locked first; the last one is kept. *)
SyncRevoke(u) ==
  /\ signIn[u] = "revoke" /\ HeldRows = {}
  /\ SyncWrite(u, [status |-> "revoked", source |-> "idp"],
               ActiveOperators # {u} /\ roles[u] = [status |-> "active", source |-> "idp"])

-----------------------------------------------------------------------------
(* The panel.  The actor's role is resolved when the request arrives. *)

PanelBegin(s, op, u, v) ==
  /\ panel[s] = IdlePanel /\ Operator(u)
  /\ panel' = [panel EXCEPT ![s] = [IdlePanel EXCEPT !.op = op, !.pc = "begun", !.on = v]]
  /\ UNCHANGED <<roleVars, signIn, accessVars, switchVars>>

PanelEnd(s) == panel' = [panel EXCEPT ![s] = IdlePanel]

(* POST /users/{user_id}/role; a self_revoke is refused at once. *)
AdminChangeRole(s) ==
  \E u, v \in Staff :
    \/ PanelBegin(s, "grant", u, v)
    \/ u # v /\ PanelBegin(s, "revoke", u, v)

PanelGrant(s) ==
  LET v == panel[s].on IN
  /\ panel[s].op = "grant" /\ v \notin HeldRows
  /\ roles' = [roles EXCEPT ![v] = [status |-> "active", source |-> "manual"]]
  /\ roleLog' = [roleLog EXCEPT ![v] = "grant"]
  /\ PanelEnd(s)
  /\ UNCHANGED <<signIn, accessVars, switchVars>>

LockActiveOperators(s) ==
  /\ panel[s].op = "revoke" /\ panel[s].pc = "begun" /\ HeldRows = {}
  /\ panel' = [panel EXCEPT ![s].pc = "locked", ![s].seen = ActiveOperators]
  /\ UNCHANGED <<roleVars, signIn, accessVars, switchVars>>

LookAtActiveOperators(s) ==
  /\ panel[s].op = "revoke" /\ panel[s].pc = "begun"
  /\ panel' = [panel EXCEPT ![s].pc = "locked", ![s].seen = ActiveOperators]
  /\ UNCHANGED <<roleVars, signIn, accessVars, switchVars>>

(* not_operator and last_operator roll back; otherwise the status alone changes,
   so that a synced row stays the sync's. *)
PanelRevoke(s) ==
  LET v == panel[s].on IN
  /\ panel[s].pc = "locked"
  /\ IF v \in panel[s].seen /\ panel[s].seen # {v}
       THEN /\ roles' = [roles EXCEPT ![v].status = "revoked"]
            /\ roleLog' = [roleLog EXCEPT ![v] = "revoke"]
       ELSE UNCHANGED roleVars
  /\ PanelEnd(s)
  /\ UNCHANGED <<signIn, accessVars, switchVars>>

-----------------------------------------------------------------------------
(* Model access: the identity provider is called inside the transaction. *)

AdminChangeModelAccess(s) ==
  \E u \in Staff, v \in Subjects, op \in {"add", "remove"} : PanelBegin(s, op, u, v)

Applied(op, v) == IF op = "add" THEN access \cup {v} ELSE access \ {v}

(* The call succeeds; is refused; or is applied although we saw it fail. *)
ModelAccessCall(s) ==
  LET v == panel[s].on IN
  /\ panel[s].op \in {"add", "remove"} /\ panel[s].pc = "begun"
  /\ \/ /\ access' = Applied(panel[s].op, v)
        /\ panel' = [panel EXCEPT ![s].pc = "called"]
        /\ UNCHANGED unrecorded
     \/ /\ PanelEnd(s)
        /\ UNCHANGED <<access, unrecorded>>
     \/ /\ access' = Applied(panel[s].op, v)
        /\ unrecorded' = unrecorded \cup {v}
        /\ PanelEnd(s)
  /\ UNCHANGED <<roleVars, signIn, accessLog, switchVars>>

ModelAccessCommit(s) ==
  LET v == panel[s].on IN
  /\ panel[s].pc = "called"
  /\ \/ /\ accessLog' = [accessLog EXCEPT ![v] = panel[s].op]
        /\ UNCHANGED unrecorded
     \/ /\ unrecorded' = unrecorded \cup {v}     \* the commit fails
        /\ UNCHANGED accessLog
  /\ PanelEnd(s)
  /\ UNCHANGED <<roleVars, signIn, access, switchVars>>

-----------------------------------------------------------------------------
(* The connector switch is one transaction. *)
SetEnabled(c, enabled) ==
  /\ disabled' = IF enabled THEN disabled \ {c} ELSE disabled \cup {c}
  /\ switchLog' = [switchLog EXCEPT ![c] = IF enabled THEN "enable" ELSE "disable"]
  /\ UNCHANGED <<roleVars, signIn, panel, accessVars>>

(* POST /connectors/{connector} *)
AdminSwitchConnector(u) ==
  /\ Operator(u)
  /\ \E c \in Connectors, enabled \in BOOLEAN : SetEnabled(c, enabled)

-----------------------------------------------------------------------------
AdminNext ==
  \/ \E u \in Staff :
       \/ ReconcilePlatformRole(u) \/ SyncGrant(u) \/ SyncRevoke(u) \/ SyncFailed(u)
       \/ AdminSwitchConnector(u)
  \/ \E s \in PanelSlots :
       \/ AdminChangeRole(s) \/ PanelGrant(s) \/ LockActiveOperators(s) \/ PanelRevoke(s)
       \/ AdminChangeModelAccess(s) \/ ModelAccessCall(s) \/ ModelAccessCommit(s)

AdminSpec == AdminInit /\ [][AdminNext]_adminVars

-----------------------------------------------------------------------------
(* Once there is an operator there is always one: sign-ins that revoke, and
   operators who revoke one another at the same moment, never leave the hub
   without one (keep_last_operator, last_operator).  The first is inserted by
   hand, or comes with the first sign-in of the admin group. *)
OperatorRemains == (\E u \in Staff : roleLog[u] # "none") => ActiveOperators # {}

(* A person holds the role exactly when the last audit row about them is a
   grant: every change has its row, and what changed nothing has none
   (_write and its _Unchanged, revoke). *)
RoleLogAgrees == \A u \in Staff : Operator(u) <=> roleLog[u] = "grant"

(* The audit log and the roles, beside panels that revoke one another and sign-ins
   that synchronize: both of the above. *)
RolesAreSound == OperatorRemains /\ RoleLogAgrees

(* A role given by hand is not taken or rewritten by anybody's sign-in
   ("manual rows are administered here and never touched by sync"). *)
ManualRowsStay ==
  [][\A u \in Staff : roles[u].source = "manual" /\ roles'[u] # roles[u]
       => \E s \in PanelSlots : panel[s].on = u /\ panel'[s] = IdlePanel]_adminVars

(* "The remaining gap is the other direction": as long as no row was lost, the
   last row about a user tells whether they have access, once nobody is
   changing it. *)
LogTellsAccess ==
  \A u \in Subjects :
    u \notin unrecorded /\ accessLog[u] # "none" /\ (\A s \in PanelSlots : panel[s].on # u)
      => (u \in access <=> accessLog[u] = "add")
=============================================================================
