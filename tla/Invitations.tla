------------------------------ MODULE Invitations ------------------------------
(***************************************************************************)
(* Invitations to the hub: issuing, revoking and accepting them, naming an *)
(* organization, and the service access that an acceptance owes            *)
(* (frames/invitations.py, frames/service_access_state.py and the routers  *)
(* that call them).  A request is a slot that moves from one database      *)
(* transaction, or one call to an outside service, to the next; requests   *)
(* interleave, are retried on a transient conflict, and may be cut off     *)
(* anywhere.  Each transaction writes its audit row with its change.       *)
(***************************************************************************)
EXTENDS Naturals, FiniteSets, Sequences, Bags, TLC

CONSTANTS
  Users,            \* signed-in people
  NoUser,           \* nobody
  Founders,         \* the owners of the organization that exists at the start
  Strangers,        \* those of them signed in with a mailbox nobody invites
  Shouting,         \* those whose claim writes the address in upper case
  Unverified,       \* those whose address the identity provider never verified
  RequireVerified,  \* frames.invitations.require_verified_email
  NGroups,          \* how many groups an acceptance grants, one after another
  MaxInvitations,   \* bound: invitation rows
  MaxOrgs,          \* bound: organizations created by an acceptance
  Attempts,         \* TRANSIENT_CONFLICT_ATTEMPTS
  Requests          \* slots: the requests in flight at once

ASSUME SettingsAssumption ==
  RequireVerified \in BOOLEAN /\ MaxInvitations \in Nat /\ MaxOrgs \in Nat

(* The address, its case and email_verified, as signed in. *)
Mails == {"box"}
Claim(u) == [mail |-> IF u \in Strangers THEN "another" ELSE "box",
             upper |-> u \in Shouting, verified |-> u \notin Unverified]

Ids == 1..MaxInvitations
Home == 0
NoOrg == MaxOrgs + 1
Organizations == 0..MaxOrgs

VARIABLES
  invs,     \* collab_invitations, one row for each id
  orgs,     \* collab_orgs: "absent", "placeholder" or "named"
  members,  \* collab_org_members: one row for each user
  grants,   \* the service access state, for each user and group
  idp,      \* <<user, group>>: memberships at the identity provider
  audit,    \* the audit log, a bag of <<action, target>>
  links,    \* invitations whose secret has reached a mailbox
  single,   \* orgSource=single
  req       \* the requests in flight

vars == <<invs, orgs, members, grants, idp, audit, links, single, req>>
db == <<invs, orgs, members, grants, audit>>

-----------------------------------------------------------------------------
(* Rows and values *)

Statuses == {"none", "pending", "accepted", "revoked"}
NoRow == [status |-> "none", org |-> NoOrg, email |-> [mail |-> CHOOSE m \in Mails : TRUE,
          upper |-> FALSE], acceptedBy |-> NoUser, acceptedOrg |-> NoOrg,
          lapsed |-> FALSE, checked |-> FALSE]
NoMember == [org |-> NoOrg, role |-> "none"]
Idle == [op |-> "idle", pc |-> "idle", by |-> NoUser, inv |-> 0, org |-> NoOrg,
         email |-> NoRow.email, tries |-> 0, group |-> 0, granted |-> FALSE,
         result |-> "", web |-> FALSE]

Log(action, target) == audit' = audit (+) SetToBag({<<action, target>>})

(* An address as it is typed or claimed: the same mailbox may be written in
   two cases, which ascii_folded_bytes makes one. *)
Typed == [mail : Mails, upper : BOOLEAN]

ValidateInvitedEmail(e) == [e EXCEPT !.upper = FALSE]

EmailsMatch(invited, claimed) ==
  ValidateInvitedEmail(invited) = ValidateInvitedEmail(claimed)

ClaimedEmail(u) == [mail |-> Claim(u).mail, upper |-> Claim(u).upper]

CreatesOrganization(row) == row.org = NoOrg
GrantedRole(row) == IF CreatesOrganization(row) THEN "owner" ELSE "member"

(* Expiry is never stored: it is read off a pending row and the clock. *)
EffectiveStatus(row) ==
  IF row.status = "pending" /\ row.lapsed THEN "expired" ELSE row.status

EvaluateAcceptance(row, u, verified) ==
  LET status == EffectiveStatus(row) IN
  CASE status = "revoked" -> "revoked"
    [] status = "accepted" ->
         IF row.acceptedBy = u /\ row.acceptedOrg # NoOrg THEN "replay" ELSE "already_used"
    [] status = "expired" -> "expired"
    [] verified /\ ~Claim(u).verified -> "email_not_verified"
    [] ~EmailsMatch(row.email, ClaimedEmail(u)) -> "email_mismatch"
    [] OTHER -> "go"

(* The condition of the UPDATE that consumes the invitation. *)
Consumable(row) == row.status = "pending" /\ ~row.lapsed

(* Owners, and operators, who have no row here, are looked up for each request. *)
RequireOrgOwner(u) == members[u].role = "owner"

FreshId == CHOOSE i \in Ids : invs[i].status = "none" /\ \A j \in 1..(i-1) : invs[j].status # "none"
HasFreshId == \E i \in Ids : invs[i].status = "none"
FreshOrg == CHOOSE o \in Organizations : orgs[o] = "absent" /\ \A p \in 0..(o-1) : orgs[p] # "absent"

(* SELECT ... FOR UPDATE on the row, and the advisory lock on the address. *)
RowLocked(i) == \E r \in Requests : req[r].pc = "consume" /\ req[r].inv = i
AddressLocked(e) == \E r \in Requests : req[r].op = "page" /\ req[r].pc = "insert" /\ req[r].email = e

Goto(r, pc) == req' = [req EXCEPT ![r].pc = pc]

(* The response ends a request, unless a page is waiting for it. *)
Done(r, result) ==
  req' = [req EXCEPT ![r] = IF @.web THEN [@ EXCEPT !.pc = "done", !.result = result] ELSE Idle]

-----------------------------------------------------------------------------
Init ==
  /\ invs = [i \in Ids |-> NoRow]
  /\ orgs = [o \in Organizations |-> IF o = Home THEN "named" ELSE "absent"]
  /\ members = [u \in Users |-> IF u \in Founders THEN [org |-> Home, role |-> "owner"] ELSE NoMember]
  /\ grants = [u \in Users |-> [g \in 1..NGroups |-> "none"]]
  /\ idp = {}
  /\ audit = EmptyBag
  /\ links = {}
  /\ single = FALSE
  /\ req = [r \in Requests |-> Idle]

-----------------------------------------------------------------------------
(* Issuing an invitation.  The JSON API inserts; the two pages and the admin
   panel first look for a live invitation to the address, under its lock. *)

Begin(r, request) == req[r] = Idle /\ req' = [req EXCEPT ![r] = request]

(* An invitation that would create an organization is refused under
   orgSource=single, before anything is written. *)
NotRefused(o) == ~(o = NoOrg /\ single)

Issue(r, op, pc, e, o) ==
  /\ HasFreshId
  /\ NotRefused(o)
  /\ Begin(r, [Idle EXCEPT !.op = op, !.pc = pc, !.org = o,
                           !.email = ValidateInvitedEmail(e)])
  /\ UNCHANGED <<db, idp, links, single>>

OperatorCreateInvitation(r) ==
  \E e \in Typed, o \in {NoOrg, Home} : Issue(r, "api", "insert", e, o)

CreateOrgInvitation(r) ==
  \E u \in Users, e \in Typed :
    /\ RequireOrgOwner(u)
    /\ Issue(r, "api", "insert", e, members[u].org)

OperatorPageIssue(r) ==
  \E e \in Typed : Issue(r, "page", "check", e, NoOrg)

AdminIssueInvitation(r) == OperatorPageIssue(r)

OwnerPageIssue(r) ==
  \E u \in Users, e \in Typed :
    /\ RequireOrgOwner(u)
    /\ orgs[members[u].org] = "named"
    /\ Issue(r, "page", "check", e, members[u].org)

Live(row) == row.status = "pending" /\ ~row.lapsed

LiveAt(e) == \E i \in Ids : Live(invs[i]) /\ invs[i].email = e

CheckWithoutLock(r) ==
  /\ req[r].pc = "check"
  /\ IF LiveAt(req[r].email) THEN Done(r, "already_live") ELSE Goto(r, "insert")
  /\ UNCHANGED <<db, idp, links, single>>

CheckUnderLock(r) ==
  /\ req[r].pc = "check"
  /\ ~AddressLocked(req[r].email)
  /\ IF LiveAt(req[r].email) THEN Done(r, "already_live") ELSE Goto(r, "insert")
  /\ UNCHANGED <<db, idp, links, single>>

Insert(r) ==
  /\ req[r].pc = "insert"
  /\ HasFreshId
  /\ invs' = [invs EXCEPT ![FreshId] = [NoRow EXCEPT !.status = "pending", !.org = req[r].org,
                !.email = req[r].email, !.checked = req[r].op = "page"]]
  /\ Log("invitation.send", FreshId)
  /\ req' = [req EXCEPT ![r].pc = "deliver", ![r].inv = FreshId]
  /\ UNCHANGED <<orgs, members, grants, idp, links, single>>

(* The provider accepts the message, refuses it, or leaves us not knowing. *)
Deliver(r) ==
  /\ req[r].pc = "deliver"
  /\ \E outcome \in {"provider_accepted", "failed", "unknown"}, arrives \in BOOLEAN :
       /\ outcome = "failed" => ~arrives
       /\ outcome = "provider_accepted" => arrives
       /\ links' = IF arrives THEN links \cup {req[r].inv} ELSE links
       /\ Done(r, outcome)
  /\ UNCHANGED <<db, idp, single>>

-----------------------------------------------------------------------------
(* Revoking: a read outside the transaction, then the transaction itself. *)

InScope(row, o) == o = NoOrg \/ row.org = o

RevokeRead(r, i, o) ==
  /\ invs[i].status # "none" /\ InScope(invs[i], o)
  /\ invs[i].status # "revoked"
  /\ Begin(r, [Idle EXCEPT !.op = "revoke", !.pc = "revoke", !.inv = i])
  /\ UNCHANGED <<db, idp, links, single>>

OperatorRevokeInvitation(r) == \E i \in Ids : RevokeRead(r, i, NoOrg)

RevokeOrgInvitation(r) ==
  \E u \in Users, i \in Ids : RequireOrgOwner(u) /\ RevokeRead(r, i, members[u].org)

(* The pages and the panel call the same service. *)
OperatorPageRevoke(r) == OperatorRevokeInvitation(r)
AdminRevokeInvitation(r) == OperatorRevokeInvitation(r)
OwnerPageRevoke(r) == RevokeOrgInvitation(r)

RevokeWithoutLooking(r) ==
  LET i == req[r].inv IN
  /\ req[r].pc = "revoke"
  /\ invs' = [invs EXCEPT ![i].status = "revoked"]
  /\ Log("invitation.revoke", i)
  /\ Done(r, "revoked")
  /\ UNCHANGED <<orgs, members, grants, idp, links, single>>

RevokeCommit(r) ==
  LET i == req[r].inv IN
  /\ req[r].pc = "revoke"
  /\ ~RowLocked(i)
  /\ \/ /\ invs[i].status = "accepted"
        /\ Done(r, "already_used")
        /\ UNCHANGED <<invs, audit>>
     \/ /\ invs[i].status = "revoked"
        /\ Done(r, "revoked")
        /\ UNCHANGED <<invs, audit>>
     \/ /\ invs[i].status = "pending"
        /\ invs' = [invs EXCEPT ![i].status = "revoked"]
        /\ Log("invitation.revoke", i)
        /\ Done(r, "revoked")
  /\ UNCHANGED <<orgs, members, grants, idp, links, single>>

(* Naming an organization: only an owner, only from the placeholder; the row is
   read FOR UPDATE, so the whole handler is one transaction. *)
NameOrganization(o) ==
  /\ orgs[o] = "placeholder"
  /\ orgs' = [orgs EXCEPT ![o] = "named"]
  /\ Log("org.rename", o)
  /\ UNCHANGED <<invs, members, grants, idp, links, single, req>>

OwnerPageName(u) == RequireOrgOwner(u) /\ NameOrganization(members[u].org)

-----------------------------------------------------------------------------
(* Accepting: whoever holds the link presents it. *)

AcceptInvitation(r, u, i, web) ==
  /\ i \in links
  /\ Begin(r, [Idle EXCEPT !.op = "accept", !.pc = "read", !.by = u, !.inv = i, !.web = web])
  /\ UNCHANGED <<db, idp, links, single>>

AcceptRead(r) ==
  LET answer == EvaluateAcceptance(invs[req[r].inv], req[r].by, RequireVerified) IN
  /\ req[r].op = "accept" /\ req[r].pc = "read"
  /\ \/ answer = "go" /\ Goto(r, "lock")
     \/ answer = "replay" /\ Done(r, "accepted")
     \/ answer \notin {"go", "replay"} /\ Done(r, answer)
  /\ UNCHANGED <<db, idp, links, single>>

(* _redeem, up to its first write: the row is locked until the end of the
   transaction, the membership is only looked at. *)
AcceptLock(r) ==
  LET row == invs[req[r].inv]
      answer == EvaluateAcceptance(row, req[r].by, FALSE) IN
  /\ req[r].pc = "lock"
  /\ ~RowLocked(req[r].inv)
  /\ \/ answer = "replay" /\ Done(r, "accepted")
     \/ answer \notin {"go", "replay"} /\ Done(r, answer)
     \/ answer = "go" /\ members[req[r].by] # NoMember /\ Done(r, "already_in_organization")
     \/ /\ answer = "go" /\ members[req[r].by] = NoMember /\ ~NotRefused(row.org)
        /\ Done(r, "organization_creation_refused")
     \/ /\ answer = "go" /\ members[req[r].by] = NoMember /\ NotRefused(row.org)
        /\ Goto(r, "consume")
  /\ UNCHANGED <<db, idp, links, single>>

(* groups_to_grant, and redeem: the grants follow the committed acceptance, one
   group after another. *)
GroupsToGrant == 1..NGroups

ThenGrant(r, g) ==
  IF g \notin GroupsToGrant THEN Done(r, "accepted")
  ELSE req' = [req EXCEPT ![r].group = g, ![r].pc = "grant"]

(* claim_pending: ON CONFLICT DO NOTHING. *)
ClaimPending(u) ==
  grants' = [grants EXCEPT ![u] = [g \in DOMAIN @ |-> IF @[g] = "none" THEN "pending" ELSE @[g]]]

(* Why the consuming UPDATE matched nothing. *)
TerminalStateOf(row) == IF EffectiveStatus(row) = "accepted" THEN "already_used" ELSE EffectiveStatus(row)

RedeemClaimingLater(r, i, u, o) ==
  LET row == invs[i] IN
  /\ orgs' = IF CreatesOrganization(row) THEN [orgs EXCEPT ![o] = "placeholder"] ELSE orgs
  /\ members' = [members EXCEPT ![u] = [org |-> o, role |-> GrantedRole(row)]]
  /\ invs' = [invs EXCEPT ![i].status = "accepted", ![i].acceptedBy = u, ![i].acceptedOrg = o]
  /\ UNCHANGED grants
  /\ IF CreatesOrganization(row) THEN Log("org.create", o) ELSE Log("invitation.redeem", i)
  /\ ThenGrant(r, 1)

(* The writes: organization, member, invitation and the access owed commit
   together or not at all. *)
Redeem(r, i, u, o) ==
  LET row == invs[i] IN
  /\ orgs' = IF CreatesOrganization(row) THEN [orgs EXCEPT ![o] = "placeholder"] ELSE orgs
  /\ members' = [members EXCEPT ![u] = [org |-> o, role |-> GrantedRole(row)]]
  /\ invs' = [invs EXCEPT ![i].status = "accepted", ![i].acceptedBy = u, ![i].acceptedOrg = o]
  /\ ClaimPending(u)
  /\ IF CreatesOrganization(row) THEN Log("org.create", o) ELSE Log("invitation.redeem", i)
  /\ ThenGrant(r, 1)

AcceptTrustingTheCheck(r) ==
  LET i == req[r].inv IN
  /\ req[r].pc = "consume"
  /\ CreatesOrganization(invs[i]) => \E o \in Organizations : orgs[o] = "absent"
  /\ Redeem(r, i, req[r].by, IF CreatesOrganization(invs[i]) THEN FreshOrg ELSE invs[i].org)
  /\ UNCHANGED <<idp, links, single>>

AcceptConsume(r) ==
  LET i == req[r].inv
      u == req[r].by IN
  /\ req[r].pc = "consume"
  /\ CreatesOrganization(invs[i]) => \E o \in Organizations : orgs[o] = "absent"
  /\ \/ /\ members[u] # NoMember
        /\ Done(r, "already_in_organization")
        /\ UNCHANGED db
     \/ /\ members[u] = NoMember /\ ~Consumable(invs[i])
        /\ Done(r, TerminalStateOf(invs[i]))
        /\ UNCHANGED db
     \/ /\ members[u] = NoMember /\ Consumable(invs[i])
        /\ Redeem(r, i, u, IF CreatesOrganization(invs[i]) THEN FreshOrg ELSE invs[i].org)
  /\ UNCHANGED <<idp, links, single>>

(* grant_service_access: one group after another, each granted, settled and
   recorded; a failure of any of the three is logged and passed over. *)
Grant(r) ==
  /\ req[r].pc = "grant"
  /\ \E applied \in BOOLEAN, granted \in BOOLEAN :
       /\ granted => applied
       /\ idp' = IF applied THEN idp \cup {<<req[r].by, req[r].group>>} ELSE idp
       /\ req' = [req EXCEPT ![r].granted = granted, ![r].pc = "settle"]
  /\ UNCHANGED <<db, links, single>>

SettleState(old, granted) ==
  IF granted THEN "granted" ELSE IF old = "granted" THEN old ELSE "failed"

Settle(r) ==
  LET u == req[r].by
      g == req[r].group IN
  /\ req[r].pc = "settle"
  /\ \/ grants' = [grants EXCEPT ![u][g] = SettleState(@, req[r].granted)]
     \/ UNCHANGED grants                        \* service_access_grant_unsettled
  /\ Goto(r, "record")
  /\ UNCHANGED <<invs, orgs, members, audit, idp, links, single>>

Record(r) ==
  /\ req[r].pc = "record"
  /\ \/ Log("service_access.grant", <<req[r].by, req[r].group>>)
     \/ UNCHANGED audit                         \* service_access_grant_unrecorded
  /\ ThenGrant(r, req[r].group + 1)
  /\ UNCHANGED <<invs, orgs, members, grants, idp, links, single>>

(* outstanding_service_access_grants: what an operator can still retry. *)
Outstanding(u, g) == grants[u][g] \in {"pending", "failed"}

-----------------------------------------------------------------------------
(* What happens to any request. *)

FirstStep(q) == CASE q.op = "page" -> "check" [] q.op = "accept" -> "read" [] OTHER -> q.pc

(* A serialization failure or a deadlock rolls the transaction back; _retrying
   runs the operation from its beginning. *)
TransientConflict(r) ==
  /\ req[r].pc \in {"check", "insert", "revoke", "lock", "consume"}
  /\ IF req[r].tries + 1 < Attempts
       THEN req' = [req EXCEPT ![r].pc = FirstStep(req[r]), ![r].tries = @ + 1]
       ELSE Done(r, "error")
  /\ UNCHANGED <<db, idp, links, single>>

(* The process stops, or the connection does, with the request half done: a
   transaction that has not committed is rolled back. *)
Crash(r) ==
  /\ req[r] # Idle /\ ~req[r].web
  /\ req' = [req EXCEPT ![r] = Idle]
  /\ UNCHANGED <<db, idp, links, single>>

(* The clock passes the row's expires_at. *)
Expire(i) ==
  /\ invs[i].status = "pending" /\ ~invs[i].lapsed
  /\ invs' = [invs EXCEPT ![i].lapsed = TRUE]
  /\ UNCHANGED <<orgs, members, grants, audit, idp, links, single, req>>

(* The deployment moves to orgSource=single; from then on a signed-in user is
   made a member of the declared organization unless already a member. *)
Redeploy ==
  /\ ~single /\ single' = TRUE
  /\ UNCHANGED <<db, idp, links, req>>

ProvisionMember(u) ==
  /\ single /\ members[u] = NoMember
  /\ members' = [members EXCEPT ![u] = [org |-> Home, role |-> "member"]]
  /\ UNCHANGED <<invs, orgs, grants, audit, idp, links, single, req>>

AnyRequestStep(r) ==
  \/ OperatorCreateInvitation(r) \/ CreateOrgInvitation(r)
  \/ OperatorPageIssue(r) \/ AdminIssueInvitation(r) \/ OwnerPageIssue(r)
  \/ CheckUnderLock(r) \/ Insert(r) \/ Deliver(r)
  \/ OperatorRevokeInvitation(r) \/ RevokeOrgInvitation(r)
  \/ OperatorPageRevoke(r) \/ AdminRevokeInvitation(r) \/ OwnerPageRevoke(r) \/ RevokeCommit(r)
  \/ AcceptRead(r) \/ AcceptLock(r) \/ AcceptConsume(r)
  \/ Grant(r) \/ Settle(r) \/ Record(r)
  \/ TransientConflict(r) \/ Crash(r)

Environment ==
  \/ \E i \in Ids : Expire(i)
  \/ \E u \in Users : OwnerPageName(u) \/ ProvisionMember(u)
  \/ Redeploy

Next ==
  \/ \E r \in Requests : AnyRequestStep(r)
  \/ \E r \in Requests, u \in Users, i \in Ids : AcceptInvitation(r, u, i, FALSE)
  \/ Environment

Spec == Init /\ [][Next]_vars

\* For instances whose requests, and whose users, are alike.
ActorSymmetry == Permutations(Requests) \cup Permutations(Users)

-----------------------------------------------------------------------------
(* What makes the service correct. *)

Accepted(i) == invs[i].status = "accepted"
Once(action, target, when) ==
  LET row == <<action, target>> IN
  IF when THEN BagIn(row, audit) /\ audit[row] = 1 ELSE ~BagIn(row, audit)

(* The audit log tells exactly what happened: one row for every invitation
   sent, revoked or redeemed and for every organization created or named, and
   no row for a retried, refused, repeated or rolled back request
   (audited() and _NoAuditedChange). *)
AuditAgrees ==
  /\ \A i \in Ids :
       /\ Once("invitation.send", i, invs[i].status # "none")
       /\ Once("invitation.revoke", i, invs[i].status = "revoked")
       /\ Once("invitation.redeem", i, Accepted(i) /\ ~CreatesOrganization(invs[i]))
  /\ \A o \in Organizations \ {Home} :
       /\ Once("org.create", o, orgs[o] # "absent")
       /\ Once("org.rename", o, orgs[o] = "named")

(* An accepted invitation made its accepter a member of the organization it
   names, with its role, and nobody else's row; a created organization has
   exactly the one owner whose invitation created it (_redeem). *)
AcceptedBinds ==
  /\ \A i \in Ids : Accepted(i) =>
       /\ members[invs[i].acceptedBy] =
            [org |-> invs[i].acceptedOrg, role |-> GrantedRole(invs[i])]
       /\ CreatesOrganization(invs[i]) \/ invs[i].acceptedOrg = invs[i].org
       /\ \A j \in Ids \ {i} : Accepted(j) => invs[j].acceptedBy # invs[i].acceptedBy
  /\ \A o \in Organizations \ {Home} : orgs[o] # "absent" =>
       \E i \in Ids : Accepted(i) /\ CreatesOrganization(invs[i]) /\ invs[i].acceptedOrg = o

(* The person who accepted is the person invited, in time: the address matches
   whatever its case, it was verified where the deployment asks for it, and the
   invitation had not expired when it was consumed (_evaluate_acceptance and
   the condition of the consuming UPDATE). *)
AcceptedAsInvited ==
  \A i \in Ids : Accepted(i) =>
    /\ Claim(invs[i].acceptedBy).mail = invs[i].email.mail
    /\ RequireVerified => Claim(invs[i].acceptedBy).verified
    /\ ~invs[i].lapsed

(* Whoever is a member through an invitation is the one invited (_redeem). *)
AcceptedRightly == AcceptedBinds /\ AcceptedAsInvited

(* Access that an acceptance owes is never forgotten: whoever accepted and is
   not in a granted group at the identity provider is on the list of
   outstanding grants, whatever crashed or failed to be recorded
   (claim_pending, settle, outstanding). *)
NothingForgotten ==
  \A i \in Ids, g \in 1..NGroups :
    Accepted(i) /\ <<invs[i].acceptedBy, g>> \notin idp
      => Outstanding(invs[i].acceptedBy, g)

(* Two pages, an owner's and an operator's, never leave two live invitations
   to one address, however their requests interleave (create_unless_live under
   the advisory lock). *)
PageIssuedLiveUnique ==
  \A i, j \in Ids :
    i # j /\ Live(invs[i]) /\ Live(invs[j]) /\ invs[i].checked /\ invs[j].checked
      => invs[i].email.mail # invs[j].email.mail

(* A terminal invitation never changes again, and an organization is named
   once (revoke, _redeem, _name_organization_once). *)
TerminalIsFinal ==
  [][/\ \A i \in Ids : invs[i].status \in {"accepted", "revoked"} => invs'[i] = invs[i]
     /\ \A o \in Organizations : orgs[o] = "named" => orgs'[o] = "named"]_vars
=============================================================================
