------------------------- MODULE InvitationsProofs -------------------------
(***************************************************************************)
(* What holds of the invitations for any number of people, invitations,    *)
(* organizations, groups and requests in flight.                           *)
(*                                                                         *)
(* The inductive invariant is Inv: what the database holds (DbInv) and     *)
(* what the requests in flight may rely on (ReqInv).  The four properties  *)
(* are conjuncts of DbInv; ReqInv says why the next write keeps them: what *)
(* a request read before its transaction is still true of the row it       *)
(* writes, and the two pages exclude each other by the address's lock.     *)
(* With the page in front (PageInv), a tab waits for a request of its own   *)
(* about its own invitation, answers are true when they are given, and an  *)
(* invitation that is spent stays so: what a tab remembers stays true.     *)
(***************************************************************************)
EXTENDS AcceptancePage, WellFoundedInduction, TLAPS

-----------------------------------------------------------------------------
(* Shapes *)

Folded == [mail : Mails, upper : {FALSE}]
OrgRef == Organizations \cup {NoOrg}

RowShape ==
  [status : Statuses, org : OrgRef, email : Folded, acceptedBy : Users \cup {NoUser},
   acceptedOrg : OrgRef, lapsed : BOOLEAN, checked : BOOLEAN]

OrgStates == {"absent", "placeholder", "named"}
MemberShape == [org : OrgRef, role : {"none", "member", "owner"}]
GrantStates == {"none", "pending", "granted", "failed"}

Accepting == {"read", "lock", "consume", "grant", "settle", "record"}
Granting == {"grant", "settle", "record"}
Redeeming == Accepting \cup {"done"}
Targeting == {"deliver", "revoke"} \cup Redeeming

(* What a request answers. *)
Words == {"", "accepted", "revoked", "expired", "already_used", "email_not_verified", "email_mismatch",
          "already_in_organization", "organization_creation_refused", "already_live",
          "provider_accepted", "failed", "unknown", "error"}

ReqShape ==
  [op : {"idle", "api", "page", "revoke", "accept"},
   pc : {"idle", "check", "insert", "deliver", "revoke"} \cup Redeeming,
   by : Users \cup {NoUser}, inv : Ids \cup {0}, org : OrgRef, email : Folded,
   tries : Nat, group : {0} \cup 1..NGroups, granted : BOOLEAN, result : Words, web : BOOLEAN]

-----------------------------------------------------------------------------
(* The inductive invariant *)

DbTypes ==
  /\ invs \in [Ids -> RowShape]
  /\ orgs \in [Organizations -> OrgStates]
  /\ members \in [Users -> MemberShape]
  /\ grants \in [Users -> [1..NGroups -> GrantStates]]

(* A member belongs to an organization, and the declared one is there. *)
OrgsKnown ==
  /\ orgs[Home] = "named"
  /\ \A u \in Users : members[u].role # "none" => members[u].org \in Organizations

AccepterKnown ==
  \A i \in Ids : Accepted(i) => invs[i].acceptedBy \in Users /\ invs[i].acceptedOrg \in Organizations

(* A grant is settled as granted only once the provider has it. *)
GrantedIsThere ==
  \A u \in Users, g \in 1..NGroups : grants[u][g] = "granted" => <<u, g>> \in idp

DbInv ==
  /\ DbTypes /\ OrgsKnown /\ AccepterKnown /\ GrantedIsThere
  /\ AuditAgrees /\ AcceptedRightly /\ NothingForgotten /\ PageIssuedLiveUnique

PageInserts(q) == q.op = "page" /\ q.pc = "insert"
Shown(row, e) == Live(row) /\ row.checked /\ row.email = e

(* An invitation that was used by u, and one that nobody can use any more. *)
TakenBy(row, u) == row.status = "accepted" /\ row.acceptedBy = u
Spent(row) == row.status # "none" /\ ~Live(row)

(* An answer is true of the row for the person it is given to. *)
TrueOf(answer, row, u) ==
  /\ answer = "accepted" => TakenBy(row, u)
  /\ answer \in SettledOutcomes \ {"accepted"} => Spent(row) /\ ~TakenBy(row, u)

(* What a request q has read still holds of the rows it is about to write, and
   of the memberships at the provider. *)
ReqOk(q, rows, there) ==
  /\ q.pc \in Targeting => q.inv \in Ids /\ rows[q.inv].status # "none"
  /\ q.op = "accept" <=> q.pc \in Redeeming
  /\ q.web => q.op = "accept"
  /\ q.pc \in Redeeming => q.by \in Users
  /\ q.pc \in {"lock", "consume"} => (RequireVerified => Claim(q.by).verified)
  /\ q.pc = "consume" => EmailsMatch(rows[q.inv].email, ClaimedEmail(q.by))
  /\ q.pc \in Granting => q.group \in 1..NGroups
  /\ q.pc = "settle" /\ q.granted => <<q.by, q.group>> \in there
  /\ PageInserts(q) => \A i \in Ids : ~Shown(rows[i], q.email)
  /\ q.pc \in Granting => TakenBy(rows[q.inv], q.by)
  /\ q.pc = "done" => TrueOf(q.result, rows[q.inv], q.by)

(* The advisory lock on the address. *)
OnePage ==
  \A r, s \in Requests :
    r # s /\ PageInserts(req[r]) /\ PageInserts(req[s]) => req[r].email # req[s].email

ReqInv ==
  /\ req \in [Requests -> ReqShape]
  /\ links \subseteq Ids
  /\ \A i \in links : invs[i].status # "none"
  /\ \A r \in Requests : ReqOk(req[r], invs, idp)
  /\ OnePage

Inv == DbInv /\ ReqInv

-----------------------------------------------------------------------------
(* Lemmas about the operators *)

(* The log has one row, or none, for an action and its target. *)
Logged(action, target, log) == BagIn(<<action, target>>, log) /\ log[<<action, target>>] = 1
Unlogged(action, target, log) == ~BagIn(<<action, target>>, log)

SaysOfRow(i, row, log) ==
  /\ IF row.status # "none" THEN Logged("invitation.send", i, log)
                            ELSE Unlogged("invitation.send", i, log)
  /\ IF row.status = "revoked" THEN Logged("invitation.revoke", i, log)
                               ELSE Unlogged("invitation.revoke", i, log)
  /\ IF row.status = "accepted" /\ row.org # NoOrg
       THEN Logged("invitation.redeem", i, log) ELSE Unlogged("invitation.redeem", i, log)

SaysOfOrg(o, state, log) ==
  /\ IF state # "absent" THEN Logged("org.create", o, log) ELSE Unlogged("org.create", o, log)
  /\ IF state = "named" THEN Logged("org.rename", o, log) ELSE Unlogged("org.rename", o, log)

\* AuditAgrees, said of one row and of one organization at a time.
LEMMA AuditSays ==
  /\ AuditAgrees <=> /\ \A i \in Ids : SaysOfRow(i, invs[i], audit)
                     /\ \A o \in Organizations \ {Home} : SaysOfOrg(o, orgs[o], audit)
  /\ AuditAgrees' <=> /\ \A i \in Ids : SaysOfRow(i, invs'[i], audit')
                      /\ \A o \in Organizations \ {Home} : SaysOfOrg(o, orgs'[o], audit')
  BY DEF AuditAgrees, Once, Accepted, CreatesOrganization, SaysOfRow, SaysOfOrg, Logged, Unlogged

\* One audit row more: nothing else in the log changes (Log, audited()).
LEMMA OneMore ==
  ASSUME NEW action, NEW target, audit' = audit (+) SetToBag({<<action, target>>})
  PROVE  /\ \A a, x : a # action \/ x # target =>
              /\ Logged(a, x, audit) => Logged(a, x, audit')
              /\ Unlogged(a, x, audit) => Unlogged(a, x, audit')
         /\ Unlogged(action, target, audit) => Logged(action, target, audit')
  BY DEF Logged, Unlogged, BagIn, BagToSet, SetToBag, (+)

\* A set of numbers that is not empty has a least member.
LEMMA Smallest ==
  ASSUME NEW S \in SUBSET Nat, S # {} PROVE \E n \in S : \A m \in S : n <= m
<1>1. PICK n \in S : \A m \in S : ~(<<m, n>> \in OpToRel(<, Nat))
  BY NatLessThanWellFounded, WFMin
<1>2. ASSUME NEW m \in S PROVE n <= m
  <2>1. ~(<<m, n>> \in OpToRel(<, Nat))  BY <1>1
  <2>2. ~(m < n)  BY <2>1 DEF OpToRel
  <2> QED  BY <2>2
<1> QED  BY <1>2

\* The next invitation number is one not used yet (FreshId).
LEMMA FreshIdIsFree ==
  ASSUME HasFreshId PROVE FreshId \in Ids /\ invs[FreshId].status = "none"
<1> DEFINE S == {i \in Ids : invs[i].status = "none"}
<1>1. S \in SUBSET Nat /\ S # {}  BY SettingsAssumption DEF HasFreshId, Ids
<1>2. PICK n \in S : \A m \in S : n <= m  BY <1>1, Smallest
<1>3. \A j \in 1..(n-1) : invs[j].status # "none"
  <2> TAKE j \in 1..(n-1)
  <2>1. n \in Ids /\ j \in Ids /\ j < n /\ n \in Nat /\ j \in Nat  BY <1>1, SettingsAssumption DEF Ids
  <2> QED  BY <1>2, <2>1
<1>4. \E i \in Ids : invs[i].status = "none" /\ \A j \in 1..(i-1) : invs[j].status # "none"
  BY <1>3
<1> QED  BY <1>4, Zenon DEF FreshId

\* The organization an acceptance creates is one that did not exist (FreshOrg).
LEMMA FreshOrgIsAbsent ==
  ASSUME \E o \in Organizations : orgs[o] = "absent"
  PROVE  FreshOrg \in Organizations /\ orgs[FreshOrg] = "absent"
<1> DEFINE S == {o \in Organizations : orgs[o] = "absent"}
<1>1. S \in SUBSET Nat /\ S # {}  BY SettingsAssumption DEF Organizations
<1>2. PICK n \in S : \A m \in S : n <= m  BY <1>1, Smallest
<1>3. \A p \in 0..(n-1) : orgs[p] # "absent"
  <2> TAKE p \in 0..(n-1)
  <2>1. n \in Organizations /\ p \in Organizations /\ p < n /\ n \in Nat /\ p \in Nat
    BY <1>1, SettingsAssumption DEF Organizations
  <2> QED  BY <1>2, <2>1
<1>4. \E o \in Organizations : orgs[o] = "absent" /\ \A p \in 0..(o-1) : orgs[p] # "absent"
  BY <1>3
<1> QED  BY <1>4, Zenon DEF FreshOrg

\* Once its case is folded an address is its mailbox (validate_invited_email).
LEMMA SameMailbox ==
  ASSUME NEW e \in Folded, NEW f \in Folded, e.mail = f.mail PROVE e = f
<1>1. e = [mail |-> e.mail, upper |-> e.upper] /\ f = [mail |-> f.mail, upper |-> f.upper]
  BY DEF Folded
<1>2. e.upper = FALSE /\ f.upper = FALSE  BY DEF Folded
<1> QED  BY <1>1, <1>2

\* A row that creates an organization names none.
LEMMA NoOrgIsNone == NoOrg \notin Organizations /\ Home \in Organizations
  BY SettingsAssumption DEF NoOrg, Home, Organizations

\* The answer "go" says that the invitation is pending, in time and addressed
\* to the person (_evaluate_acceptance).
LEMMA GoMeans ==
  ASSUME NEW row, NEW u, NEW v \in BOOLEAN, EvaluateAcceptance(row, u, v) = "go"
  PROVE  /\ EmailsMatch(row.email, ClaimedEmail(u))
         /\ v => Claim(u).verified
  BY DEF EvaluateAcceptance, EffectiveStatus

\* Every answer is one of the words (InvitationOutcome).
LEMMA AnswersAreWords ==
  /\ \A row, u, v : EvaluateAcceptance(row, u, v) \notin {"go", "replay"} =>
                       EvaluateAcceptance(row, u, v) \in Words
  /\ \A row \in RowShape :
       row.status # "none" /\ ~Consumable(row) => TerminalStateOf(row) \in Words
  /\ {"accepted", "revoked", "already_used", "already_in_organization", "organization_creation_refused",
      "already_live", "provider_accepted", "failed", "unknown", "error"} \subseteq Words
<1>1. \A row, u, v : EvaluateAcceptance(row, u, v) \notin {"go", "replay"} =>
                       EvaluateAcceptance(row, u, v) \in Words
  BY DEF EvaluateAcceptance, Words
<1>2. ASSUME NEW row \in RowShape, row.status # "none", ~Consumable(row)
      PROVE  TerminalStateOf(row) \in {"already_used", "revoked", "expired"}
  BY <1>2 DEF TerminalStateOf, EffectiveStatus, Consumable, RowShape, Statuses
<1>3. {"accepted", "revoked", "already_used", "already_in_organization", "organization_creation_refused",
       "already_live", "provider_accepted", "failed", "unknown", "error", "expired"} \subseteq Words
  BY Zenon DEF Words
<1> QED  BY <1>1, <1>2, <1>3

\* What a refusal says of the invitation is so for the person refused, and a
\* replay is the accepter's (_evaluate_acceptance).
LEMMA AnswersAreTrue ==
  ASSUME NEW row \in RowShape, NEW u, NEW v, row.status = "accepted" => row.acceptedOrg # NoOrg
  PROVE  /\ EvaluateAcceptance(row, u, v) = "replay" => TrueOf("accepted", row, u)
         /\ EvaluateAcceptance(row, u, v) \notin {"go", "replay"} =>
              TrueOf(EvaluateAcceptance(row, u, v), row, u)
<1> DEFINE status == EffectiveStatus(row)
           answer == EvaluateAcceptance(row, u, v)
<1>1. /\ status = "revoked" => row.status = "revoked"
      /\ status = "accepted" => row.status = "accepted"
      /\ status = "expired" => row.status = "pending" /\ row.lapsed
  BY DEF EffectiveStatus, RowShape, Statuses
<1>2. /\ answer = "replay" => status = "accepted" /\ row.acceptedBy = u
      /\ answer = "revoked" => status = "revoked"
      /\ answer = "expired" => status = "expired"
      /\ answer = "already_used" =>
           status = "accepted" /\ ~(row.acceptedBy = u /\ row.acceptedOrg # NoOrg)
      /\ answer \in {"replay", "revoked", "expired", "already_used", "email_not_verified",
                     "email_mismatch", "go"}
  BY DEF EvaluateAcceptance
<1> HIDE DEF status, answer
<1>3. /\ answer = "replay" => TrueOf("accepted", row, u)
      /\ answer \notin {"go", "replay"} => TrueOf(answer, row, u)
  BY <1>1, <1>2 DEF TrueOf, TakenBy, Spent, Live, SettledOutcomes
<1> QED  BY <1>3 DEF answer

\* A refusal for another reason says nothing of the invitation.
LEMMA OthersAreTrue ==
  ASSUME NEW row, NEW u
  PROVE  /\ TrueOf("already_in_organization", row, u) /\ TrueOf("organization_creation_refused", row, u)
         /\ TrueOf("error", row, u)
  BY DEF TrueOf, SettledOutcomes

\* Why the consuming UPDATE matched nothing, for somebody who is no member.
LEMMA TerminalIsTrue ==
  ASSUME NEW row \in RowShape, NEW u, row.status # "none", ~Consumable(row), ~TakenBy(row, u)
  PROVE  TrueOf(TerminalStateOf(row), row, u)
<1>1. Spent(row)  BY DEF Spent, Live, Consumable
<1>2. TerminalStateOf(row) # "accepted"
  BY DEF TerminalStateOf, EffectiveStatus
<1> QED  BY <1>1, <1>2 DEF TrueOf

\* A slot with no request relies on nothing.
LEMMA IdleIsFine ==
  /\ Idle \in ReqShape
  /\ \A rows, there : ReqOk(Idle, rows, there)
  /\ ~PageInserts(Idle) /\ ~Idle.web
  BY Zenon DEF Idle, ReqShape, ReqOk, Targeting, Redeeming, Accepting, Granting, PageInserts, NoRow,
               Folded, Mails, OrgRef, Words

-----------------------------------------------------------------------------
(* What every step leaves alone *)

(* No row disappears or changes its address, none becomes a live row that a page
   issued, and what is spent stays as it was used, or not used. *)
Steady(rows) ==
  \A i \in Ids :
    /\ invs[i].status # "none" => rows[i].status # "none" /\ rows[i].email = invs[i].email
    /\ Live(rows[i]) /\ rows[i].checked =>
         Live(invs[i]) /\ invs[i].checked /\ rows[i].email = invs[i].email
    /\ invs[i].status = "accepted" => rows[i] = invs[i]
    /\ Spent(invs[i]) => Spent(rows[i]) /\ (rows[i].status = "accepted" => invs[i].status = "accepted")

\* What a request relies on survives the other requests' steps.
LEMMA StillOk ==
  ASSUME NEW q \in ReqShape, ReqOk(q, invs, idp), NEW rows, Steady(rows),
         NEW there, idp \subseteq there
  PROVE  ReqOk(q, rows, there)
<1>1. q.pc \in Targeting =>
        q.inv \in Ids /\ rows[q.inv].status # "none" /\ rows[q.inv].email = invs[q.inv].email
  BY DEF ReqOk, Steady
<1>2. q.pc = "consume" => q.pc \in Targeting  BY DEF Targeting, Redeeming, Accepting
<1>3. PageInserts(q) => \A i \in Ids : ~Shown(rows[i], q.email)
  BY DEF ReqOk, Steady, Shown
<1>4. ASSUME NEW i \in Ids, NEW u
      PROVE  /\ TakenBy(invs[i], u) => TakenBy(rows[i], u)
             /\ Spent(invs[i]) /\ ~TakenBy(invs[i], u) => Spent(rows[i]) /\ ~TakenBy(rows[i], u)
  BY <1>4 DEF Steady, TakenBy
<1>5. q.pc \in Granting \cup {"done"} => q.inv \in Ids
  BY <1>1 DEF Targeting, Redeeming, Accepting, Granting
<1>6. /\ q.pc \in Granting => TakenBy(rows[q.inv], q.by)
      /\ q.pc = "done" => TrueOf(q.result, rows[q.inv], q.by)
  BY <1>4, <1>5 DEF ReqOk, TrueOf
<1> QED  BY <1>1, <1>2, <1>3, <1>6 DEF ReqOk

\* One request moves, and the invariant of the requests is kept.
LEMMA OneRequest ==
  ASSUME ReqInv, Steady(invs'), idp \subseteq idp', NEW r \in Requests, NEW q \in ReqShape,
         req' = [req EXCEPT ![r] = q], ReqOk(q, invs', idp'),
         \A s \in Requests \ {r} :
           PageInserts(q) /\ PageInserts(req[s]) => q.email # req[s].email,
         links' \subseteq Ids, \A i \in links' : invs'[i].status # "none"
  PROVE  ReqInv'
<1>1. req' \in [Requests -> ReqShape]  BY DEF ReqInv
<1>2. ASSUME NEW s \in Requests PROVE ReqOk(req'[s], invs', idp')
  <2>1. CASE s = r  BY <2>1 DEF ReqInv
  <2>2. CASE s # r
    <3>1. req'[s] = req[s] /\ req[s] \in ReqShape /\ ReqOk(req[s], invs, idp)
      BY <2>2 DEF ReqInv
    <3> QED  BY <3>1, StillOk
  <2> QED  BY <2>1, <2>2
<1>3. OnePage'
  <2> SUFFICES ASSUME NEW s \in Requests, NEW t \in Requests, s # t,
                      PageInserts(req'[s]), PageInserts(req'[t])
               PROVE  req'[s].email # req'[t].email
    BY DEF OnePage, PageInserts
  <2>1. CASE s = r
    <3>1. req'[s] = q /\ req'[t] = req[t]  BY <2>1 DEF ReqInv
    <3> QED  BY <2>1, <3>1
  <2>2. CASE t = r
    <3>1. req'[t] = q /\ req'[s] = req[s]  BY <2>2 DEF ReqInv
    <3> QED  BY <2>2, <3>1
  <2>3. CASE s # r /\ t # r
    <3>1. req'[t] = req[t] /\ req'[s] = req[s]  BY <2>3 DEF ReqInv
    <3> QED  BY <3>1 DEF ReqInv, OnePage
  <2> QED  BY <2>1, <2>2, <2>3
<1> QED  BY <1>1, <1>2, <1>3 DEF ReqInv

\* No request moves.
LEMMA NoRequest ==
  ASSUME ReqInv, Steady(invs'), idp \subseteq idp', UNCHANGED <<req, links>>
  PROVE  ReqInv'
<1>1. ASSUME NEW s \in Requests PROVE ReqOk(req[s], invs', idp')
  <2>1. req[s] \in ReqShape /\ ReqOk(req[s], invs, idp)  BY DEF ReqInv
  <2> QED  BY <2>1, StillOk
<1>2. \A i \in links : invs'[i].status # "none"  BY DEF ReqInv, Steady
<1> QED  BY <1>1, <1>2 DEF ReqInv, OnePage

\* A response ends the request, or waits for its page (Done).
LEMMA DoneIsFine ==
  ASSUME ReqInv, Steady(invs'), idp \subseteq idp', NEW r \in Requests, NEW result \in Words,
         Done(r, result), links' \subseteq Ids, \A i \in links' : invs'[i].status # "none",
         req[r].op = "accept" => TrueOf(result, invs'[req[r].inv], req[r].by)
  PROVE  ReqInv'
<1>0. req \in [Requests -> ReqShape] /\ req[r] \in ReqShape /\ ReqOk(req[r], invs, idp)
  BY DEF ReqInv
<1>1. CASE ~req[r].web
  <2>1. req' = [req EXCEPT ![r] = Idle]  BY <1>0, <1>1 DEF Done
  <2> QED  BY <2>1, IdleIsFine, OneRequest
<1>2. CASE req[r].web
  <2> DEFINE q == [[req[r] EXCEPT !.pc = "done"] EXCEPT !.result = result]
  <2>1. req' = [req EXCEPT ![r] = q]  BY <1>0, <1>2 DEF Done
  <2>2. /\ q \in ReqShape /\ q.pc = "done" /\ q.op = req[r].op /\ q.by = req[r].by
        /\ q.inv = req[r].inv /\ q.result = result
    BY <1>0 DEF ReqShape, Redeeming
  <2> HIDE DEF q
  <2>3. ReqOk(req[r], invs', idp')  BY <1>0, StillOk
  <2>4. req[r].op = "accept"  BY <1>0, <1>2 DEF ReqOk
  <2>5. ReqOk(q, invs', idp')
    BY <2>2, <2>3, <2>4 DEF ReqOk, Targeting, Redeeming, Accepting, Granting, PageInserts
  <2>6. ~PageInserts(q)  BY <2>2 DEF PageInserts
  <2> QED  BY <2>1, <2>2, <2>5, <2>6, OneRequest
<1> QED  BY <1>1, <1>2

\* The links that have reached a mailbox are of invitations that exist.
LEMMA SameLinks ==
  ASSUME ReqInv, Steady(invs'), UNCHANGED links
  PROVE  links' \subseteq Ids /\ \A i \in links' : invs'[i].status # "none"
  BY DEF ReqInv, Steady

\* A step that leaves the database alone.
LEMMA QuietStep ==
  ASSUME DbInv, UNCHANGED db, idp \subseteq idp'
  PROVE  DbInv' /\ Steady(invs')
<1>1. /\ invs' = invs /\ orgs' = orgs /\ members' = members /\ grants' = grants /\ audit' = audit
  BY DEF db
<1>2. Steady(invs')  BY <1>1 DEF Steady
<1>3. (DbTypes /\ OrgsKnown /\ AccepterKnown)'
  BY <1>1 DEF DbInv, DbTypes, OrgsKnown, AccepterKnown, Accepted
<1>4. GrantedIsThere'
  BY <1>1 DEF DbInv, GrantedIsThere
<1>5. AuditAgrees'
  BY <1>1 DEF DbInv, AuditAgrees, Once, Accepted
<1>6. AcceptedRightly'
  BY <1>1 DEF DbInv, AcceptedRightly, AcceptedBinds, AcceptedAsInvited, Accepted
<1>7. NothingForgotten'
  BY <1>1 DEF DbInv, NothingForgotten, Accepted, Outstanding
<1>8. PageIssuedLiveUnique'
  BY <1>1 DEF DbInv, PageIssuedLiveUnique
<1> QED  BY <1>2, <1>3, <1>4, <1>5, <1>6, <1>7, <1>8 DEF DbInv

-----------------------------------------------------------------------------
(* The writes, one by one *)

\* The clock passes an expiry: a pending row only lapses.
LEMMA ExpireStep ==
  ASSUME DbInv, NEW i \in Ids, Expire(i)
  PROVE  DbInv' /\ Steady(invs')
<1> DEFINE row == [invs[i] EXCEPT !.lapsed = TRUE]
<1>1. /\ invs' = [invs EXCEPT ![i] = row] /\ invs[i].status = "pending"
      /\ invs[i] \in RowShape /\ invs \in [Ids -> RowShape]
      /\ UNCHANGED <<orgs, members, grants, audit, idp>>
  BY DEF Expire, DbInv, DbTypes
<1>2. /\ row \in RowShape /\ row.status = "pending" /\ row.lapsed /\ row.email = invs[i].email
      /\ row.org = invs[i].org
  BY <1>1 DEF RowShape
<1> HIDE DEF row
<1>3. /\ invs' \in [Ids -> RowShape] /\ invs'[i] = row
      /\ \A j \in Ids \ {i} : invs'[j] = invs[j]
  BY <1>1, <1>2
<1>4. ~Live(row)  BY <1>2 DEF Live
<1>5. Steady(invs')  BY <1>1, <1>2, <1>3, <1>4 DEF Steady, Spent, Live
<1>6. (DbTypes /\ OrgsKnown /\ GrantedIsThere)'
  BY <1>1, <1>3 DEF DbInv, DbTypes, OrgsKnown, GrantedIsThere
<1>7. \A j \in Ids : /\ Accepted(j)' <=> Accepted(j)
                     /\ Accepted(j) => invs'[j] = invs[j]
  BY <1>1, <1>2, <1>3 DEF Accepted
<1>8. AccepterKnown'  BY <1>7 DEF DbInv, AccepterKnown, Accepted
<1>9. AuditAgrees'
  <2>1. \A j \in Ids : invs'[j].status = invs[j].status /\ invs'[j].org = invs[j].org
    BY <1>1, <1>2, <1>3
  <2> QED  BY <1>1, <2>1 DEF DbInv, AuditAgrees, Once, Accepted, CreatesOrganization
<1>10. AcceptedRightly'
  <2>1. AcceptedBinds'
    BY <1>1, <1>7 DEF DbInv, AcceptedRightly, AcceptedBinds, Accepted
  <2>2. AcceptedAsInvited'
    BY <1>7 DEF DbInv, AcceptedRightly, AcceptedAsInvited, Accepted
  <2> QED  BY <2>1, <2>2 DEF AcceptedRightly
<1>11. NothingForgotten'
  BY <1>1, <1>7 DEF DbInv, NothingForgotten, Accepted, Outstanding
<1>12. PageIssuedLiveUnique'
  BY <1>3, <1>4 DEF DbInv, PageIssuedLiveUnique
<1> QED  BY <1>5, <1>6, <1>8, <1>9, <1>10, <1>11, <1>12 DEF DbInv

\* A pending row is revoked, with its audit row (RevokeCommit, revoke).
LEMMA RevokeStep ==
  ASSUME DbInv, NEW i \in Ids, invs[i].status = "pending",
         invs' = [invs EXCEPT ![i].status = "revoked"], Log("invitation.revoke", i),
         UNCHANGED <<orgs, members, grants, idp>>
  PROVE  DbInv' /\ Steady(invs')
<1> DEFINE row == [invs[i] EXCEPT !.status = "revoked"]
<1>1. /\ invs' = [invs EXCEPT ![i] = row]
      /\ invs[i] \in RowShape /\ invs \in [Ids -> RowShape]
  BY DEF DbInv, DbTypes
<1>2. /\ row \in RowShape /\ row.status = "revoked" /\ row.email = invs[i].email
      /\ row.org = invs[i].org
  BY <1>1 DEF RowShape, Statuses
<1> HIDE DEF row
<1>3. /\ invs' \in [Ids -> RowShape] /\ invs'[i] = row
      /\ \A j \in Ids \ {i} : invs'[j] = invs[j]
  BY <1>1, <1>2
<1>4. ~Live(row)  BY <1>2 DEF Live
<1>5. Steady(invs')  BY <1>1, <1>2, <1>3, <1>4 DEF Steady, Spent, Live
<1>6. (DbTypes /\ OrgsKnown /\ GrantedIsThere)'
  BY <1>3 DEF DbInv, DbTypes, OrgsKnown, GrantedIsThere
<1>7. \A j \in Ids : /\ Accepted(j)' <=> Accepted(j)
                     /\ Accepted(j) => invs'[j] = invs[j]
  BY <1>2, <1>3 DEF Accepted
<1>8. AccepterKnown'  BY <1>7 DEF DbInv, AccepterKnown, Accepted
<1>9. AuditAgrees'
  <2>1. audit' = audit (+) SetToBag({<<"invitation.revoke", i>>})  BY DEF Log
  <2>2. /\ \A j \in Ids : SaysOfRow(j, invs[j], audit)
        /\ \A o \in Organizations \ {Home} : SaysOfOrg(o, orgs[o], audit)
    BY AuditSays DEF DbInv
  <2>l. /\ \A a, x : a # "invitation.revoke" \/ x # i =>
             /\ Logged(a, x, audit) => Logged(a, x, audit')
             /\ Unlogged(a, x, audit) => Unlogged(a, x, audit')
        /\ Unlogged("invitation.revoke", i, audit) => Logged("invitation.revoke", i, audit')
    BY <2>1, OneMore
  <2>3. ASSUME NEW j \in Ids PROVE SaysOfRow(j, invs'[j], audit')
    <3>1. CASE j # i
      <4>1. SaysOfRow(j, invs[j], audit) /\ invs'[j] = invs[j]  BY <1>3, <2>2, <3>1
      <4> QED  BY <3>1, <4>1, <2>l DEF SaysOfRow
    <3>2. CASE j = i
      <4>1. SaysOfRow(i, invs[i], audit) /\ invs'[i] = row /\ invs[i].status = "pending"
        BY <1>3, <2>2
      <4> QED  BY <3>2, <4>1, <2>l, <1>2 DEF SaysOfRow
    <3> QED  BY <3>1, <3>2
  <2>4. \A o \in Organizations \ {Home} : SaysOfOrg(o, orgs'[o], audit')
    BY <2>l, <2>2 DEF SaysOfOrg
  <2> QED  BY <2>3, <2>4, AuditSays
<1>10. AcceptedRightly'
  <2>1. AcceptedBinds'
    BY <1>7 DEF DbInv, AcceptedRightly, AcceptedBinds, Accepted
  <2>2. AcceptedAsInvited'
    BY <1>7 DEF DbInv, AcceptedRightly, AcceptedAsInvited, Accepted
  <2> QED  BY <2>1, <2>2 DEF AcceptedRightly
<1>11. NothingForgotten'
  BY <1>7 DEF DbInv, NothingForgotten, Accepted, Outstanding
<1>12. PageIssuedLiveUnique'
  BY <1>3, <1>4 DEF DbInv, PageIssuedLiveUnique
<1> QED  BY <1>5, <1>6, <1>8, <1>9, <1>10, <1>11, <1>12 DEF DbInv

\* A row is inserted at a number never used, and is the only live one a page
\* issued to its address (Insert, create_unless_live).
LEMMA InsertStep ==
  ASSUME Inv, NEW r \in Requests, Insert(r)
  PROVE  /\ DbInv'
         /\ \A i \in Ids : invs[i].status # "none" => invs'[i] = invs[i]
         /\ invs'[FreshId].status # "none" /\ invs'[FreshId].email = req[r].email
         /\ invs'[FreshId].checked => req[r].op = "page"
         /\ \A i \in Ids \ {FreshId} : invs'[i] = invs[i]
<1> DEFINE n == FreshId
           row == [NoRow EXCEPT !.status = "pending", !.org = req[r].org,
                     !.email = req[r].email, !.checked = req[r].op = "page"]
<1>1. /\ n \in Ids /\ invs[n].status = "none"
      /\ invs' = [invs EXCEPT ![n] = row] /\ audit' = audit (+) SetToBag({<<"invitation.send", n>>})
      /\ UNCHANGED <<orgs, members, grants, idp>> /\ req[r].pc = "insert"
  BY FreshIdIsFree DEF Insert, Log
<1>2. invs \in [Ids -> RowShape] /\ req[r] \in ReqShape /\ ReqOk(req[r], invs, idp)
  BY DEF Inv, DbInv, DbTypes, ReqInv
<1>3. /\ row \in RowShape /\ row.status = "pending" /\ row.email = req[r].email
      /\ row.checked = (req[r].op = "page")
  BY <1>2 DEF NoRow, RowShape, ReqShape, Statuses, OrgRef
<1> HIDE DEF n, row
<1>4. /\ invs' \in [Ids -> RowShape] /\ invs'[n] = row
      /\ \A j \in Ids \ {n} : invs'[j] = invs[j]
  BY <1>1, <1>2, <1>3
<1>5. (DbTypes /\ OrgsKnown /\ GrantedIsThere)'
  BY <1>1, <1>4 DEF Inv, DbInv, DbTypes, OrgsKnown, GrantedIsThere
<1>6. \A j \in Ids : /\ Accepted(j)' <=> Accepted(j)
                     /\ Accepted(j) => invs'[j] = invs[j]
  BY <1>1, <1>3, <1>4 DEF Accepted
<1>7. AccepterKnown'  BY <1>6 DEF Inv, DbInv, AccepterKnown, Accepted
<1>8. AuditAgrees'
  <2>1. /\ \A a, x : a # "invitation.send" \/ x # n =>
             /\ Logged(a, x, audit) => Logged(a, x, audit')
             /\ Unlogged(a, x, audit) => Unlogged(a, x, audit')
        /\ Unlogged("invitation.send", n, audit) => Logged("invitation.send", n, audit')
    BY <1>1, OneMore
  <2>2. /\ \A j \in Ids : SaysOfRow(j, invs[j], audit)
        /\ \A o \in Organizations \ {Home} : SaysOfOrg(o, orgs[o], audit)
    BY AuditSays DEF Inv, DbInv
  <2>3. ASSUME NEW j \in Ids PROVE SaysOfRow(j, invs'[j], audit')
    <3>1. CASE j # n
      <4>1. SaysOfRow(j, invs[j], audit) /\ invs'[j] = invs[j]  BY <1>4, <2>2, <3>1
      <4> QED  BY <3>1, <4>1, <2>1 DEF SaysOfRow
    <3>2. CASE j = n
      <4>1. SaysOfRow(n, invs[n], audit) /\ invs'[n] = row  BY <1>1, <1>4, <2>2
      <4> QED  BY <3>2, <4>1, <2>1, <1>1, <1>3 DEF SaysOfRow
    <3> QED  BY <3>1, <3>2
  <2>4. \A o \in Organizations \ {Home} : SaysOfOrg(o, orgs'[o], audit')
    BY <1>1, <2>1, <2>2 DEF SaysOfOrg
  <2> QED  BY <2>3, <2>4, AuditSays
<1>9. AcceptedRightly'
  <2>1. AcceptedBinds'
    BY <1>1, <1>6 DEF Inv, DbInv, AcceptedRightly, AcceptedBinds, Accepted
  <2>2. AcceptedAsInvited'
    BY <1>6 DEF Inv, DbInv, AcceptedRightly, AcceptedAsInvited, Accepted
  <2> QED  BY <2>1, <2>2 DEF AcceptedRightly
<1>10. NothingForgotten'
  BY <1>1, <1>6 DEF Inv, DbInv, NothingForgotten, Accepted, Outstanding
<1>11. PageIssuedLiveUnique'
  <2> SUFFICES ASSUME NEW i \in Ids, NEW j \in Ids, i # j, Live(invs'[i]), Live(invs'[j]),
                      invs'[i].checked, invs'[j].checked
               PROVE  invs'[i].email.mail # invs'[j].email.mail
    BY DEF PageIssuedLiveUnique
  <2>1. ASSUME NEW k \in Ids, k # n, Live(invs'[k]), invs'[k].checked, row.checked
        PROVE  invs'[k].email.mail # row.email.mail
    <3>1. invs'[k] = invs[k]  BY <1>4, <2>1
    <3>2. PageInserts(req[r])  BY <1>1, <1>3, <2>1 DEF PageInserts
    <3>3. ~Shown(invs[k], req[r].email)  BY <1>2, <3>2 DEF ReqOk
    <3>4. invs[k].email # row.email  BY <1>3, <2>1, <3>1, <3>3 DEF Shown
    <3>5. invs[k].email \in Folded /\ row.email \in Folded  BY <1>2, <1>3 DEF RowShape
    <3> QED  BY <3>1, <3>4, <3>5, SameMailbox
  <2>2. CASE i = n  BY <1>4, <2>1, <2>2
  <2>3. CASE j = n  BY <1>4, <2>1, <2>3
  <2>4. CASE i # n /\ j # n
    BY <1>4, <2>4 DEF Inv, DbInv, PageIssuedLiveUnique
  <2> QED  BY <2>2, <2>3, <2>4
<1> QED  BY <1>1, <1>3, <1>4, <1>5, <1>7, <1>8, <1>9, <1>10, <1>11 DEF DbInv, n

\* An owner names an organization created with a placeholder (name_organization_once).
LEMMA NameStep ==
  ASSUME DbInv, NEW u \in Users, OwnerPageName(u)
  PROVE  DbInv' /\ Steady(invs')
<1> DEFINE n == members[u].org
<1>1. /\ orgs[n] = "placeholder" /\ orgs' = [orgs EXCEPT ![n] = "named"]
      /\ audit' = audit (+) SetToBag({<<"org.rename", n>>})
      /\ UNCHANGED <<invs, members, grants, idp>>
  BY DEF OwnerPageName, NameOrganization, Log
<1>2. n \in Organizations /\ n # Home
  BY <1>1 DEF DbInv, OrgsKnown, OwnerPageName, RequireOrgOwner
<1> HIDE DEF n
<1>3. /\ orgs' \in [Organizations -> OrgStates] /\ orgs'[n] = "named"
      /\ \A o \in Organizations \ {n} : orgs'[o] = orgs[o]
  BY <1>1, <1>2 DEF DbInv, DbTypes, OrgStates
<1>4. Steady(invs')  BY <1>1 DEF Steady
<1>5. (DbTypes /\ OrgsKnown /\ GrantedIsThere /\ AccepterKnown)'
  BY <1>1, <1>2, <1>3, NoOrgIsNone
  DEF DbInv, DbTypes, OrgsKnown, GrantedIsThere, AccepterKnown, Accepted
<1>6. AuditAgrees'
  <2>1. /\ \A a, x : a # "org.rename" \/ x # n =>
             /\ Logged(a, x, audit) => Logged(a, x, audit')
             /\ Unlogged(a, x, audit) => Unlogged(a, x, audit')
        /\ Unlogged("org.rename", n, audit) => Logged("org.rename", n, audit')
    BY <1>1, OneMore
  <2>2. /\ \A j \in Ids : SaysOfRow(j, invs[j], audit)
        /\ \A o \in Organizations \ {Home} : SaysOfOrg(o, orgs[o], audit)
    BY AuditSays DEF DbInv
  <2>3. \A j \in Ids : SaysOfRow(j, invs'[j], audit')
    BY <1>1, <2>1, <2>2 DEF SaysOfRow
  <2>4. ASSUME NEW o \in Organizations \ {Home} PROVE SaysOfOrg(o, orgs'[o], audit')
    <3>1. SaysOfOrg(o, orgs[o], audit)  BY <2>2
    <3>2. CASE o = n  BY <3>1, <3>2, <1>1, <1>3, <2>1 DEF SaysOfOrg
    <3>3. CASE o # n
      <4>1. orgs'[o] = orgs[o]  BY <3>3, <1>3
      <4> QED  BY <3>1, <3>3, <4>1, <2>1 DEF SaysOfOrg
    <3> QED  BY <3>2, <3>3
  <2> QED  BY <2>3, <2>4, AuditSays
<1>7. AcceptedRightly'
  <2>1. \A o \in Organizations : orgs'[o] # "absent" => orgs[o] # "absent"  BY <1>1, <1>3
  <2>2. AcceptedBinds'
    BY <1>1, <2>1 DEF DbInv, AcceptedRightly, AcceptedBinds, Accepted
  <2>3. AcceptedAsInvited'
    BY <1>1 DEF DbInv, AcceptedRightly, AcceptedAsInvited, Accepted
  <2> QED  BY <2>2, <2>3 DEF AcceptedRightly
<1>8. NothingForgotten'
  BY <1>1 DEF DbInv, NothingForgotten, Accepted, Outstanding
<1>9. PageIssuedLiveUnique'
  BY <1>1 DEF DbInv, PageIssuedLiveUnique
<1> QED  BY <1>4, <1>5, <1>6, <1>7, <1>8, <1>9 DEF DbInv

\* Whoever has accepted is a member (the unique index on the member's row).
LEMMA AccepterIsMember ==
  ASSUME DbInv, NEW j \in Ids, Accepted(j)
  PROVE  invs[j].acceptedBy \in Users /\ members[invs[j].acceptedBy] # NoMember
<1>1. /\ invs[j].acceptedBy \in Users
      /\ members[invs[j].acceptedBy] =
           [org |-> invs[j].acceptedOrg, role |-> GrantedRole(invs[j])]
  BY DEF DbInv, AccepterKnown, AcceptedRightly, AcceptedBinds
<1>2. members[invs[j].acceptedBy].role # "none"  BY <1>1 DEF GrantedRole
<1> QED  BY <1>1, <1>2 DEF NoMember

\* The acceptance: organization, member, invitation, access owed and audit row
\* in one transaction (Redeem, _redeem).
LEMMA RedeemStep ==
  ASSUME DbInv, NEW i \in Ids, NEW u \in Users, NEW o \in Organizations, NEW r,
         Redeem(r, i, u, o), idp' = idp,
         IF CreatesOrganization(invs[i]) THEN orgs[o] = "absent" ELSE o = invs[i].org,
         members[u] = NoMember, Consumable(invs[i]),
         EmailsMatch(invs[i].email, ClaimedEmail(u)), RequireVerified => Claim(u).verified
  PROVE  DbInv' /\ Steady(invs')
<1> DEFINE row == [[[invs[i] EXCEPT !.status = "accepted"] EXCEPT !.acceptedBy = u]
                     EXCEPT !.acceptedOrg = o]
           creates == CreatesOrganization(invs[i])
           role == GrantedRole(invs[i])
           m == [org |-> o, role |-> role]
<1>1. /\ invs \in [Ids -> RowShape] /\ invs[i] \in RowShape
      /\ members \in [Users -> MemberShape] /\ orgs \in [Organizations -> OrgStates]
      /\ grants \in [Users -> [1..NGroups -> GrantStates]]
      /\ invs[i].status = "pending" /\ ~invs[i].lapsed
  BY DEF DbInv, DbTypes, Consumable
<1>2. /\ invs' = [invs EXCEPT ![i] = row]
      /\ members' = [members EXCEPT ![u] = m]
      /\ orgs' = IF creates THEN [orgs EXCEPT ![o] = "placeholder"] ELSE orgs
  BY <1>1 DEF Redeem
<1>3. /\ row \in RowShape /\ row.status = "accepted" /\ row.acceptedBy = u /\ row.acceptedOrg = o
      /\ row.org = invs[i].org /\ row.email = invs[i].email /\ ~row.lapsed
  BY <1>1 DEF RowShape, Statuses, OrgRef
<1>4. role \in {"owner", "member"} /\ GrantedRole(row) = role /\ CreatesOrganization(row) = creates
  BY <1>3 DEF GrantedRole, CreatesOrganization
<1>5. /\ m \in MemberShape /\ m.org = o /\ m.role = role /\ m # NoMember
  BY <1>4 DEF MemberShape, OrgRef, NoMember
<1>c. /\ creates => invs[i].org = NoOrg /\ orgs[o] = "absent"
      /\ ~creates => invs[i].org = o /\ invs[i].org # NoOrg
      /\ creates \in BOOLEAN
  BY DEF CreatesOrganization
<1> HIDE DEF row, m, role, creates
<1>6. /\ invs' \in [Ids -> RowShape] /\ invs'[i] = row
      /\ \A j \in Ids \ {i} : invs'[j] = invs[j]
  BY <1>1, <1>2, <1>3
<1>7. /\ members' \in [Users -> MemberShape] /\ members'[u] = m
      /\ \A v \in Users \ {u} : members'[v] = members[v]
  BY <1>1, <1>2, <1>5
<1>8. /\ orgs' \in [Organizations -> OrgStates]
      /\ \A p \in Organizations \ {o} : orgs'[p] = orgs[p]
      /\ creates => orgs'[o] = "placeholder"
      /\ ~creates => orgs'[o] = orgs[o]
  BY <1>1, <1>2 DEF OrgStates
<1>9. /\ grants' \in [Users -> [1..NGroups -> GrantStates]]
      /\ \A v \in Users, g \in 1..NGroups :
           /\ grants'[v][g] = "granted" <=> grants[v][g] = "granted"
           /\ grants[v][g] # "none" => grants'[v][g] = grants[v][g]
      /\ \A g \in 1..NGroups : grants'[u][g] # "none"
  <2> DEFINE h == [g \in DOMAIN grants[u] |-> IF grants[u][g] = "none" THEN "pending" ELSE grants[u][g]]
  <2>1. grants' = [grants EXCEPT ![u] = h]  BY DEF Redeem, ClaimPending
  <2>2. /\ h \in [1..NGroups -> GrantStates]
        /\ \A g \in 1..NGroups : /\ h[g] = "granted" <=> grants[u][g] = "granted"
                                 /\ grants[u][g] # "none" => h[g] = grants[u][g]
                                 /\ h[g] # "none"
    BY <1>1 DEF GrantStates
  <2> HIDE DEF h
  <2> QED  BY <1>1, <2>1, <2>2
<1>10. Steady(invs')
  <2>1. ~Live(row)  BY <1>3 DEF Live
  <2> QED  BY <1>1, <1>3, <1>6, <2>1 DEF Steady, Spent, Live
<1>11. (DbTypes /\ OrgsKnown)'
  <2>1. orgs'[Home] = "named"
    BY <1>8, <1>c, NoOrgIsNone DEF DbInv, OrgsKnown
  <2> QED  BY SMTT(60), <1>5, <1>6, <1>7, <1>8, <1>9, <2>1 DEF DbInv, DbTypes, OrgsKnown
<1>12. /\ \A j \in Ids \ {i} : /\ Accepted(j)' <=> Accepted(j)
                               /\ invs'[j] = invs[j]
       /\ Accepted(i)' /\ ~Accepted(i)
  BY <1>1, <1>3, <1>6 DEF Accepted
<1>13. AccepterKnown'
  BY <1>3, <1>6, <1>12 DEF DbInv, AccepterKnown, Accepted
<1>14. GrantedIsThere'
  BY <1>9 DEF DbInv, GrantedIsThere
<1>15. AuditAgrees'
  <2>0. /\ \A j \in Ids : SaysOfRow(j, invs[j], audit)
        /\ \A p \in Organizations \ {Home} : SaysOfOrg(p, orgs[p], audit)
    BY AuditSays DEF DbInv
  <2>1. CASE creates
    <3>1. audit' = audit (+) SetToBag({<<"org.create", o>>})
      BY <2>1 DEF Redeem, Log, creates
    <3>2. /\ \A a, x : a # "org.create" \/ x # o =>
               /\ Logged(a, x, audit) => Logged(a, x, audit')
               /\ Unlogged(a, x, audit) => Unlogged(a, x, audit')
          /\ Unlogged("org.create", o, audit) => Logged("org.create", o, audit')
      BY <3>1, OneMore
    <3>3. ASSUME NEW j \in Ids PROVE SaysOfRow(j, invs'[j], audit')
      <4>1. SaysOfRow(j, invs[j], audit)  BY <2>0
      <4>2. CASE j = i
        <5>1. /\ invs'[j].status = "accepted" /\ invs'[j].org = NoOrg
              /\ invs[j].status = "pending"
          BY <4>2, <1>1, <1>3, <1>6, <1>c, <2>1
        <5> QED  BY <4>1, <5>1, <3>2 DEF SaysOfRow
      <4>3. CASE j # i
        <5>1. invs'[j] = invs[j]  BY <4>3, <1>6
        <5> QED  BY <4>1, <5>1, <3>2 DEF SaysOfRow
      <4> QED  BY <4>2, <4>3
    <3>4. ASSUME NEW p \in Organizations \ {Home} PROVE SaysOfOrg(p, orgs'[p], audit')
      <4>1. SaysOfOrg(p, orgs[p], audit)  BY <2>0
      <4>2. CASE p = o
        <5>1. orgs[p] = "absent" /\ orgs'[p] = "placeholder"  BY <4>2, <1>8, <1>c, <2>1
        <5> QED  BY <4>1, <4>2, <5>1, <3>2 DEF SaysOfOrg
      <4>3. CASE p # o
        <5>1. orgs'[p] = orgs[p]  BY <4>3, <1>8
        <5> QED  BY <4>1, <4>3, <5>1, <3>2 DEF SaysOfOrg
      <4> QED  BY <4>2, <4>3
    <3> QED  BY <3>3, <3>4, AuditSays
  <2>2. CASE ~creates
    <3>1. audit' = audit (+) SetToBag({<<"invitation.redeem", i>>})
      BY <2>2 DEF Redeem, Log, creates
    <3>2. /\ \A a, x : a # "invitation.redeem" \/ x # i =>
               /\ Logged(a, x, audit) => Logged(a, x, audit')
               /\ Unlogged(a, x, audit) => Unlogged(a, x, audit')
          /\ Unlogged("invitation.redeem", i, audit) => Logged("invitation.redeem", i, audit')
      BY <3>1, OneMore
    <3>3. ASSUME NEW j \in Ids PROVE SaysOfRow(j, invs'[j], audit')
      <4>1. SaysOfRow(j, invs[j], audit)  BY <2>0
      <4>2. CASE j = i
        <5>1. /\ invs'[j].status = "accepted" /\ invs'[j].org # NoOrg
              /\ invs[j].status = "pending"
          BY <4>2, <1>1, <1>3, <1>6, <1>c, <2>2
        <5> QED  BY <4>1, <4>2, <5>1, <3>2 DEF SaysOfRow
      <4>3. CASE j # i
        <5>1. invs'[j] = invs[j]  BY <4>3, <1>6
        <5> QED  BY <4>1, <4>3, <5>1, <3>2 DEF SaysOfRow
      <4> QED  BY <4>2, <4>3
    <3>4. ASSUME NEW p \in Organizations \ {Home} PROVE SaysOfOrg(p, orgs'[p], audit')
      <4>1. SaysOfOrg(p, orgs[p], audit) /\ orgs'[p] = orgs[p]  BY <2>0, <2>2, <1>8
      <4> QED  BY <4>1, <3>2 DEF SaysOfOrg
    <3> QED  BY <3>3, <3>4, AuditSays
  <2> QED  BY <2>1, <2>2
<1>16. AcceptedBinds'
  <2>1. ASSUME NEW j \in Ids, Accepted(j)
        PROVE  invs[j].acceptedBy \in Users /\ invs[j].acceptedBy # u
    BY <2>1, AccepterIsMember
  <2>2. ASSUME NEW j \in Ids, Accepted(j)'
        PROVE  /\ members'[invs'[j].acceptedBy] =
                    [org |-> invs'[j].acceptedOrg, role |-> GrantedRole(invs'[j])]
               /\ CreatesOrganization(invs'[j]) \/ invs'[j].acceptedOrg = invs'[j].org
    <3>1. CASE j = i
      <4>1. invs'[j] = row  BY <3>1, <1>6
      <4>2. CreatesOrganization(row) \/ row.acceptedOrg = row.org
        BY <1>3, <1>4, <1>c
      <4> QED  BY <4>1, <4>2, <1>3, <1>4, <1>7 DEF m
    <3>2. CASE j # i
      <4>1. invs'[j] = invs[j] /\ Accepted(j)  BY <2>2, <3>2, <1>12
      <4> QED  BY <4>1, <2>1, <1>7 DEF DbInv, AcceptedRightly, AcceptedBinds
    <3> QED  BY <3>1, <3>2
  <2>3. ASSUME NEW j \in Ids, NEW k \in Ids, j # k, Accepted(j)', Accepted(k)'
        PROVE  invs'[k].acceptedBy # invs'[j].acceptedBy
    <3>1. CASE j = i
      <4>1. invs'[k] = invs[k] /\ Accepted(k) /\ invs'[j].acceptedBy = u
        BY <2>3, <3>1, <1>3, <1>6, <1>12
      <4> QED  BY <4>1, <2>1
    <3>2. CASE k = i
      <4>1. invs'[j] = invs[j] /\ Accepted(j) /\ invs'[k].acceptedBy = u
        BY <2>3, <3>2, <1>3, <1>6, <1>12
      <4> QED  BY <4>1, <2>1
    <3>3. CASE j # i /\ k # i
      <4>1. invs'[j] = invs[j] /\ Accepted(j) /\ invs'[k] = invs[k] /\ Accepted(k)
        BY <2>3, <3>3, <1>12
      <4>2. AcceptedBinds /\ k \in Ids \ {j}  BY <2>3 DEF DbInv, AcceptedRightly
      <4>3. Accepted(k) => invs[k].acceptedBy # invs[j].acceptedBy
        BY <4>1, <4>2 DEF AcceptedBinds
      <4> QED  BY <4>1, <4>3
    <3> QED  BY <3>1, <3>2, <3>3
  <2>4. ASSUME NEW p \in Organizations \ {Home}, orgs'[p] # "absent"
        PROVE  \E j \in Ids : /\ Accepted(j)' /\ CreatesOrganization(invs'[j])
                              /\ invs'[j].acceptedOrg = p
    <3>1. CASE creates /\ p = o
      <4>1. Accepted(i)' /\ CreatesOrganization(invs'[i]) /\ invs'[i].acceptedOrg = p
        BY <3>1, <1>3, <1>4, <1>6, <1>12
      <4> QED  BY <4>1
    <3>2. CASE ~(creates /\ p = o)
      <4>1. orgs[p] # "absent"  BY <2>4, <3>2, <1>8
      <4>2. PICK j \in Ids : Accepted(j) /\ CreatesOrganization(invs[j]) /\ invs[j].acceptedOrg = p
        BY <4>1 DEF DbInv, AcceptedRightly, AcceptedBinds
      <4>3. j # i  BY <4>2, <1>12
      <4>4. Accepted(j)' /\ invs'[j] = invs[j]  BY <4>2, <4>3, <1>12
      <4> QED  BY <4>2, <4>4
    <3> QED  BY <3>1, <3>2
  <2> QED  BY <2>2, <2>3, <2>4 DEF AcceptedBinds, Accepted
<1>17. AcceptedAsInvited'
  <2> SUFFICES ASSUME NEW j \in Ids, Accepted(j)'
               PROVE  /\ Claim(invs'[j].acceptedBy).mail = invs'[j].email.mail
                      /\ RequireVerified => Claim(invs'[j].acceptedBy).verified
                      /\ ~invs'[j].lapsed
    BY DEF AcceptedAsInvited, Accepted
  <2>1. CASE j = i
    <3>1. invs[i].email \in Folded  BY <1>1 DEF RowShape
    <3>2. invs[i].email.mail = Claim(u).mail
      BY <3>1 DEF EmailsMatch, ValidateInvitedEmail, ClaimedEmail, Folded
    <3> QED  BY <2>1, <3>2, <1>3, <1>6
  <2>2. CASE j # i
    <3>1. invs'[j] = invs[j] /\ Accepted(j)  BY <2>2, <1>12
    <3> QED  BY <3>1 DEF DbInv, AcceptedRightly, AcceptedAsInvited
  <2> QED  BY <2>1, <2>2
<1>18. NothingForgotten'
  <2> SUFFICES ASSUME NEW j \in Ids, NEW g \in 1..NGroups, Accepted(j)',
                      <<invs'[j].acceptedBy, g>> \notin idp
               PROVE  grants'[invs'[j].acceptedBy][g] \in {"pending", "failed"}
    BY DEF NothingForgotten, Accepted, Outstanding
  <2>1. CASE j = i
    <3>1. invs'[j].acceptedBy = u  BY <2>1, <1>3, <1>6
    <3>0. grants'[u] \in [1..NGroups -> GrantStates]  BY <1>9
    <3>2. grants'[u][g] \in GrantStates /\ grants'[u][g] # "none"  BY <1>9, <3>0
    <3>3. grants'[u][g] # "granted"  BY <3>1, <1>9 DEF DbInv, GrantedIsThere
    <3> QED  BY <3>1, <3>2, <3>3 DEF GrantStates
  <2>2. CASE j # i
    <3>1. invs'[j] = invs[j] /\ Accepted(j) /\ invs[j].acceptedBy \in Users
      BY <2>2, <1>12 DEF DbInv, AccepterKnown
    <3>2. grants[invs[j].acceptedBy][g] \in {"pending", "failed"}
      BY <3>1 DEF DbInv, NothingForgotten, Outstanding
    <3> QED  BY <3>1, <3>2, <1>9
  <2> QED  BY <2>1, <2>2
<1>19. PageIssuedLiveUnique'
  <2>1. ~Live(row)  BY <1>3 DEF Live
  <2> QED  BY <2>1, <1>6 DEF DbInv, PageIssuedLiveUnique
<1> QED
  BY <1>10, <1>11, <1>13, <1>14, <1>15, <1>16, <1>17, <1>18, <1>19 DEF DbInv, AcceptedRightly

\* A signed-in user is made a member of the declared organization
\* (ProvisionMember).
LEMMA ProvisionStep ==
  ASSUME DbInv, NEW u \in Users, ProvisionMember(u)
  PROVE  DbInv' /\ Steady(invs')
<1> DEFINE m == [org |-> Home, role |-> "member"]
<1>1. /\ members' = [members EXCEPT ![u] = m] /\ members[u] = NoMember
      /\ UNCHANGED <<invs, orgs, grants, audit, idp>>
  BY DEF ProvisionMember
<1>2. m \in MemberShape /\ m.org \in Organizations
  BY NoOrgIsNone DEF MemberShape, OrgRef
<1> HIDE DEF m
<1>3. /\ members' \in [Users -> MemberShape] /\ members'[u] = m
      /\ \A v \in Users \ {u} : members'[v] = members[v]
  BY <1>1, <1>2 DEF DbInv, DbTypes
<1>4. Steady(invs')  BY <1>1 DEF Steady
<1>5. (DbTypes /\ OrgsKnown /\ GrantedIsThere /\ AccepterKnown)'
  BY <1>1, <1>2, <1>3 DEF DbInv, DbTypes, OrgsKnown, GrantedIsThere, AccepterKnown, Accepted
<1>6. AuditAgrees'  BY <1>1 DEF DbInv, AuditAgrees, Once, Accepted
<1>7. AcceptedBinds'
  <2>1. \A j \in Ids : Accepted(j) => members'[invs[j].acceptedBy] = members[invs[j].acceptedBy]
    BY <1>1, <1>3, AccepterIsMember
  <2> QED  BY <1>1, <2>1 DEF DbInv, AcceptedRightly, AcceptedBinds, Accepted
<1>8. AcceptedAsInvited'  BY <1>1 DEF DbInv, AcceptedRightly, AcceptedAsInvited, Accepted
<1>9. NothingForgotten'  BY <1>1 DEF DbInv, NothingForgotten, Accepted, Outstanding
<1>10. PageIssuedLiveUnique'  BY <1>1 DEF DbInv, PageIssuedLiveUnique
<1> QED  BY <1>4, <1>5, <1>6, <1>7, <1>8, <1>9, <1>10 DEF DbInv, AcceptedRightly

\* A grant is settled: as granted only when the provider said so, and never back
\* from granted (Settle, settle).
LEMMA SettleStep ==
  ASSUME Inv, NEW r \in Requests, Settle(r)
  PROVE  DbInv' /\ Steady(invs')
<1> DEFINE u == req[r].by
           g == req[r].group
           v == SettleState(grants[u][g], req[r].granted)
<1>1. /\ grants' = [grants EXCEPT ![u][g] = v] \/ grants' = grants
      /\ UNCHANGED <<invs, orgs, members, audit, idp>> /\ req[r].pc = "settle"
  BY DEF Settle
<1>2. /\ u \in Users /\ g \in 1..NGroups /\ (req[r].granted => <<u, g>> \in idp)
      /\ grants \in [Users -> [1..NGroups -> GrantStates]]
  BY <1>1 DEF Inv, ReqInv, ReqOk, Redeeming, Accepting, Granting, DbInv, DbTypes
<1>3. /\ v \in GrantStates /\ v # "none" /\ v # "pending"
      /\ v = "granted" => <<u, g>> \in idp
  BY <1>2 DEF SettleState, GrantStates, Inv, DbInv, GrantedIsThere
<1> HIDE DEF u, g, v
<1>4. /\ grants' \in [Users -> [1..NGroups -> GrantStates]]
      /\ \A w \in Users, h \in 1..NGroups :
           grants'[w][h] = grants[w][h] \/ (w = u /\ h = g /\ grants'[w][h] = v)
  <2>1. CASE grants' = [grants EXCEPT ![u][g] = v]
    BY <1>2, <1>3, <2>1
  <2> QED  BY <1>1, <1>2, <2>1
<1>5. Steady(invs')  BY <1>1 DEF Steady
<1>6. (DbTypes /\ OrgsKnown /\ AccepterKnown)'
  BY <1>1, <1>4 DEF Inv, DbInv, DbTypes, OrgsKnown, AccepterKnown, Accepted
<1>7. GrantedIsThere'
  BY <1>1, <1>3, <1>4 DEF Inv, DbInv, GrantedIsThere
<1>8. AuditAgrees'  BY <1>1 DEF Inv, DbInv, AuditAgrees, Once, Accepted
<1>9. AcceptedRightly'
  BY <1>1 DEF Inv, DbInv, AcceptedRightly, AcceptedBinds, AcceptedAsInvited, Accepted
<1>10. NothingForgotten'
  <2> SUFFICES ASSUME NEW j \in Ids, NEW h \in 1..NGroups, Accepted(j),
                      <<invs[j].acceptedBy, h>> \notin idp
               PROVE  grants'[invs[j].acceptedBy][h] \in {"pending", "failed"}
    BY <1>1 DEF NothingForgotten, Accepted, Outstanding
  <2>1. /\ invs[j].acceptedBy \in Users
        /\ grants[invs[j].acceptedBy][h] \in {"pending", "failed"}
    BY DEF Inv, DbInv, AccepterKnown, NothingForgotten, Outstanding
  <2> QED  BY <1>3, <1>4, <2>1 DEF GrantStates
<1>11. PageIssuedLiveUnique'  BY <1>1 DEF Inv, DbInv, PageIssuedLiveUnique
<1> QED  BY <1>5, <1>6, <1>7, <1>8, <1>9, <1>10, <1>11 DEF DbInv

\* The grant's own audit row is of another kind (Record).
LEMMA RecordStep ==
  ASSUME DbInv, NEW r \in Requests, Record(r)
  PROVE  DbInv' /\ Steady(invs')
<1>1. UNCHANGED <<invs, orgs, members, grants, idp>>  BY DEF Record
<1>2. CASE UNCHANGED audit
  <2>1. UNCHANGED db  BY <1>1, <1>2 DEF db
  <2> QED  BY <1>1, <2>1, QuietStep
<1>3. CASE Log("service_access.grant", <<req[r].by, req[r].group>>)
  <2> DEFINE x == <<req[r].by, req[r].group>>
  <2>1. audit' = audit (+) SetToBag({<<"service_access.grant", x>>})  BY <1>3 DEF Log
  <2> HIDE DEF x
  <2>2. \A a, y : a # "service_access.grant" =>
             /\ Logged(a, y, audit) => Logged(a, y, audit')
             /\ Unlogged(a, y, audit) => Unlogged(a, y, audit')
    BY <2>1, OneMore
  <2>3. /\ \A j \in Ids : SaysOfRow(j, invs[j], audit)
        /\ \A o \in Organizations \ {Home} : SaysOfOrg(o, orgs[o], audit)
    BY AuditSays DEF DbInv
  <2>4. /\ \A j \in Ids : SaysOfRow(j, invs'[j], audit')
        /\ \A o \in Organizations \ {Home} : SaysOfOrg(o, orgs'[o], audit')
    BY <1>1, <2>2, <2>3 DEF SaysOfRow, SaysOfOrg
  <2>5. AuditAgrees'  BY <2>4, AuditSays
  <2>6. Steady(invs')  BY <1>1 DEF Steady
  <2>7. (DbTypes /\ OrgsKnown /\ AccepterKnown /\ GrantedIsThere)'
    BY <1>1 DEF DbInv, DbTypes, OrgsKnown, AccepterKnown, GrantedIsThere, Accepted
  <2>8. AcceptedRightly'
    BY <1>1 DEF DbInv, AcceptedRightly, AcceptedBinds, AcceptedAsInvited, Accepted
  <2>9. (NothingForgotten /\ PageIssuedLiveUnique)'
    BY <1>1 DEF DbInv, NothingForgotten, Outstanding, Accepted, PageIssuedLiveUnique
  <2> QED  BY <2>5, <2>6, <2>7, <2>8, <2>9 DEF DbInv
<1> QED  BY <1>2, <1>3 DEF Record

-----------------------------------------------------------------------------
(* The requests' steps *)

\* A request begins (Begin): the three kinds of request that issue, revoke and
\* accept.
LEMMA IssueStep ==
  ASSUME Inv, NEW r \in Requests, NEW op \in {"api", "page"},
         NEW at \in {"insert", "check"}, op = "page" => at = "check",
         NEW e \in Typed, NEW o \in OrgRef, Issue(r, op, at, e, o)
  PROVE  Inv'
<1> DEFINE q == [Idle EXCEPT !.op = op, !.pc = at, !.org = o, !.email = ValidateInvitedEmail(e)]
<1>1. req' = [req EXCEPT ![r] = q] /\ UNCHANGED <<db, idp, links>>
  BY DEF Issue, Begin
<1>2. ValidateInvitedEmail(e) \in Folded
  BY DEF ValidateInvitedEmail, Typed, Folded
<1>3. /\ q \in ReqShape /\ q.op = op /\ q.pc = at /\ ~q.web
  BY <1>2, IdleIsFine DEF ReqShape, Redeeming, Accepting
<1> HIDE DEF q
<1>4. ~PageInserts(q)  BY <1>3 DEF PageInserts
<1>5. ReqOk(q, invs', idp')
  BY <1>3, <1>4 DEF ReqOk, Targeting, Redeeming, Accepting, Granting
<1>6. DbInv' /\ Steady(invs')  BY <1>1, QuietStep DEF Inv
<1>7. links' \subseteq Ids /\ \A i \in links' : invs'[i].status # "none"
  BY <1>1, <1>6, SameLinks DEF Inv
<1>8. ReqInv'  BY <1>1, <1>3, <1>4, <1>5, <1>6, <1>7, OneRequest DEF Inv
<1> QED  BY <1>6, <1>8 DEF Inv

\* A revocation begins with a read outside its transaction (RevokeRead).
LEMMA RevokeReadStep ==
  ASSUME Inv, NEW r \in Requests, NEW i \in Ids, NEW o, RevokeRead(r, i, o)
  PROVE  Inv'
<1> DEFINE q == [Idle EXCEPT !.op = "revoke", !.pc = "revoke", !.inv = i]
<1>1. req' = [req EXCEPT ![r] = q] /\ UNCHANGED <<db, idp, links>> /\ invs[i].status # "none"
  BY DEF RevokeRead, Begin
<1>2. /\ q \in ReqShape /\ q.op = "revoke" /\ q.pc = "revoke" /\ q.inv = i /\ ~q.web
  BY IdleIsFine DEF ReqShape, Redeeming, Accepting
<1> HIDE DEF q
<1>3. ~PageInserts(q)  BY <1>2 DEF PageInserts
<1>4. invs' = invs  BY <1>1 DEF db
<1>5. ReqOk(q, invs', idp')
  BY <1>1, <1>2, <1>3, <1>4 DEF ReqOk, Targeting, Redeeming, Accepting, Granting
<1>6. DbInv' /\ Steady(invs')  BY <1>1, QuietStep DEF Inv
<1>7. links' \subseteq Ids /\ \A j \in links' : invs'[j].status # "none"
  BY <1>1, <1>6, SameLinks DEF Inv
<1>8. ReqInv'  BY <1>1, <1>2, <1>3, <1>5, <1>6, <1>7, OneRequest DEF Inv
<1> QED  BY <1>6, <1>8 DEF Inv

\* An acceptance begins with a link that reached a mailbox (AcceptInvitation).
LEMMA AcceptBegins ==
  ASSUME Inv, NEW r \in Requests, NEW u \in Users, NEW i \in Ids, NEW web \in BOOLEAN,
         AcceptInvitation(r, u, i, web)
  PROVE  Inv'
<1> DEFINE q == [Idle EXCEPT !.op = "accept", !.pc = "read", !.by = u, !.inv = i, !.web = web]
<1>1. req' = [req EXCEPT ![r] = q] /\ UNCHANGED <<db, idp, links>> /\ i \in links
  BY DEF AcceptInvitation, Begin
<1>2. /\ q \in ReqShape /\ q.op = "accept" /\ q.pc = "read" /\ q.inv = i /\ q.by = u
  BY IdleIsFine DEF ReqShape, Redeeming, Accepting
<1> HIDE DEF q
<1>3. ~PageInserts(q)  BY <1>2 DEF PageInserts
<1>4. invs' = invs /\ invs[i].status # "none"  BY <1>1 DEF db, Inv, ReqInv
<1>5. ReqOk(q, invs', idp')
  BY <1>1, <1>2, <1>3, <1>4 DEF ReqOk, Targeting, Redeeming, Accepting, Granting
<1>6. DbInv' /\ Steady(invs')  BY <1>1, QuietStep DEF Inv
<1>7. links' \subseteq Ids /\ \A j \in links' : invs'[j].status # "none"
  BY <1>1, <1>6, SameLinks DEF Inv
<1>8. ReqInv'  BY <1>1, <1>2, <1>3, <1>5, <1>6, <1>7, OneRequest DEF Inv
<1> QED  BY <1>6, <1>8 DEF Inv

\* A request that leaves the database alone and ends.
LEMMA QuietDone ==
  ASSUME Inv, NEW r \in Requests, NEW result \in Words, Done(r, result), UNCHANGED <<db, idp, links>>,
         req[r].op = "accept" => TrueOf(result, invs[req[r].inv], req[r].by)
  PROVE  Inv'
<1>1. DbInv' /\ Steady(invs')  BY QuietStep DEF Inv
<1>2. links' \subseteq Ids /\ \A j \in links' : invs'[j].status # "none"
  BY <1>1, SameLinks DEF Inv
<1>3. invs' = invs  BY DEF db
<1>4. ReqInv'  BY <1>1, <1>2, <1>3, DoneIsFine DEF Inv
<1> QED  BY <1>1, <1>4 DEF Inv

\* A request that leaves the database alone and goes on to another step.
LEMMA QuietGoto ==
  ASSUME Inv, NEW r \in Requests, NEW q \in ReqShape, req' = [req EXCEPT ![r] = q],
         ReqOk(q, invs, idp), UNCHANGED <<db, idp, links>>,
         \A s \in Requests \ {r} :
           PageInserts(q) /\ PageInserts(req[s]) => q.email # req[s].email
  PROVE  Inv'
<1>1. DbInv' /\ Steady(invs')  BY QuietStep DEF Inv
<1>2. links' \subseteq Ids /\ \A j \in links' : invs'[j].status # "none"
  BY <1>1, SameLinks DEF Inv
<1>3. invs' = invs /\ idp' = idp  BY DEF db
<1>4. ReqInv'  BY <1>1, <1>2, <1>3, OneRequest DEF Inv
<1> QED  BY <1>1, <1>4 DEF Inv

\* A page looks for a live invitation under the address's lock (create_unless_live).
LEMMA CheckStep ==
  ASSUME Inv, NEW r \in Requests, CheckUnderLock(r)
  PROVE  Inv'
<1>0. req[r].op # "accept"
  BY DEF CheckUnderLock, Inv, ReqInv, ReqOk, Redeeming, Accepting
<1>1. CASE LiveAt(req[r].email)
  BY <1>0, <1>1, QuietDone, AnswersAreWords DEF CheckUnderLock
<1>2. CASE ~LiveAt(req[r].email)
  <2> DEFINE q == [req[r] EXCEPT !.pc = "insert"]
  <2>0. req[r] \in ReqShape /\ ReqOk(req[r], invs, idp) /\ req \in [Requests -> ReqShape]
    BY DEF Inv, ReqInv
  <2>1. /\ req' = [req EXCEPT ![r] = q] /\ UNCHANGED <<db, idp, links>>
        /\ req[r].pc = "check" /\ ~AddressLocked(req[r].email)
    BY <1>2, <2>0 DEF CheckUnderLock, Goto
  <2>2. /\ q \in ReqShape /\ q.pc = "insert" /\ q.op = req[r].op /\ q.email = req[r].email
        /\ q.web = req[r].web
    BY <2>0 DEF ReqShape
  <2> HIDE DEF q
  <2>3. \A i \in Ids : ~Shown(invs[i], q.email)
    BY <1>2, <2>2 DEF LiveAt, Shown
  <2>4. ReqOk(q, invs, idp)
    BY <2>0, <2>1, <2>2, <2>3 DEF ReqOk, Targeting, Redeeming, Accepting, Granting
  <2>5. \A s \in Requests \ {r} : PageInserts(req[s]) => q.email # req[s].email
    BY <2>1, <2>2 DEF AddressLocked, PageInserts
  <2> QED  BY <2>1, <2>2, <2>4, <2>5, QuietGoto
<1> QED  BY <1>1, <1>2

\* The message goes out, or does not (Deliver).
LEMMA DeliverStep ==
  ASSUME Inv, NEW r \in Requests, Deliver(r)
  PROVE  Inv'
<1>1. DbInv' /\ Steady(invs') /\ UNCHANGED <<db, idp>>  BY QuietStep DEF Inv, Deliver
<1>2. PICK outcome \in {"provider_accepted", "failed", "unknown"}, arrives \in BOOLEAN :
        /\ links' = IF arrives THEN links \cup {req[r].inv} ELSE links
        /\ Done(r, outcome) /\ outcome \in Words
  BY AnswersAreWords DEF Deliver
<1>3. req[r].inv \in Ids /\ invs[req[r].inv].status # "none" /\ req[r].op # "accept"
  BY DEF Deliver, Inv, ReqInv, ReqOk, Targeting, Redeeming, Accepting
<1>4. links' \subseteq Ids /\ \A j \in links' : invs'[j].status # "none"
  BY <1>1, <1>2, <1>3 DEF db, Inv, ReqInv
<1>5. ReqInv'  BY <1>1, <1>2, <1>3, <1>4, DoneIsFine DEF Inv
<1> QED  BY <1>1, <1>5 DEF Inv

\* The insert: no other page is about to insert at the same address, so what the
\* others have looked for is still not there.
LEMMA InsertRequest ==
  ASSUME Inv, NEW r \in Requests, Insert(r)
  PROVE  Inv'
<1> DEFINE n == FreshId
           q == [[req[r] EXCEPT !.pc = "deliver"] EXCEPT !.inv = n]
<1>0. /\ req \in [Requests -> ReqShape] /\ req[r] \in ReqShape /\ ReqOk(req[r], invs, idp)
      /\ req[r].pc = "insert" /\ n \in Ids /\ UNCHANGED <<idp, links>>
  BY FreshIdIsFree DEF Inv, ReqInv, Insert
<1>1. req' = [req EXCEPT ![r] = q]  BY <1>0 DEF Insert
<1>2. /\ q \in ReqShape /\ q.pc = "deliver" /\ q.op = req[r].op /\ q.inv = n
      /\ q.web = req[r].web
  BY <1>0 DEF ReqShape
<1>3. /\ DbInv'
      /\ \A i \in Ids : invs[i].status # "none" => invs'[i] = invs[i]
      /\ invs'[n].status # "none" /\ invs'[n].email = req[r].email
      /\ invs'[n].checked => req[r].op = "page"
      /\ \A i \in Ids \ {n} : invs'[i] = invs[i]
  BY InsertStep
<1> HIDE DEF n, q
<1>4. ReqOk(q, invs', idp')
  BY <1>0, <1>2, <1>3 DEF ReqOk, Targeting, Redeeming, Accepting, Granting, PageInserts
<1>5. ASSUME NEW s \in Requests, s # r PROVE ReqOk(req[s], invs', idp')
  <2>1. req[s] \in ReqShape /\ ReqOk(req[s], invs, idp)  BY DEF Inv, ReqInv
  <2>2. ASSUME NEW i \in Ids, PageInserts(req[s]) PROVE ~Shown(invs'[i], req[s].email)
    <3>1. CASE i # n  BY <3>1, <2>1, <2>2, <1>3 DEF ReqOk
    <3>2. CASE i = n /\ invs'[n].checked
      <4>1. PageInserts(req[r])  BY <3>2, <1>0, <1>3 DEF PageInserts
      <4>2. req[s].email # req[r].email  BY <4>1, <1>5, <2>2 DEF Inv, ReqInv, OnePage
      <4> QED  BY <3>2, <4>2, <1>3 DEF Shown
    <3>3. CASE i = n /\ ~invs'[n].checked  BY <3>3 DEF Shown
    <3> QED  BY <3>1, <3>2, <3>3
  <2>3. req[s].pc \in Targeting => /\ req[s].inv \in Ids /\ invs'[req[s].inv].status # "none"
                                   /\ invs'[req[s].inv] = invs[req[s].inv]
    BY <2>1, <1>3 DEF ReqOk
  <2>4. req[s].pc \in {"consume", "done"} \cup Granting => req[s].pc \in Targeting
    BY DEF Targeting, Redeeming, Accepting, Granting
  <2> QED  BY <2>1, <2>2, <2>3, <2>4, <1>0 DEF ReqOk
<1>6. \A s \in Requests \ {r} : req'[s] = req[s]  BY <1>0, <1>1
<1>7. req'[r] = q /\ req' \in [Requests -> ReqShape]  BY <1>0, <1>1, <1>2
<1>8. \A s \in Requests : ReqOk(req'[s], invs', idp')  BY <1>4, <1>5, <1>6, <1>7
<1>9. ~PageInserts(q)  BY <1>2 DEF PageInserts
<1>10. OnePage'
  <2> SUFFICES ASSUME NEW s \in Requests, NEW t \in Requests, s # t,
                      PageInserts(req'[s]), PageInserts(req'[t])
               PROVE  req'[s].email # req'[t].email
    BY DEF OnePage, PageInserts
  <2>1. s # r /\ t # r  BY <1>7, <1>9
  <2>2. req'[s] = req[s] /\ req'[t] = req[t]  BY <2>1, <1>6
  <2> QED  BY <2>2 DEF Inv, ReqInv, OnePage
<1>11. links' \subseteq Ids /\ \A i \in links' : invs'[i].status # "none"
  BY <1>0, <1>3 DEF Inv, ReqInv
<1> QED  BY <1>3, <1>7, <1>8, <1>10, <1>11 DEF Inv, ReqInv

\* The revocation commits, or finds the row already final (RevokeCommit, revoke).
LEMMA RevokeCommitStep ==
  ASSUME Inv, NEW r \in Requests, RevokeCommit(r)
  PROVE  Inv'
<1> DEFINE i == req[r].inv
<1>1. i \in Ids /\ UNCHANGED <<orgs, members, grants, idp, links>> /\ req[r].op # "accept"
  BY DEF RevokeCommit, Inv, ReqInv, ReqOk, Targeting, Redeeming, Accepting
<1>2. CASE UNCHANGED <<invs, audit>> /\ \E result \in Words : Done(r, result)
  <2>1. UNCHANGED <<db, idp, links>>  BY <1>1, <1>2 DEF db
  <2> QED  BY <1>1, <1>2, <2>1, QuietDone
<1>3. CASE /\ invs[i].status = "pending"
           /\ invs' = [invs EXCEPT ![i].status = "revoked"]
           /\ Log("invitation.revoke", i)
           /\ Done(r, "revoked")
  <2>1. DbInv' /\ Steady(invs')  BY <1>1, <1>3, RevokeStep DEF Inv
  <2>2. links' \subseteq Ids /\ \A j \in links' : invs'[j].status # "none"
    BY <1>1, <2>1, SameLinks DEF Inv
  <2>3. ReqInv'  BY <1>1, <1>3, <2>1, <2>2, DoneIsFine, AnswersAreWords DEF Inv
  <2> QED  BY <2>1, <2>3 DEF Inv
<1> QED  BY <1>2, <1>3, AnswersAreWords DEF RevokeCommit

\* The acceptance is first evaluated outside the transaction (AcceptRead).
LEMMA AcceptReadStep ==
  ASSUME Inv, NEW r \in Requests, AcceptRead(r)
  PROVE  Inv'
<1> DEFINE i == req[r].inv
           u == req[r].by
<1>0. /\ i \in Ids /\ invs[i] \in RowShape /\ invs[i].status # "none"
      /\ invs[i].status = "accepted" => invs[i].acceptedOrg # NoOrg
  BY NoOrgIsNone DEF AcceptRead, Inv, ReqInv, ReqOk, Targeting, Redeeming, Accepting, DbInv, DbTypes,
                     AccepterKnown, Accepted
<1>1. UNCHANGED <<db, idp, links>>  BY DEF AcceptRead
<1>2. CASE \E result \in Words : Done(r, result) /\ TrueOf(result, invs[i], u)
  BY <1>1, <1>2, QuietDone
<1>3. CASE EvaluateAcceptance(invs[req[r].inv], req[r].by, RequireVerified) = "go" /\ Goto(r, "lock")
  <2> DEFINE q == [req[r] EXCEPT !.pc = "lock"]
  <2>0. /\ req[r] \in ReqShape /\ ReqOk(req[r], invs, idp) /\ req \in [Requests -> ReqShape]
        /\ req[r].pc = "read"
    BY DEF Inv, ReqInv, AcceptRead
  <2>1. req' = [req EXCEPT ![r] = q]  BY <1>3, <2>0 DEF Goto
  <2>2. /\ q \in ReqShape /\ q.pc = "lock" /\ q.op = req[r].op /\ q.by = req[r].by
        /\ q.inv = req[r].inv /\ q.web = req[r].web
    BY <2>0 DEF ReqShape, Redeeming, Accepting
  <2> HIDE DEF q
  <2>3. RequireVerified => Claim(q.by).verified  BY <1>3, <2>2, GoMeans, SettingsAssumption
  <2>4. ReqOk(q, invs, idp)
    BY <2>0, <2>2, <2>3 DEF ReqOk, Targeting, Redeeming, Accepting, Granting, PageInserts
  <2>5. ~PageInserts(q)  BY <2>2 DEF PageInserts
  <2> QED  BY <1>1, <2>1, <2>2, <2>4, <2>5, QuietGoto
<1> QED  BY <1>0, <1>2, <1>3, AnswersAreWords, AnswersAreTrue DEF AcceptRead

\* It is evaluated again with the row locked (AcceptLock, _redeem).
LEMMA AcceptLockStep ==
  ASSUME Inv, NEW r \in Requests, AcceptLock(r)
  PROVE  Inv'
<1> DEFINE i == req[r].inv
           u == req[r].by
<1>0. /\ i \in Ids /\ invs[i] \in RowShape /\ invs[i].status # "none"
      /\ invs[i].status = "accepted" => invs[i].acceptedOrg # NoOrg
  BY NoOrgIsNone DEF AcceptLock, Inv, ReqInv, ReqOk, Targeting, Redeeming, Accepting, DbInv, DbTypes,
                     AccepterKnown, Accepted
<1>1. UNCHANGED <<db, idp, links>>  BY DEF AcceptLock
<1>2. CASE \E result \in Words : Done(r, result) /\ TrueOf(result, invs[i], u)
  BY <1>1, <1>2, QuietDone
<1>3. CASE EvaluateAcceptance(invs[req[r].inv], req[r].by, FALSE) = "go" /\ Goto(r, "consume")
  <2> DEFINE q == [req[r] EXCEPT !.pc = "consume"]
  <2>0. /\ req[r] \in ReqShape /\ ReqOk(req[r], invs, idp) /\ req \in [Requests -> ReqShape]
        /\ req[r].pc = "lock"
    BY DEF Inv, ReqInv, AcceptLock
  <2>1. req' = [req EXCEPT ![r] = q]  BY <1>3, <2>0 DEF Goto
  <2>2. /\ q \in ReqShape /\ q.pc = "consume" /\ q.op = req[r].op /\ q.by = req[r].by
        /\ q.inv = req[r].inv /\ q.web = req[r].web
    BY <2>0 DEF ReqShape, Redeeming, Accepting
  <2> HIDE DEF q
  <2>3. EmailsMatch(invs[q.inv].email, ClaimedEmail(q.by))  BY <1>3, <2>2, GoMeans
  <2>4. ReqOk(q, invs, idp)
    BY <2>0, <2>2, <2>3 DEF ReqOk, Targeting, Redeeming, Accepting, Granting, PageInserts
  <2>5. ~PageInserts(q)  BY <2>2 DEF PageInserts
  <2> QED  BY <1>1, <2>1, <2>2, <2>4, <2>5, QuietGoto
<1> QED  BY <1>0, <1>2, <1>3, AnswersAreWords, AnswersAreTrue, OthersAreTrue DEF AcceptLock

\* The request goes on to the next group, or answers (ThenGrant).
LEMMA ThenGrantIsFine ==
  ASSUME Inv, DbInv', Steady(invs'), NEW r \in Requests, NEW g, ThenGrant(r, g),
         req[r].pc \in {"consume", "record"}, UNCHANGED <<idp, links>>,
         TakenBy(invs'[req[r].inv], req[r].by)
  PROVE  Inv'
<1>1. links' \subseteq Ids /\ \A j \in links' : invs'[j].status # "none"
  BY SameLinks DEF Inv
<1>2. CASE g \notin GroupsToGrant
  <2>0. TrueOf("accepted", invs'[req[r].inv], req[r].by)  BY DEF TrueOf
  <2>1. ReqInv'  BY <1>1, <1>2, <2>0, DoneIsFine, AnswersAreWords DEF Inv, ThenGrant
  <2> QED  BY <2>1 DEF Inv
<1>3. CASE g \in GroupsToGrant
  <2> DEFINE q == [[req[r] EXCEPT !.group = g] EXCEPT !.pc = "grant"]
  <2>0. /\ req[r] \in ReqShape /\ ReqOk(req[r], invs, idp) /\ req \in [Requests -> ReqShape]
        /\ g \in 1..NGroups
    BY <1>3 DEF Inv, ReqInv, GroupsToGrant
  <2>1. req' = [req EXCEPT ![r] = q]  BY <1>3, <2>0 DEF ThenGrant
  <2>2. /\ q \in ReqShape /\ q.pc = "grant" /\ q.op = req[r].op /\ q.by = req[r].by
        /\ q.group = g /\ q.inv = req[r].inv /\ q.web = req[r].web
    BY <2>0 DEF ReqShape, Redeeming, Accepting
  <2> HIDE DEF q
  <2>r. ReqOk(req[r], invs', idp')  BY <2>0, StillOk
  <2>3. ReqOk(q, invs', idp')
    BY <2>0, <2>2, <2>r DEF ReqOk, Targeting, Redeeming, Accepting, Granting, PageInserts
  <2>4. ~PageInserts(q)  BY <2>2 DEF PageInserts
  <2>5. ReqInv'  BY <1>1, <2>1, <2>2, <2>3, <2>4, OneRequest DEF Inv
  <2> QED  BY <2>5 DEF Inv
<1> QED  BY <1>2, <1>3

\* The acceptance's transaction (AcceptConsume, _redeem).
LEMMA ConsumeStep ==
  ASSUME Inv, NEW r \in Requests, AcceptConsume(r)
  PROVE  Inv'
<1> DEFINE i == req[r].inv
           u == req[r].by
           o == IF CreatesOrganization(invs[i]) THEN FreshOrg ELSE invs[i].org
<1>1. /\ req[r].pc = "consume" /\ UNCHANGED <<idp, links>>
      /\ CreatesOrganization(invs[i]) => \E p \in Organizations : orgs[p] = "absent"
  BY DEF AcceptConsume
<1>2. /\ i \in Ids /\ u \in Users /\ EmailsMatch(invs[i].email, ClaimedEmail(u))
      /\ RequireVerified => Claim(u).verified
  BY <1>1 DEF Inv, ReqInv, ReqOk, Targeting, Redeeming, Accepting
<1>3. CASE UNCHANGED db /\ \E result \in Words : Done(r, result) /\ TrueOf(result, invs[i], u)
  BY <1>1, <1>3, QuietDone
<1>4. CASE members[u] = NoMember /\ Consumable(invs[i]) /\ Redeem(r, i, u, o)
  <2>1. /\ o \in Organizations
        /\ IF CreatesOrganization(invs[i]) THEN orgs[o] = "absent" ELSE o = invs[i].org
    <3>1. CASE CreatesOrganization(invs[i])  BY <3>1, <1>1, FreshOrgIsAbsent
    <3>2. CASE ~CreatesOrganization(invs[i])
      BY <3>2, <1>2 DEF Inv, DbInv, DbTypes, RowShape, OrgRef, CreatesOrganization
    <3> QED  BY <3>1, <3>2
  <2> HIDE DEF o, i, u
  <2>2. DbInv' /\ Steady(invs')  BY <1>1, <1>2, <1>4, <2>1, RedeemStep DEF Inv
  <2>3. ThenGrant(r, 1)  BY <1>4 DEF Redeem
  <2>4. TakenBy(invs'[i], u)
    <3>1. invs \in [Ids -> RowShape] /\ invs[i] \in RowShape  BY <1>2 DEF Inv, DbInv, DbTypes
    <3>2. invs' = [invs EXCEPT ![i] = [[[invs[i] EXCEPT !.status = "accepted"] EXCEPT !.acceptedBy = u]
                                        EXCEPT !.acceptedOrg = o]]
      BY <1>2, <1>4, <3>1 DEF Redeem
    <3> QED  BY <1>2, <3>1, <3>2 DEF TakenBy, RowShape
  <2> QED  BY <1>1, <2>2, <2>3, <2>4, ThenGrantIsFine DEF i, u
<1>5. invs[i] \in RowShape /\ invs[i].status # "none"
  BY <1>1, <1>2 DEF Inv, ReqInv, ReqOk, Targeting, Redeeming, Accepting, DbInv, DbTypes
<1>6. CASE members[u] = NoMember /\ ~Consumable(invs[i]) /\ Done(r, TerminalStateOf(invs[i])) /\ UNCHANGED db
  <2>1. ~TakenBy(invs[i], u)  BY <1>2, <1>6, AccepterIsMember DEF Inv, TakenBy, Accepted
  <2> QED  BY <1>3, <1>5, <1>6, <2>1, TerminalIsTrue, AnswersAreWords
<1>7. CASE Done(r, "already_in_organization") /\ UNCHANGED db
  BY <1>3, <1>7, OthersAreTrue, AnswersAreWords
<1> QED  BY <1>4, <1>6, <1>7 DEF AcceptConsume

\* A group is granted at the provider, whatever its answer (Grant).
LEMMA GrantStep ==
  ASSUME Inv, NEW r \in Requests, Grant(r)
  PROVE  Inv'
<1>1. PICK applied \in BOOLEAN, granted \in BOOLEAN :
        /\ granted => applied
        /\ idp' = IF applied THEN idp \cup {<<req[r].by, req[r].group>>} ELSE idp
        /\ req' = [req EXCEPT ![r].granted = granted, ![r].pc = "settle"]
  BY DEF Grant
<1> DEFINE q == [[req[r] EXCEPT !.granted = granted] EXCEPT !.pc = "settle"]
<1>2. /\ req[r] \in ReqShape /\ ReqOk(req[r], invs, idp) /\ req \in [Requests -> ReqShape]
      /\ req[r].pc = "grant" /\ UNCHANGED <<db, links>>
  BY DEF Inv, ReqInv, Grant
<1>3. req' = [req EXCEPT ![r] = q]  BY <1>1, <1>2
<1>4. /\ q \in ReqShape /\ q.pc = "settle" /\ q.op = req[r].op /\ q.by = req[r].by
      /\ q.group = req[r].group /\ q.granted = granted /\ q.inv = req[r].inv /\ q.web = req[r].web
  BY <1>2 DEF ReqShape, Redeeming, Accepting
<1> HIDE DEF q
<1>5. idp \subseteq idp' /\ (granted => <<req[r].by, req[r].group>> \in idp')  BY <1>1
<1>r. invs' = invs  BY <1>2 DEF db
<1>6. ReqOk(q, invs', idp')
  BY <1>2, <1>4, <1>5, <1>r DEF ReqOk, Targeting, Redeeming, Accepting, Granting, PageInserts
<1>7. DbInv' /\ Steady(invs')  BY <1>2, <1>5, QuietStep DEF Inv
<1>8. links' \subseteq Ids /\ \A j \in links' : invs'[j].status # "none"
  BY <1>2, <1>7, SameLinks DEF Inv
<1>9. ~PageInserts(q)  BY <1>4 DEF PageInserts
<1>10. ReqInv'  BY <1>3, <1>4, <1>5, <1>6, <1>7, <1>8, <1>9, OneRequest DEF Inv
<1> QED  BY <1>7, <1>10 DEF Inv

\* The request goes on from a settled grant to its record.
LEMMA SettleRequest ==
  ASSUME Inv, NEW r \in Requests, Settle(r)
  PROVE  Inv'
<1> DEFINE q == [req[r] EXCEPT !.pc = "record"]
<1>1. /\ req[r] \in ReqShape /\ ReqOk(req[r], invs, idp) /\ req \in [Requests -> ReqShape]
      /\ req[r].pc = "settle" /\ UNCHANGED <<idp, links>>
  BY DEF Inv, ReqInv, Settle
<1>2. req' = [req EXCEPT ![r] = q]  BY <1>1 DEF Settle, Goto
<1>3. /\ q \in ReqShape /\ q.pc = "record" /\ q.op = req[r].op /\ q.by = req[r].by
      /\ q.group = req[r].group /\ q.inv = req[r].inv /\ q.web = req[r].web
  BY <1>1 DEF ReqShape, Redeeming, Accepting
<1> HIDE DEF q
<1>r. invs' = invs /\ idp' = idp  BY DEF Settle
<1>4. ReqOk(q, invs', idp')
  BY <1>1, <1>3, <1>r DEF ReqOk, Targeting, Redeeming, Accepting, Granting, PageInserts
<1>5. DbInv' /\ Steady(invs')  BY SettleStep
<1>6. links' \subseteq Ids /\ \A j \in links' : invs'[j].status # "none"
  BY <1>1, <1>5, SameLinks DEF Inv
<1>7. ~PageInserts(q)  BY <1>3 DEF PageInserts
<1>8. ReqInv'  BY <1>1, <1>2, <1>3, <1>4, <1>5, <1>6, <1>7, OneRequest DEF Inv
<1> QED  BY <1>5, <1>8 DEF Inv

\* The request goes on from a recorded grant to the next group.
LEMMA RecordRequest ==
  ASSUME Inv, NEW r \in Requests, Record(r)
  PROVE  Inv'
<1>1. DbInv' /\ Steady(invs')  BY RecordStep DEF Inv
<1>2. req[r].pc = "record" /\ ThenGrant(r, req[r].group + 1) /\ UNCHANGED <<invs, idp, links>>
  BY DEF Record
<1>3. TakenBy(invs'[req[r].inv], req[r].by)  BY <1>2 DEF Inv, ReqInv, ReqOk, Granting
<1> QED  BY <1>1, <1>2, <1>3, ThenGrantIsFine

\* A conflict sends the operation back to its first step (_retrying).
LEMMA ConflictStep ==
  ASSUME Inv, NEW r \in Requests, TransientConflict(r)
  PROVE  Inv'
<1>1. UNCHANGED <<db, idp, links>>  BY DEF TransientConflict
<1>2. CASE Done(r, "error")  BY <1>1, <1>2, QuietDone, AnswersAreWords, OthersAreTrue
<1>3. CASE req' = [req EXCEPT ![r].pc = FirstStep(req[r]), ![r].tries = @ + 1]
  <2> DEFINE q == [[req[r] EXCEPT !.pc = FirstStep(req[r])] EXCEPT !.tries = req[r].tries + 1]
  <2>1. /\ req[r] \in ReqShape /\ ReqOk(req[r], invs, idp) /\ req \in [Requests -> ReqShape]
        /\ req[r].pc \in {"check", "insert", "revoke", "lock", "consume"}
    BY DEF Inv, ReqInv, TransientConflict
  <2>2. req' = [req EXCEPT ![r] = q]  BY <1>3, <2>1
  <2>3. /\ req[r].op = "page" => FirstStep(req[r]) = "check"
        /\ req[r].op = "accept" => FirstStep(req[r]) = "read"
        /\ req[r].op \notin {"page", "accept"} => FirstStep(req[r]) = req[r].pc
        /\ FirstStep(req[r]) \in {"check", "read", "insert", "revoke", "lock", "consume"}
    BY <2>1 DEF FirstStep
  <2>4. /\ q \in ReqShape /\ q.pc = FirstStep(req[r]) /\ q.op = req[r].op /\ q.by = req[r].by
        /\ q.inv = req[r].inv /\ q.web = req[r].web
    <3> DEFINE p == FirstStep(req[r])
    <3>1. p \in {"idle", "check", "insert", "deliver", "revoke"} \cup Redeeming
      BY <2>3 DEF Redeeming, Accepting
    <3> HIDE DEF p
    <3>2. [req[r] EXCEPT !.pc = p] \in ReqShape  BY <2>1, <3>1 DEF ReqShape
    <3>3. q = [[req[r] EXCEPT !.pc = p] EXCEPT !.tries = req[r].tries + 1]  BY DEF p
    <3>n. req[r].tries \in Nat  BY <2>1 DEF ReqShape
    <3>4. req[r].tries + 1 \in Nat  BY <3>n
    <3>5. q \in ReqShape /\ q.pc = p /\ q.op = req[r].op /\ q.by = req[r].by /\ q.inv = req[r].inv
          /\ q.web = req[r].web
      BY <2>1, <3>1, <3>2, <3>3, <3>4 DEF ReqShape
    <3> QED  BY <3>5 DEF p
  <2> HIDE DEF q
  <2>5. ~PageInserts(q)  BY <2>3, <2>4 DEF PageInserts
  <2>6. ReqOk(q, invs, idp)
    <3>1. CASE req[r].op = "page"
      BY <2>1, <2>3, <2>4, <2>5, <3>1 DEF ReqOk, Targeting, Redeeming, Accepting, Granting
    <3>2. CASE req[r].op = "accept"
      BY <2>1, <2>3, <2>4, <2>5, <3>2 DEF ReqOk, Targeting, Redeeming, Accepting, Granting
    <3>3. CASE req[r].op \notin {"page", "accept"}
      BY <2>1, <2>3, <2>4, <2>5, <3>3 DEF ReqOk, Targeting, Redeeming, Accepting, Granting
    <3> QED  BY <3>1, <3>2, <3>3
  <2> QED  BY <1>1, <2>2, <2>4, <2>5, <2>6, QuietGoto
<1> QED  BY <1>2, <1>3 DEF TransientConflict

\* A request cut off leaves what it has committed (Crash).
LEMMA CrashStep ==
  ASSUME Inv, NEW r \in Requests, Crash(r)
  PROVE  Inv'
<1>1. req' = [req EXCEPT ![r] = Idle] /\ UNCHANGED <<db, idp, links>>  BY DEF Crash
<1> QED  BY <1>1, IdleIsFine, QuietGoto

\* An owner issues and revokes within an organization that exists.
LEMMA OwnersOrg ==
  ASSUME Inv, NEW u \in Users, RequireOrgOwner(u)
  PROVE  members[u].org \in OrgRef
  BY DEF Inv, DbInv, DbTypes, MemberShape

-----------------------------------------------------------------------------
(* The invariant *)

\* The database as it is first deployed.
LEMMA InvInit == Init => Inv
<1> SUFFICES ASSUME Init PROVE Inv  OBVIOUS
<1> USE DEF Init
<1>1. NoRow \in RowShape /\ NoRow.status = "none" /\ ~NoRow.checked
  BY DEF NoRow, RowShape, Statuses, OrgRef, Folded, Mails
<1>2. \A i \in Ids : invs[i] = NoRow /\ ~Accepted(i)  BY <1>1 DEF Accepted
<1>3. NoMember \in MemberShape /\ NoMember.role = "none"
      /\ [org |-> Home, role |-> "owner"] \in MemberShape
  BY NoOrgIsNone DEF NoMember, MemberShape, OrgRef
<1>4. DbTypes
  <2>1. invs \in [Ids -> RowShape]  BY <1>1
  <2>2. orgs \in [Organizations -> OrgStates]  BY DEF OrgStates
  <2>3. members \in [Users -> MemberShape]  BY <1>3
  <2>4. grants \in [Users -> [1..NGroups -> GrantStates]]  BY DEF GrantStates
  <2> QED  BY <2>1, <2>2, <2>3, <2>4 DEF DbTypes
<1>5. OrgsKnown
  <2>1. \A u \in Users : members[u].role # "none" => members[u].org = Home  BY <1>3
  <2> QED  BY <2>1, NoOrgIsNone DEF OrgsKnown
<1>6. AccepterKnown /\ NothingForgotten  BY <1>2 DEF AccepterKnown, NothingForgotten
<1>7. GrantedIsThere  BY DEF GrantedIsThere
<1>8. AuditAgrees
  <2>1. \A a, x : Unlogged(a, x, audit)  BY DEF Unlogged, BagIn, BagToSet, EmptyBag, SetToBag
  <2>2. \A i \in Ids : SaysOfRow(i, invs[i], audit)  BY <1>1, <1>2, <2>1 DEF SaysOfRow
  <2>3. \A o \in Organizations \ {Home} : SaysOfOrg(o, orgs[o], audit)  BY <2>1 DEF SaysOfOrg
  <2> QED  BY <2>2, <2>3, AuditSays
<1>9. AcceptedRightly
  BY <1>2 DEF AcceptedRightly, AcceptedBinds, AcceptedAsInvited
<1>10. PageIssuedLiveUnique  BY <1>1, <1>2 DEF PageIssuedLiveUnique
<1>11. ReqInv
  <2>1. req \in [Requests -> ReqShape] /\ links = {}  BY IdleIsFine
  <2>2. \A r \in Requests : req[r] = Idle  OBVIOUS
  <2> QED  BY <2>1, <2>2, IdleIsFine DEF ReqInv, OnePage
<1> QED  BY <1>4, <1>5, <1>6, <1>7, <1>8, <1>9, <1>10, <1>11 DEF Inv, DbInv

\* The pages, the panel and the JSON API share the two services.
LEMMA IssuingStep ==
  ASSUME Inv, NEW r \in Requests,
         \/ OperatorCreateInvitation(r) \/ CreateOrgInvitation(r)
         \/ OperatorPageIssue(r) \/ AdminIssueInvitation(r) \/ OwnerPageIssue(r)
  PROVE  Inv'
<1>0. NoOrg \in OrgRef /\ Home \in OrgRef  BY NoOrgIsNone DEF OrgRef
<1>1. CASE OperatorCreateInvitation(r)
  <2>1. PICK e \in Typed, o \in {NoOrg, Home} : Issue(r, "api", "insert", e, o)
    BY <1>1 DEF OperatorCreateInvitation
  <2> QED  BY <1>0, <2>1, IssueStep
<1>2. CASE CreateOrgInvitation(r)
  <2>1. PICK u \in Users, e \in Typed :
          RequireOrgOwner(u) /\ Issue(r, "api", "insert", e, members[u].org)
    BY <1>2 DEF CreateOrgInvitation
  <2> QED  BY <2>1, OwnersOrg, IssueStep
<1>3. CASE OperatorPageIssue(r) \/ AdminIssueInvitation(r)
  <2>1. PICK e \in Typed : Issue(r, "page", "check", e, NoOrg)
    BY <1>3 DEF OperatorPageIssue, AdminIssueInvitation
  <2> QED  BY <1>0, <2>1, IssueStep
<1>4. CASE OwnerPageIssue(r)
  <2>1. PICK u \in Users, e \in Typed :
          RequireOrgOwner(u) /\ Issue(r, "page", "check", e, members[u].org)
    BY <1>4 DEF OwnerPageIssue
  <2> QED  BY <2>1, OwnersOrg, IssueStep
<1> QED  BY <1>1, <1>2, <1>3, <1>4

\* Every revocation begins alike.
LEMMA RevokingStep ==
  ASSUME Inv, NEW r \in Requests,
         \/ OperatorRevokeInvitation(r) \/ RevokeOrgInvitation(r)
         \/ OperatorPageRevoke(r) \/ AdminRevokeInvitation(r) \/ OwnerPageRevoke(r)
  PROVE  Inv'
<1>1. \E i \in Ids : \E o : RevokeRead(r, i, o)
  BY DEF OperatorRevokeInvitation, RevokeOrgInvitation, OperatorPageRevoke,
         AdminRevokeInvitation, OwnerPageRevoke
<1> QED  BY <1>1, RevokeReadStep

\* The clock, the owners, the sign-ins and the deployment.
LEMMA EnvironmentStep == ASSUME Inv, Environment PROVE Inv'
<1>1. CASE \E i \in Ids : Expire(i)
  <2>1. PICK i \in Ids : Expire(i)  BY <1>1
  <2>2. DbInv' /\ Steady(invs')  BY <2>1, ExpireStep DEF Inv
  <2>3. UNCHANGED <<req, links, idp>>  BY <2>1 DEF Expire
  <2> QED  BY <2>2, <2>3, NoRequest DEF Inv
<1>2. CASE \E u \in Users : OwnerPageName(u)
  <2>1. PICK u \in Users : OwnerPageName(u)  BY <1>2
  <2>2. DbInv' /\ Steady(invs')  BY <2>1, NameStep DEF Inv
  <2>3. UNCHANGED <<req, links, idp>>  BY <2>1 DEF OwnerPageName, NameOrganization
  <2> QED  BY <2>2, <2>3, NoRequest DEF Inv
<1>3. CASE \E u \in Users : ProvisionMember(u)
  <2>1. PICK u \in Users : ProvisionMember(u)  BY <1>3
  <2>2. DbInv' /\ Steady(invs')  BY <2>1, ProvisionStep DEF Inv
  <2>3. UNCHANGED <<req, links, idp>>  BY <2>1 DEF ProvisionMember
  <2> QED  BY <2>2, <2>3, NoRequest DEF Inv
<1>4. CASE Redeploy
  <2>1. UNCHANGED <<db, idp, links, req>>  BY <1>4 DEF Redeploy
  <2>2. DbInv' /\ Steady(invs')  BY <2>1, QuietStep DEF Inv
  <2> QED  BY <2>1, <2>2, NoRequest DEF Inv
<1> QED  BY <1>1, <1>2, <1>3, <1>4 DEF Environment

\* A step that touches nothing of the service.
LEMMA NothingMoves == ASSUME Inv, UNCHANGED <<db, idp, links, req>> PROVE Inv'
<1>1. DbInv' /\ Steady(invs')  BY QuietStep DEF Inv
<1> QED  BY <1>1, NoRequest DEF Inv

\* A request, whoever waits for it, keeps the invariant.
LEMMA RequestStep == ASSUME Inv, NEW r \in Requests, AnyRequestStep(r) PROVE Inv'
  BY IssuingStep, CheckStep, InsertRequest, DeliverStep, RevokingStep, RevokeCommitStep,
     AcceptReadStep, AcceptLockStep, ConsumeStep, GrantStep, SettleRequest, RecordRequest,
     ConflictStep, CrashStep
  DEF AnyRequestStep

\* Every step keeps the invariant.
LEMMA InvStep == Inv /\ [Next]_vars => Inv'
<1> SUFFICES ASSUME Inv, [Next]_vars PROVE Inv'  OBVIOUS
<1>1. CASE UNCHANGED vars  BY <1>1, NothingMoves DEF vars, db
<1>3. ASSUME NEW r \in Requests, NEW u \in Users, NEW i \in Ids, AcceptInvitation(r, u, i, FALSE)
      PROVE  Inv'
  BY <1>3, AcceptBegins
<1>4. CASE Environment  BY <1>4, EnvironmentStep
<1> QED  BY <1>1, <1>3, <1>4, RequestStep DEF Next

\* The invariant holds throughout.
LEMMA InvHolds == Spec => []Inv
  BY InvInit, InvStep, PTL DEF Spec

-----------------------------------------------------------------------------
(* What follows *)

\* The audit log tells exactly what happened, however requests interleave, are
\* retried or are cut off (audited() and _NoAuditedChange).
THEOREM AuditIsExact == Spec => []AuditAgrees
<1>1. Inv => AuditAgrees  BY DEF Inv, DbInv
<1> QED  BY <1>1, InvHolds, PTL

\* Whoever is a member through an invitation is the one invited, in time, once,
\* and a created organization has the accepter it was created for (_redeem).
THEOREM AcceptedOnlyRightly == Spec => []AcceptedRightly
<1>1. Inv => AcceptedRightly  BY DEF Inv, DbInv
<1> QED  BY <1>1, InvHolds, PTL

\* The access an acceptance owes is at the provider or on the list of what is
\* outstanding, whatever crashed (claim_pending, settle, outstanding).
THEOREM NoGrantForgotten == Spec => []NothingForgotten
<1>1. Inv => NothingForgotten  BY DEF Inv, DbInv
<1> QED  BY <1>1, InvHolds, PTL

\* Two pages never leave two live invitations to one address (create_unless_live).
THEOREM PagesIssueOnce == Spec => []PageIssuedLiveUnique
<1>1. Inv => PageIssuedLiveUnique  BY DEF Inv, DbInv
<1> QED  BY <1>1, InvHolds, PTL

(* A step changes no accepted or revoked row, makes no spent one usable, drops
   none and unnames no organization. *)
Final ==
  /\ \A i \in Ids :
       /\ invs[i].status \in {"accepted", "revoked"} => invs'[i] = invs[i]
       /\ invs[i].status # "none" => invs'[i].status # "none"
       /\ Spent(invs[i]) => Spent(invs'[i]) /\ (invs'[i].status = "accepted" => invs[i].status = "accepted")
  /\ \A o \in Organizations : orgs[o] = "named" => orgs'[o] = "named"

\* A step that writes no row and no organization.
LEMMA FinalQuiet == ASSUME invs' = invs, orgs' = orgs PROVE Final
  BY DEF Final

\* A step that writes one row that was not final, and no organization.
LEMMA FinalRow ==
  ASSUME Inv, NEW i \in Ids, invs[i].status \notin {"accepted", "revoked"}, NEW row,
         row.status # "none", Spent(invs[i]) => Spent(row) /\ row.status # "accepted",
         invs' = [invs EXCEPT ![i] = row],
         \A o \in Organizations : orgs[o] = "named" => orgs'[o] = "named"
  PROVE  Final
<1>1. /\ invs'[i] = row /\ \A j \in Ids \ {i} : invs'[j] = invs[j]
  BY DEF Inv, DbInv, DbTypes
<1> QED  BY <1>1 DEF Final

\* An insertion takes a number never used (Insert).
LEMMA FinalInsert == ASSUME Inv, NEW r \in Requests, Insert(r) PROVE Final
<1>1. FreshId \in Ids /\ invs[FreshId].status = "none"
  BY FreshIdIsFree DEF Insert
<1>2. orgs' = orgs  BY DEF Insert
<1>3. ~Spent(invs[FreshId])  BY <1>1 DEF Spent
<1>4. /\ invs'[FreshId].status # "none"
      /\ \A i \in Ids \ {FreshId} : invs'[i] = invs[i]
  BY InsertStep
<1> QED  BY <1>1, <1>2, <1>3, <1>4 DEF Final

\* A revocation takes a pending row (RevokeCommit).
LEMMA FinalRevoke == ASSUME Inv, NEW r \in Requests, RevokeCommit(r) PROVE Final
<1>1. req[r].inv \in Ids /\ orgs' = orgs /\ invs \in [Ids -> RowShape]
  BY DEF RevokeCommit, Inv, ReqInv, ReqOk, Targeting, DbInv, DbTypes
<1>2. CASE invs' = invs  BY <1>1, <1>2, FinalQuiet
<1>3. CASE /\ invs[req[r].inv].status = "pending"
           /\ invs' = [invs EXCEPT ![req[r].inv].status = "revoked"]
  <2> DEFINE i == req[r].inv
             row == [invs[i] EXCEPT !.status = "revoked"]
  <2>1. invs' = [invs EXCEPT ![i] = row]  BY <1>1, <1>3
  <2>2. row.status = "revoked"  BY <1>1 DEF RowShape
  <2> HIDE DEF i, row
  <2>3. Spent(row)  BY <2>2 DEF Spent, Live
  <2>4. i \in Ids /\ invs[i].status = "pending"  BY <1>1, <1>3 DEF i
  <2> QED  BY <1>1, <2>1, <2>2, <2>3, <2>4, FinalRow
<1> QED  BY <1>2, <1>3 DEF RevokeCommit

\* An acceptance takes a live row, and an organization that was not there (Redeem).
LEMMA FinalConsume == ASSUME Inv, NEW r \in Requests, AcceptConsume(r) PROVE Final
<1> DEFINE i == req[r].inv
           o == IF CreatesOrganization(invs[i]) THEN FreshOrg ELSE invs[i].org
<1>1. i \in Ids /\ invs \in [Ids -> RowShape] /\ orgs \in [Organizations -> OrgStates]
  BY DEF AcceptConsume, Inv, ReqInv, ReqOk, Targeting, Redeeming, Accepting, DbInv, DbTypes
<1>2. CASE UNCHANGED db  BY <1>2, FinalQuiet DEF db
<1>3. CASE Consumable(invs[i]) /\ Redeem(r, i, req[r].by, o)
  <2> DEFINE row == [[[invs[i] EXCEPT !.status = "accepted"] EXCEPT !.acceptedBy = req[r].by]
                       EXCEPT !.acceptedOrg = o]
  <2>1. invs' = [invs EXCEPT ![i] = row]  BY <1>1, <1>3 DEF Redeem
  <2>2. row.status = "accepted"  BY <1>1 DEF RowShape
  <2>3. invs[i].status = "pending" /\ ~Spent(invs[i])  BY <1>3 DEF Consumable, Spent, Live
  <2>4. \A p \in Organizations : orgs[p] = "named" => orgs'[p] = "named"
    <3>1. CASE CreatesOrganization(invs[i])
      <4>1. o = FreshOrg /\ FreshOrg \in Organizations /\ orgs[FreshOrg] = "absent"
        BY <3>1, FreshOrgIsAbsent DEF AcceptConsume
      <4>2. orgs' = [orgs EXCEPT ![FreshOrg] = "placeholder"]  BY <1>3, <3>1, <4>1 DEF Redeem
      <4> QED  BY <1>1, <4>1, <4>2
    <3>2. CASE ~CreatesOrganization(invs[i])  BY <1>3, <3>2 DEF Redeem
    <3> QED  BY <3>1, <3>2
  <2> HIDE DEF i, o, row
  <2> QED  BY <1>1, <2>1, <2>2, <2>3, <2>4, FinalRow
<1> QED  BY <1>2, <1>3 DEF AcceptConsume

\* Any step of a request.
LEMMA FinalRequest == ASSUME Inv, NEW r \in Requests, AnyRequestStep(r) PROVE Final
<1>1. CASE \/ OperatorCreateInvitation(r) \/ CreateOrgInvitation(r)
           \/ OperatorPageIssue(r) \/ AdminIssueInvitation(r) \/ OwnerPageIssue(r)
  BY ZenonT(60), <1>1, FinalQuiet DEF OperatorCreateInvitation, CreateOrgInvitation, OperatorPageIssue,
                    AdminIssueInvitation, OwnerPageIssue, Issue, db
<1>2. CASE \/ OperatorRevokeInvitation(r) \/ RevokeOrgInvitation(r)
           \/ OperatorPageRevoke(r) \/ AdminRevokeInvitation(r) \/ OwnerPageRevoke(r)
  BY <1>2, FinalQuiet DEF OperatorRevokeInvitation, RevokeOrgInvitation, OperatorPageRevoke,
                    AdminRevokeInvitation, OwnerPageRevoke, RevokeRead, db
<1>3. CASE CheckUnderLock(r) \/ Deliver(r) \/ AcceptRead(r) \/ AcceptLock(r) \/ Grant(r)
           \/ TransientConflict(r) \/ Crash(r)
  BY <1>3, FinalQuiet DEF CheckUnderLock, Deliver, AcceptRead, AcceptLock, Grant,
                    TransientConflict, Crash, db
<1>4. CASE Settle(r) \/ Record(r)  BY <1>4, FinalQuiet DEF Settle, Record
<1> QED  BY SMTT(40), <1>1, <1>2, <1>3, <1>4, FinalInsert, FinalRevoke, FinalConsume DEF AnyRequestStep

\* The clock, the owners, the sign-ins and the deployment.
LEMMA FinalEnvironment == ASSUME Inv, Environment PROVE Final
<1>1. ASSUME NEW i \in Ids, Expire(i) PROVE Final
  <2> DEFINE row == [invs[i] EXCEPT !.lapsed = TRUE]
  <2>1. invs' = [invs EXCEPT ![i] = row] /\ orgs' = orgs  BY <1>1 DEF Expire
  <2>2. invs[i] \in RowShape  BY DEF Inv, DbInv, DbTypes
  <2>3. row.status = "pending" /\ invs[i].status = "pending"  BY <1>1, <2>2 DEF Expire, RowShape
  <2>4. ~Spent(invs[i])  BY <1>1 DEF Expire, Spent, Live
  <2> HIDE DEF row
  <2> QED  BY <2>1, <2>3, <2>4, FinalRow
<1>2. ASSUME NEW u \in Users, OwnerPageName(u) PROVE Final
  <2>1. orgs \in [Organizations -> OrgStates]  BY DEF Inv, DbInv, DbTypes
  <2> QED  BY <1>2, <2>1 DEF OwnerPageName, NameOrganization, Final
<1>3. ASSUME NEW u \in Users, ProvisionMember(u) PROVE Final
  BY <1>3, FinalQuiet DEF ProvisionMember
<1>4. CASE Redeploy  BY <1>4, FinalQuiet DEF Redeploy, db
<1> QED  BY <1>1, <1>2, <1>3, <1>4 DEF Environment

\* Every step leaves what is final as it is.
LEMMA FinalStep == Inv /\ [Next]_vars => Final
<1> SUFFICES ASSUME Inv, [Next]_vars PROVE Final  OBVIOUS
<1>1. CASE UNCHANGED vars  BY <1>1, FinalQuiet DEF vars
<1>2. ASSUME NEW r \in Requests, NEW u \in Users, NEW i \in Ids, AcceptInvitation(r, u, i, FALSE)
      PROVE  Final
  BY <1>2, FinalQuiet DEF AcceptInvitation, db
<1> QED  BY <1>1, <1>2, FinalRequest, FinalEnvironment DEF Next

\* An accepted or revoked invitation never changes again, and an organization is
\* named once (revoke, _redeem, _name_organization_once).
THEOREM FinalStaysFinal == Spec => TerminalIsFinal
<1>1. Inv /\ [Next]_vars =>
        [/\ \A i \in Ids : invs[i].status \in {"accepted", "revoked"} => invs'[i] = invs[i]
         /\ \A o \in Organizations : orgs[o] = "named" => orgs'[o] = "named"]_vars
  BY FinalStep DEF Final
<1> QED  BY <1>1, InvHolds, PTL DEF Spec, TerminalIsFinal
-----------------------------------------------------------------------------
(***************************************************************************)
(* The page (AcceptancePage).  Tabs remember outcomes while the server goes *)
(* on with requests they wait for, or have stopped waiting for.  A request *)
(* a tab waits for is that tab's alone and is about the invitation it was  *)
(* opened with and the person it asked for; so the answer, true when it is *)
(* given (TrueOf), is true of what the tab remembers, and it stays true    *)
(* since what is spent stays spent (Final).                                *)
(***************************************************************************)
Screens == Words \cup {"no_token", "signin", "reauthentication_required", "ready", "working"}

TabShape ==
  [token : Ids \cup {0}, settled : Words, shown : Screens, user : Users \cup {NoUser},
   slot : Requests \cup {0}, about : Ids \cup {0}, asked : Users \cup {NoUser}]

(* What a tab has stored is about the invitation it was opened with. *)
TabOk(T, rows) ==
  /\ T.about = 0 => T.token = 0 /\ T.settled = Unsettled
  /\ T.about # 0 => rows[T.about].status # "none"
  /\ T.about # 0 /\ T.settled = Unsettled => T.token = T.about
  /\ T.settled # Unsettled => T.settled \in SettledOutcomes /\ TrueOf(T.settled, rows[T.about], T.asked)
  /\ T.shown = "ready" => T.token # 0 /\ T.settled = Unsettled /\ T.user \in Users
  /\ T.slot # 0 => T.about # 0 /\ T.settled = Unsettled

(* What a tab waits for is its own request. *)
Waits(T, requests) ==
  T.slot # 0 => /\ requests[T.slot].web /\ requests[T.slot].op = "accept"
                /\ requests[T.slot].by = T.asked /\ requests[T.slot].inv = T.about

OneEach == \A t, v \in Tabs : t # v /\ tab[t].slot # 0 => tab[t].slot # tab[v].slot

TabInv ==
  /\ tab \in [Tabs -> TabShape]
  /\ \A t \in Tabs : TabOk(tab[t], invs) /\ Waits(tab[t], req)
  /\ OneEach

PageInv == Inv /\ TabInv

\* The words that are no screens, and those that are not settled.
LEMMA WordsApart ==
  /\ Unsettled \in Words /\ Unsettled \notin SettledOutcomes /\ "ready" \notin Words
  /\ "accepted" \in SettledOutcomes /\ "ready" \notin SettledOutcomes /\ "error" \in Words
  BY Zenon DEF Unsettled, Words, SettledOutcomes

\* A tab nobody has opened a link in.
LEMMA NewTabIsFine ==
  ASSUME NEW rows, NEW requests PROVE NewTab \in TabShape /\ TabOk(NewTab, rows) /\ Waits(NewTab, requests)
<1>1. /\ NewTab.about = 0 /\ NewTab.token = 0 /\ NewTab.settled = Unsettled
      /\ NewTab.shown = "no_token" /\ NewTab.slot = 0
  BY DEF NewTab
<1>2. NewTab \in TabShape  BY WordsApart DEF NewTab, TabShape, Screens
<1> QED  BY <1>1, <1>2 DEF TabOk, Waits

\* The server's steps keep what tabs remember and what they wait for.
LEMMA TabsStand ==
  ASSUME TabInv, Final, UNCHANGED tab,
         \A s \in Requests : req[s].web => /\ req'[s].web /\ req'[s].op = req[s].op
                                           /\ req'[s].by = req[s].by /\ req'[s].inv = req[s].inv
  PROVE  TabInv'
<1>1. ASSUME NEW t \in Tabs PROVE TabOk(tab[t], invs') /\ Waits(tab[t], req')
  <2> DEFINE T == tab[t]
  <2>1. T \in TabShape /\ TabOk(T, invs) /\ Waits(T, req)  BY DEF TabInv
  <2> HIDE DEF T
  <2>2. T.about \in Ids \cup {0} /\ T.slot \in Requests \cup {0}  BY <2>1 DEF TabShape
  <2>3. T.settled # Unsettled => T.about \in Ids  BY <2>1, <2>2 DEF TabOk
  <2>4. ASSUME NEW i \in Ids, NEW u, NEW w, TrueOf(w, invs[i], u) PROVE TrueOf(w, invs'[i], u)
    BY <2>4 DEF TrueOf, TakenBy, Final
  <2>5. TabOk(T, invs')  BY <2>1, <2>2, <2>3, <2>4 DEF TabOk, Final
  <2>6. Waits(T, req')  BY <2>1, <2>2 DEF Waits
  <2> QED  BY <2>5, <2>6 DEF T
<1> QED  BY <1>1 DEF TabInv, OneEach

\* One tab moves, and with it at most the request it waited for.
LEMMA OneTab ==
  ASSUME TabInv, UNCHANGED invs, NEW t \in Tabs, NEW T \in TabShape, tab' = [tab EXCEPT ![t] = T],
         TabOk(T, invs), Waits(T, req'),
         \A v \in Tabs \ {t} : tab[v].slot # 0 =>
           tab[v].slot # T.slot /\ req'[tab[v].slot] = req[tab[v].slot]
  PROVE  TabInv'
<1>1. /\ tab' \in [Tabs -> TabShape] /\ tab'[t] = T /\ \A v \in Tabs \ {t} : tab'[v] = tab[v]
  BY DEF TabInv
<1>2. ASSUME NEW v \in Tabs PROVE TabOk(tab'[v], invs') /\ Waits(tab'[v], req')
  <2>1. CASE v = t  BY <1>1, <2>1
  <2>2. CASE v # t
    <3>1. tab'[v] = tab[v] /\ TabOk(tab[v], invs) /\ Waits(tab[v], req)  BY <1>1, <2>2 DEF TabInv
    <3>2. Waits(tab[v], req')  BY <2>2, <3>1 DEF Waits
    <3> QED  BY <3>1, <3>2
  <2> QED  BY <2>1, <2>2
<1>3. ASSUME NEW v \in Tabs, NEW w \in Tabs, v # w, tab'[v].slot # 0 PROVE tab'[v].slot # tab'[w].slot
  <2>1. CASE v = t  BY <1>1, <1>3, <2>1
  <2>2. CASE w = t  BY <1>1, <1>3, <2>2
  <2>3. CASE v # t /\ w # t  BY <1>1, <1>3, <2>3 DEF TabInv, OneEach
  <2> QED  BY <2>1, <2>2, <2>3
<1> QED  BY <1>1, <1>2, <1>3 DEF TabInv, OneEach

\* What a tab waits for is one request, and no other tab's.
LEMMA OwnSlot ==
  ASSUME TabInv, NEW t \in Tabs
  PROVE  /\ tab[t] \in TabShape /\ tab[t].slot \in Requests \cup {0}
         /\ \A v \in Tabs \ {t} : tab[v].slot # 0 => tab[v].slot \in Requests /\ tab[v].slot # tab[t].slot
  BY DEF TabInv, OneEach, TabShape

\* The server goes on with a request whose page has gone (Abandoned), or stops.
LEMMA AbandonedIsFine ==
  ASSUME PageInv, NEW t \in Tabs, UNCHANGED <<db, idp, links>>,
         \/ req' = Abandoned(t)
         \/ tab[t].slot # 0 /\ req' = [req EXCEPT ![tab[t].slot] = Idle]
  PROVE  /\ Inv'
         /\ \A v \in Tabs \ {t} : tab[v].slot # 0 => req'[tab[v].slot] = req[tab[v].slot]
<1> DEFINE r == tab[t].slot
<1>0. /\ r \in Requests \cup {0} /\ req \in [Requests -> ReqShape]
      /\ \A v \in Tabs \ {t} : tab[v].slot # 0 => tab[v].slot \in Requests /\ tab[v].slot # r
  BY OwnSlot DEF PageInv, Inv, ReqInv
<1>1. CASE req' = req
  BY <1>1, NothingMoves DEF PageInv
<1>2. CASE r # 0 /\ req' = [req EXCEPT ![r] = Idle]
  BY <1>0, <1>2, IdleIsFine, QuietGoto DEF PageInv
<1>3. CASE r # 0 /\ req' = [req EXCEPT ![r] = [req[r] EXCEPT !.web = FALSE]]
  <2> DEFINE q == [req[r] EXCEPT !.web = FALSE]
  <2>1. r \in Requests /\ req[r] \in ReqShape /\ ReqOk(req[r], invs, idp)
    BY <1>0, <1>3 DEF PageInv, Inv, ReqInv
  <2>2. /\ q \in ReqShape /\ q.op = req[r].op /\ q.pc = req[r].pc /\ q.by = req[r].by /\ q.inv = req[r].inv
        /\ q.group = req[r].group /\ q.granted = req[r].granted /\ q.result = req[r].result /\ ~q.web
    BY <2>1 DEF ReqShape
  <2>3. req[r].op = "accept"  BY <1>3 DEF PageInv, TabInv, Waits
  <2> HIDE DEF q
  <2>4. ~PageInserts(q)  BY <2>2, <2>3 DEF PageInserts
  <2>5. ReqOk(q, invs, idp)  BY <2>1, <2>2, <2>4 DEF ReqOk
  <2>6. req' = [req EXCEPT ![r] = q]  BY <1>3 DEF q
  <2>7. Inv'  BY <2>1, <2>2, <2>4, <2>5, <2>6, QuietGoto DEF PageInv
  <2> QED  BY <1>0, <2>6, <2>7
<1>4. CASE req' = Abandoned(t)
  BY <1>0, <1>1, <1>2, <1>3, <1>4 DEF Abandoned
<1> QED  BY <1>2, <1>4

\* The page as its script leaves it (Rendered).
LEMMA RenderedIsFine ==
  ASSUME NEW T \in TabShape, NEW token \in Ids \cup {0}, NEW settled \in Words,
         settled # Unsettled => settled \in SettledOutcomes,
         NEW u \in Users \cup {NoUser}, NEW current \in BOOLEAN
  PROVE  LET R == Rendered(T, token, settled, u, current)
         IN  /\ R \in TabShape /\ R.token = token /\ R.settled = settled /\ R.user = u /\ R.slot = 0
             /\ R.about = T.about /\ R.asked = T.asked
             /\ R.shown = "ready" => token # 0 /\ settled = Unsettled /\ u \in Users
<1> DEFINE shown == CASE settled # Unsettled -> settled
                      [] token = 0 -> "no_token"
                      [] u = NoUser -> "signin"
                      [] ~current -> "reauthentication_required"
                      [] OTHER -> "ready"
<1>1. /\ shown \in Screens
      /\ shown = "ready" => token # 0 /\ settled = Unsettled /\ u \in Users
  BY WordsApart DEF Screens
<1> HIDE DEF shown
<1>2. Rendered(T, token, settled, u, current) =
        [T EXCEPT !.token = token, !.settled = settled, !.user = u, !.slot = 0, !.shown = shown]
  BY DEF Rendered, shown
<1> QED  BY <1>1, <1>2 DEF TabShape

\* A link is opened, or the page is loaded again (OpenLink, Reload).
LEMMA LoadStep ==
  ASSUME PageInv, NEW t \in Tabs, NEW u \in Users \cup {NoUser}, NEW current \in BOOLEAN,
         (\E i \in Ids : OpenLink(t, i, u, current)) \/ Reload(t, u, current)
  PROVE  PageInv'
<1>0. tab[t] \in TabShape /\ TabOk(tab[t], invs)
  BY DEF PageInv, TabInv
<1>1. /\ UNCHANGED <<db, idp, links>> /\ req' = Abandoned(t)  BY DEF OpenLink, Reload
<1>2. /\ Inv' /\ invs' = invs
      /\ \A v \in Tabs \ {t} : tab[v].slot # 0 => req'[tab[v].slot] = req[tab[v].slot]
  BY <1>1, AbandonedIsFine DEF db
<1>3. ASSUME NEW i \in Ids, OpenLink(t, i, u, current) PROVE TabInv'
  <2> DEFINE R == Rendered(tab[t], i, Unsettled, u, current)
             A == [R EXCEPT !.about = i]
             T == [A EXCEPT !.asked = NoUser]
  <2>1. /\ R \in TabShape /\ R.token = i /\ R.settled = Unsettled /\ R.user = u /\ R.slot = 0
        /\ R.shown = "ready" => i # 0 /\ u \in Users
    BY <1>0, RenderedIsFine, WordsApart
  <2>2. tab' = [tab EXCEPT ![t] = T]  BY <1>3 DEF OpenLink
  <2> HIDE DEF R
  <2>3. /\ A \in TabShape /\ A.about = i /\ A.token = R.token /\ A.settled = R.settled /\ A.user = R.user
        /\ A.slot = R.slot /\ A.shown = R.shown
    BY <2>1 DEF TabShape
  <2> HIDE DEF A
  <2>4. /\ T \in TabShape /\ T.about = A.about /\ T.token = A.token /\ T.settled = A.settled
        /\ T.user = A.user /\ T.slot = A.slot /\ T.shown = A.shown
    BY <2>3 DEF TabShape
  <2> HIDE DEF T
  <2>5. invs[i].status # "none"  BY <1>3 DEF OpenLink, PageInv, Inv, ReqInv
  <2>6. i # 0  BY SettingsAssumption DEF Ids
  <2>7. TabOk(T, invs) /\ Waits(T, req')
    BY <2>1, <2>3, <2>4, <2>5, <2>6 DEF TabOk, Waits
  <2> QED  BY <1>2, <2>1, <2>2, <2>3, <2>4, <2>7, OneTab DEF PageInv
<1>4. CASE Reload(t, u, current)
  <2> DEFINE old == tab[t]
             T == Rendered(old, old.token, old.settled, u, current)
  <2>1. /\ old.token \in Ids \cup {0} /\ old.settled \in Words
        /\ old.settled # Unsettled => old.settled \in SettledOutcomes
    BY <1>0 DEF TabShape, TabOk
  <2>2. /\ T \in TabShape /\ T.token = old.token /\ T.settled = old.settled /\ T.user = u /\ T.slot = 0
        /\ T.about = old.about /\ T.asked = old.asked
        /\ T.shown = "ready" => old.token # 0 /\ old.settled = Unsettled /\ u \in Users
    BY <1>0, <2>1, RenderedIsFine
  <2>3. tab' = [tab EXCEPT ![t] = T]  BY <1>4 DEF Reload
  <2> HIDE DEF T
  <2>4. TabOk(T, invs) /\ Waits(T, req')  BY <1>0, <2>2 DEF TabOk, Waits
  <2> QED  BY <1>2, <2>2, <2>3, <2>4, OneTab DEF PageInv
<1>5. CASE \E i \in Ids : OpenLink(t, i, u, current)
  <2>1. PICK i \in Ids : OpenLink(t, i, u, current)  BY <1>5
  <2> QED  BY <1>2, <1>3, <2>1 DEF PageInv
<1> QED  BY <1>4, <1>5

\* The button is pressed (Submit, redeem_invitation).
LEMMA SubmitStep ==
  ASSUME PageInv, NEW t \in Tabs, NEW r \in Requests, Submit(t, r)
  PROVE  PageInv'
<1> DEFINE old == tab[t]
           i == old.token
           u == old.user
           q == [Idle EXCEPT !.op = "accept", !.pc = "read", !.by = u, !.inv = i, !.web = TRUE]
           A == [old EXCEPT !.shown = "working"]
           B == [A EXCEPT !.slot = r]
           T == [B EXCEPT !.asked = u]
<1>0. /\ tab \in [Tabs -> TabShape] /\ old \in TabShape /\ TabOk(old, invs) /\ old.shown = "ready"
      /\ req \in [Requests -> ReqShape]
  BY DEF Submit, PageInv, TabInv, Inv, ReqInv
<1>1. /\ i \in Ids /\ u \in Users /\ old.settled = Unsettled /\ old.about = i /\ i # 0
  <2>1. old.token \in Ids \cup {0} /\ old.about \in Ids \cup {0}  BY <1>0 DEF TabShape
  <2> QED  BY <1>0, <2>1 DEF TabOk
<1>2. AcceptInvitation(r, u, i, TRUE)  BY DEF Submit
<1>3. Inv'  BY <1>1, <1>2, AcceptBegins DEF PageInv
<1>4. req[r] = Idle /\ req' = [req EXCEPT ![r] = q] /\ invs' = invs
  BY <1>2 DEF AcceptInvitation, Begin, db
<1>5. q.web /\ q.op = "accept" /\ q.by = u /\ q.inv = i
  BY IdleIsFine DEF ReqShape
<1>6. tab' = [tab EXCEPT ![t] = T]  BY <1>0 DEF Submit
<1>7. A \in TabShape /\ A.token = i /\ A.settled = Unsettled /\ A.user = u /\ A.about = i /\ A.shown = "working"
  BY <1>0, <1>1 DEF TabShape, Screens
<1> HIDE DEF A
<1>8. B \in TabShape /\ B.token = i /\ B.settled = Unsettled /\ B.user = u /\ B.about = i /\ B.shown = "working"
      /\ B.slot = r
  BY <1>7 DEF TabShape
<1> HIDE DEF B
<1>9. T \in TabShape /\ T.token = i /\ T.settled = Unsettled /\ T.about = i /\ T.shown = "working"
      /\ T.slot = r /\ T.asked = u
  BY <1>1, <1>8 DEF TabShape
<1> HIDE DEF T, q
<1>10. TabOk(T, invs)
  <2>1. invs[i].status # "none"  BY <1>0, <1>1 DEF TabOk
  <2> QED  BY <1>1, <1>9, <2>1 DEF TabOk
<1>11. Waits(T, req')  BY <1>0, <1>4, <1>5, <1>9 DEF Waits
<1>12. ASSUME NEW v \in Tabs \ {t}, tab[v].slot # 0
       PROVE  tab[v].slot # T.slot /\ req'[tab[v].slot] = req[tab[v].slot]
  <2>1. Waits(tab[v], req) /\ tab[v].slot \in Requests  BY <1>12, OwnSlot DEF PageInv, TabInv
  <2>2. req[tab[v].slot].web  BY <1>12, <2>1 DEF Waits
  <2>3. tab[v].slot # r  BY <1>4, <2>2, IdleIsFine
  <2> QED  BY <1>0, <1>4, <1>9, <2>1, <2>3
<1>13. TabInv'  BY <1>4, <1>6, <1>9, <1>10, <1>11, <1>12, OneTab DEF PageInv
<1> QED  BY <1>3, <1>13 DEF PageInv

\* The endpoint refuses before it redeems (SubmitRefused).
LEMMA RefusedStep ==
  ASSUME PageInv, NEW t \in Tabs, SubmitRefused(t)
  PROVE  PageInv'
<1>1. PICK shown \in {"signin", "reauthentication_required", "error"} : tab' = [tab EXCEPT ![t].shown = shown]
  BY DEF SubmitRefused
<1> DEFINE T == [tab[t] EXCEPT !.shown = shown]
<1>2. /\ tab \in [Tabs -> TabShape] /\ tab[t] \in TabShape /\ TabOk(tab[t], invs) /\ Waits(tab[t], req)
      /\ UNCHANGED <<db, idp, links, req>>
  BY DEF PageInv, TabInv, SubmitRefused, vars, db
<1>3. tab' = [tab EXCEPT ![t] = T]  BY <1>1, <1>2
<1>4. shown \in Screens /\ shown # "ready"  BY <1>1, WordsApart DEF Screens
<1>5. /\ T \in TabShape /\ T.shown = shown /\ T.token = tab[t].token /\ T.settled = tab[t].settled
      /\ T.slot = tab[t].slot /\ T.about = tab[t].about /\ T.asked = tab[t].asked
  BY <1>2, <1>4 DEF TabShape
<1> HIDE DEF T
<1>6. TabOk(T, invs) /\ Waits(T, req')  BY <1>2, <1>4, <1>5 DEF TabOk, Waits
<1>7. \A v \in Tabs \ {t} : tab[v].slot # 0 => tab[v].slot # T.slot  BY <1>5, OwnSlot DEF PageInv
<1>8. invs' = invs /\ req' = req  BY <1>2 DEF db
<1>9. TabInv'  BY <1>3, <1>5, <1>6, <1>7, <1>8, OneTab DEF PageInv
<1> QED  BY <1>2, <1>9, NothingMoves DEF PageInv

\* The answer arrives (Receive): it is about the invitation and the person the tab
\* asked for.
LEMMA ReceiveStep ==
  ASSUME PageInv, NEW t \in Tabs, Receive(t)
  PROVE  PageInv'
<1> DEFINE old == tab[t]
           r == old.slot
           w == req[r].result
           token == IF w \in SettledOutcomes THEN 0 ELSE old.token
           settled == IF w \in SettledOutcomes THEN w ELSE old.settled
           A == [old EXCEPT !.slot = 0]
           B == [A EXCEPT !.shown = w]
           C == [B EXCEPT !.token = token]
           T == [C EXCEPT !.settled = settled]
<1>0. /\ tab \in [Tabs -> TabShape] /\ old \in TabShape /\ TabOk(old, invs) /\ Waits(old, req)
      /\ r # 0 /\ r \in Requests /\ req[r].pc = "done" /\ req[r] \in ReqShape /\ ReqOk(req[r], invs, idp)
      /\ req' = [req EXCEPT ![r] = Idle] /\ UNCHANGED <<db, idp, links>>
  BY OwnSlot DEF Receive, PageInv, TabInv, Inv, ReqInv
<1>1. /\ Inv' /\ invs' = invs
      /\ \A v \in Tabs \ {t} : tab[v].slot # 0 => req'[tab[v].slot] = req[tab[v].slot]
  BY <1>0, AbandonedIsFine DEF db
<1>2. w \in Words /\ TrueOf(w, invs[req[r].inv], req[r].by)  BY <1>0 DEF ReqShape, ReqOk
<1>3. req[r].inv = old.about /\ req[r].by = old.asked /\ old.about # 0 /\ old.settled = Unsettled
  BY <1>0 DEF Waits, TabOk
<1>4. tab' = [tab EXCEPT ![t] = T]  BY <1>0 DEF Receive
<1>5. /\ token \in Ids \cup {0} /\ settled \in Words /\ w \in Screens /\ w # "ready"
  BY <1>0, <1>2, WordsApart DEF TabShape, Screens
<1> HIDE DEF w, token, settled
<1>6. A \in TabShape /\ A.slot = 0 /\ A.about = old.about /\ A.asked = old.asked
  BY <1>0 DEF TabShape
<1> HIDE DEF A
<1>7. B \in TabShape /\ B.slot = 0 /\ B.about = old.about /\ B.asked = old.asked /\ B.shown = w
  BY <1>5, <1>6 DEF TabShape
<1> HIDE DEF B
<1>8. C \in TabShape /\ C.slot = 0 /\ C.about = old.about /\ C.asked = old.asked /\ C.shown = w /\ C.token = token
  BY <1>5, <1>7 DEF TabShape
<1> HIDE DEF C
<1>9. /\ T \in TabShape /\ T.slot = 0 /\ T.about = old.about /\ T.asked = old.asked /\ T.shown = w
      /\ T.token = token /\ T.settled = settled
  BY <1>5, <1>8 DEF TabShape
<1> HIDE DEF T
<1>10. TabOk(T, invs)
  <2>1. invs[old.about].status # "none" /\ old.token = old.about  BY <1>0, <1>3 DEF TabOk
  <2>2. TrueOf(w, invs[old.about], old.asked)  BY <1>2, <1>3
  <2>3. CASE w \in SettledOutcomes
    <3>1. token = 0 /\ settled = w /\ settled # Unsettled  BY <2>3, WordsApart DEF token, settled
    <3> QED  BY <1>3, <1>5, <1>9, <2>1, <2>2, <2>3, <3>1 DEF TabOk
  <2>4. CASE w \notin SettledOutcomes
    <3>1. token = old.about /\ settled = Unsettled  BY <1>3, <2>1, <2>4 DEF token, settled
    <3> QED  BY <1>3, <1>5, <1>9, <2>1, <3>1 DEF TabOk
  <2> QED  BY <2>3, <2>4
<1>11. Waits(T, req')  BY <1>9 DEF Waits
<1>12. TabInv'  BY <1>1, <1>4, <1>9, <1>10, <1>11, OneTab DEF PageInv
<1> QED  BY <1>1, <1>12 DEF PageInv

\* The fetch fails, and the server goes on or does not (LoseResponse).
LEMMA LoseStep ==
  ASSUME PageInv, NEW t \in Tabs, LoseResponse(t)
  PROVE  PageInv'
<1> DEFINE old == tab[t]
           A == [old EXCEPT !.slot = 0]
           T == [A EXCEPT !.shown = "error"]
<1>0. /\ tab \in [Tabs -> TabShape] /\ old \in TabShape /\ TabOk(old, invs) /\ UNCHANGED <<db, idp, links>>
  BY DEF LoseResponse, PageInv, TabInv
<1>1. /\ Inv' /\ invs' = invs
      /\ \A v \in Tabs \ {t} : tab[v].slot # 0 => req'[tab[v].slot] = req[tab[v].slot]
  BY <1>0, AbandonedIsFine DEF LoseResponse, db
<1>2. tab' = [tab EXCEPT ![t] = T]  BY <1>0 DEF LoseResponse
<1>3. /\ A \in TabShape /\ A.slot = 0 /\ A.about = old.about /\ A.asked = old.asked /\ A.token = old.token
      /\ A.settled = old.settled
  BY <1>0 DEF TabShape
<1> HIDE DEF A
<1>4. /\ T \in TabShape /\ T.slot = 0 /\ T.about = old.about /\ T.asked = old.asked /\ T.token = old.token
      /\ T.settled = old.settled /\ T.shown = "error"
  BY <1>3, WordsApart DEF TabShape, Screens
<1> HIDE DEF T
<1>5. TabOk(T, invs) /\ Waits(T, req')  BY <1>0, <1>4 DEF TabOk, Waits
<1>6. TabInv'  BY <1>1, <1>2, <1>4, <1>5, OneTab DEF PageInv
<1> QED  BY <1>1, <1>6 DEF PageInv

\* A request that a page waits for stays about the same person and invitation
\* until the page has its answer.
LEMMA WebRequestsStay ==
  ASSUME Inv, NEW r \in Requests, AnyRequestStep(r)
  PROVE  \A s \in Requests : req[s].web => /\ req'[s].web /\ req'[s].op = req[s].op
                                           /\ req'[s].by = req[s].by /\ req'[s].inv = req[s].inv
<1> DEFINE Stays(q) == req[r].web => /\ q.web /\ q.op = req[r].op /\ q.by = req[r].by /\ q.inv = req[r].inv
<1>0. /\ req \in [Requests -> ReqShape] /\ req[r] \in ReqShape
      /\ req[r].web => req[r].pc \in Redeeming
  BY DEF Inv, ReqInv, ReqOk
<1>1. ASSUME NEW q, req' = [req EXCEPT ![r] = q], Stays(q)
      PROVE  \A s \in Requests : req[s].web => /\ req'[s].web /\ req'[s].op = req[s].op
                                               /\ req'[s].by = req[s].by /\ req'[s].inv = req[s].inv
  BY <1>0, <1>1
<1> HIDE DEF Stays
<1>2. ~req[r].web => \A q : Stays(q)  BY DEF Stays
<1>3. ASSUME NEW result, Done(r, result) PROVE \E q : req' = [req EXCEPT ![r] = q] /\ Stays(q)
  <2>1. CASE ~req[r].web  BY <1>2, <1>3, <2>1 DEF Done
  <2>2. CASE req[r].web
    <3> DEFINE q == [[req[r] EXCEPT !.pc = "done"] EXCEPT !.result = result]
    <3>1. req' = [req EXCEPT ![r] = q]  BY <1>0, <1>3, <2>2 DEF Done
    <3>2. Stays(q)  BY <1>0 DEF Stays, ReqShape
    <3> QED  BY <3>1, <3>2
  <2> QED  BY <2>1, <2>2
<1>4. ASSUME NEW pc, Goto(r, pc) PROVE \E q : req' = [req EXCEPT ![r] = q] /\ Stays(q)
  <2>1. req' = [req EXCEPT ![r] = [req[r] EXCEPT !.pc = pc]]  BY <1>0, <1>4 DEF Goto
  <2>2. Stays([req[r] EXCEPT !.pc = pc])  BY <1>0 DEF Stays, ReqShape
  <2> QED  BY <2>1, <2>2
<1>5. ASSUME NEW request, Begin(r, request) PROVE \E q : req' = [req EXCEPT ![r] = q] /\ Stays(q)
  <2>1. ~req[r].web  BY <1>5, IdleIsFine DEF Begin
  <2> QED  BY <1>2, <1>5, <2>1 DEF Begin
<1>6. ASSUME NEW g, ThenGrant(r, g) PROVE \E q : req' = [req EXCEPT ![r] = q] /\ Stays(q)
  <2>1. CASE g \notin GroupsToGrant  BY <1>3, <1>6, <2>1 DEF ThenGrant
  <2>2. CASE g \in GroupsToGrant
    <3> DEFINE q == [[req[r] EXCEPT !.group = g] EXCEPT !.pc = "grant"]
    <3>1. req' = [req EXCEPT ![r] = q]  BY <1>0, <1>6, <2>2 DEF ThenGrant
    <3>2. Stays(q)  BY <1>0 DEF Stays, ReqShape
    <3> QED  BY <3>1, <3>2
  <2> QED  BY <2>1, <2>2
<1> SUFFICES \E q : req' = [req EXCEPT ![r] = q] /\ Stays(q)  BY <1>1
<1>7. CASE \/ OperatorCreateInvitation(r) \/ CreateOrgInvitation(r)
           \/ OperatorPageIssue(r) \/ AdminIssueInvitation(r) \/ OwnerPageIssue(r)
  <2>1. \E request : Begin(r, request)
    BY ZenonT(60), <1>7 DEF OperatorCreateInvitation, CreateOrgInvitation, OperatorPageIssue,
                      AdminIssueInvitation, OwnerPageIssue, Issue
  <2> QED  BY <1>5, <2>1
<1>8. CASE \/ OperatorRevokeInvitation(r) \/ RevokeOrgInvitation(r)
           \/ OperatorPageRevoke(r) \/ AdminRevokeInvitation(r) \/ OwnerPageRevoke(r)
  <2>1. \E request : Begin(r, request)
    BY ZenonT(60), <1>8 DEF OperatorRevokeInvitation, RevokeOrgInvitation, OperatorPageRevoke,
                      AdminRevokeInvitation, OwnerPageRevoke, RevokeRead
  <2> QED  BY <1>5, <2>1
<1>9. CASE CheckUnderLock(r) \/ Insert(r) \/ Deliver(r) \/ RevokeCommit(r)
  <2>1. req[r].pc \in {"check", "insert", "deliver", "revoke"}
    BY <1>9 DEF CheckUnderLock, Insert, Deliver, RevokeCommit
  <2>2. ~req[r].web  BY <1>0, <2>1 DEF Redeeming, Accepting
  <2>3. CASE Insert(r)
    <3>1. req' = [req EXCEPT ![r] = [[req[r] EXCEPT !.pc = "deliver"] EXCEPT !.inv = FreshId]]
      BY <1>0, <2>3 DEF Insert
    <3> QED  BY <1>2, <2>2, <3>1
  <2>4. (\E result : Done(r, result)) \/ (\E pc : Goto(r, pc)) \/ Insert(r)
    BY <1>9 DEF CheckUnderLock, Deliver, RevokeCommit
  <2> QED  BY <1>3, <1>4, <2>3, <2>4
<1>10. CASE AcceptRead(r) \/ AcceptLock(r) \/ AcceptConsume(r) \/ Settle(r) \/ Record(r)
  <2>1. (\E result : Done(r, result)) \/ (\E pc : Goto(r, pc)) \/ (\E g : ThenGrant(r, g))
    BY <1>10 DEF AcceptRead, AcceptLock, AcceptConsume, Redeem, Settle, Record
  <2> QED  BY <1>3, <1>4, <1>6, <2>1
<1>11. CASE Grant(r)
  <2>1. PICK granted \in BOOLEAN : req' = [req EXCEPT ![r].granted = granted, ![r].pc = "settle"]
    BY <1>11 DEF Grant
  <2> DEFINE q == [[req[r] EXCEPT !.granted = granted] EXCEPT !.pc = "settle"]
  <2>2. req' = [req EXCEPT ![r] = q]  BY <1>0, <2>1
  <2>3. Stays(q)  BY <1>0 DEF Stays, ReqShape
  <2> QED  BY <2>2, <2>3
<1>12. CASE TransientConflict(r)
  <2>1. CASE Done(r, "error")  BY <1>3, <2>1
  <2>2. CASE req' = [req EXCEPT ![r].pc = FirstStep(req[r]), ![r].tries = @ + 1]
    <3> DEFINE p == FirstStep(req[r])
               n == req[r].tries + 1
               q == [[req[r] EXCEPT !.pc = p] EXCEPT !.tries = n]
    <3>1. req' = [req EXCEPT ![r] = q]  BY <1>0, <2>2
    <3> HIDE DEF p, n
    <3>2. Stays(q)  BY <1>0 DEF Stays, ReqShape
    <3> QED  BY <3>1, <3>2
  <2> QED  BY <1>12, <2>1, <2>2 DEF TransientConflict
<1>13. CASE Crash(r)  BY <1>2, <1>13 DEF Crash
<1> QED  BY SMTT(40), <1>7, <1>8, <1>9, <1>10, <1>11, <1>12, <1>13 DEF AnyRequestStep

\* No tab is open at the start.
LEMMA PageInvInit == PageInit => PageInv
<1> SUFFICES ASSUME PageInit PROVE PageInv  OBVIOUS
<1>1. Inv  BY InvInit DEF PageInit
<1>2. tab \in [Tabs -> TabShape] /\ \A t \in Tabs : tab[t] = NewTab
  BY NewTabIsFine DEF PageInit
<1>3. OneEach
  <2>1. NewTab.slot = 0  BY DEF NewTab
  <2> QED  BY <1>2, <2>1 DEF OneEach
<1> QED  BY <1>1, <1>2, <1>3, NewTabIsFine DEF PageInv, TabInv

\* Every step of the server, of a tab and of the people keeps the invariant.
LEMMA PageInvStep == PageInv /\ [PageNext]_pageVars => PageInv'
<1> SUFFICES ASSUME PageInv, [PageNext]_pageVars PROVE PageInv'  OBVIOUS
<1>0. Inv /\ TabInv  BY DEF PageInv
<1>1. ASSUME Inv', Final, UNCHANGED <<tab, req>> PROVE PageInv'
  BY <1>0, <1>1, TabsStand DEF PageInv
<1>2. CASE UNCHANGED pageVars
  <2>1. UNCHANGED <<db, idp, links, req, tab>> /\ invs' = invs /\ orgs' = orgs  BY <1>2 DEF pageVars, vars, db
  <2>2. Inv' /\ Final  BY <1>0, <2>1, NothingMoves, FinalQuiet
  <2> QED  BY <1>1, <2>1, <2>2
<1>3. ASSUME NEW r \in Requests, AnyRequestStep(r), UNCHANGED tab PROVE PageInv'
  <2>1. Inv' /\ Final  BY <1>0, <1>3, RequestStep, FinalRequest
  <2>2. TabInv'  BY <1>0, <1>3, <2>1, WebRequestsStay, TabsStand
  <2> QED  BY <2>1, <2>2 DEF PageInv
<1>4. ASSUME NEW r \in Requests, NEW u \in Users, NEW i \in Ids, AcceptInvitation(r, u, i, FALSE), UNCHANGED tab
      PROVE  PageInv'
  <2>1. Inv'  BY <1>0, <1>4, AcceptBegins
  <2>2. Final  BY <1>4, FinalQuiet DEF AcceptInvitation, db
  <2>3. /\ req \in [Requests -> ReqShape] /\ req[r] = Idle /\ ~req[r].web
        /\ \E q : req' = [req EXCEPT ![r] = q]
    BY <1>0, <1>4, IdleIsFine DEF AcceptInvitation, Begin, Inv, ReqInv
  <2>4. \A s \in Requests : req[s].web => req'[s] = req[s]  BY <2>3
  <2>5. TabInv'  BY <1>0, <1>4, <2>2, <2>4, TabsStand
  <2> QED  BY <2>1, <2>5 DEF PageInv
<1>5. CASE Environment /\ UNCHANGED tab
  <2>1. Inv' /\ Final  BY <1>0, <1>5, EnvironmentStep, FinalEnvironment
  <2>2. UNCHANGED req
    BY <1>5 DEF Environment, Expire, OwnerPageName, NameOrganization, ProvisionMember, Redeploy
  <2> QED  BY <1>1, <1>5, <2>1, <2>2
<1>6. ASSUME NEW t \in Tabs,
             \/ \E i \in Ids, u \in Users \cup {NoUser}, current \in BOOLEAN : OpenLink(t, i, u, current)
             \/ \E u \in Users \cup {NoUser}, current \in BOOLEAN : Reload(t, u, current)
      PROVE  PageInv'
  BY <1>6, LoadStep
<1>7. ASSUME NEW t \in Tabs, \/ \E r \in Requests : Submit(t, r)
                             \/ SubmitRefused(t) \/ Receive(t) \/ LoseResponse(t)
      PROVE  PageInv'
  BY <1>7, SubmitStep, RefusedStep, ReceiveStep, LoseStep
<1> QED  BY <1>2, <1>3, <1>4, <1>5, <1>6, <1>7 DEF PageNext

\* However tabs are opened, reloaded, signed in as somebody else and cut off, what
\* they remember is true for the person who asked, and the service behind the page
\* accepts and audits as it does without (SETTLED_OUTCOMES, redeem_invitation).
THEOREM PagesTellTheTruth == PageSpec => []AcceptanceIsTrue
<1>1. PageInv => PageTellsTruth
  <2> SUFFICES ASSUME PageInv, NEW t \in Tabs
               PROVE  /\ tab[t].settled = "accepted" => AcceptedBy(tab[t].about, tab[t].asked)
                      /\ tab[t].settled \notin {Unsettled, "accepted"} =>
                           /\ ~AcceptedBy(tab[t].about, tab[t].asked)
                           /\ EffectiveStatus(invs[tab[t].about]) # "pending"
                      /\ tab[t].about # 0 /\ tab[t].settled = Unsettled => tab[t].token = tab[t].about
    BY DEF PageTellsTruth
  <2>1. TabOk(tab[t], invs)  BY DEF PageInv, TabInv
  <2>2. \A row : Spent(row) => EffectiveStatus(row) # "pending"  BY DEF Spent, Live, EffectiveStatus
  <2> QED  BY <2>1, <2>2, WordsApart DEF TabOk, TrueOf, TakenBy, AcceptedBy, Accepted
<1>2. PageInv => AcceptanceIsTrue  BY <1>1 DEF AcceptanceIsTrue, PageInv, Inv, DbInv
<1> QED  BY <1>2, PageInvInit, PageInvStep, PTL DEF PageSpec
=============================================================================
