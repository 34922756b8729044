---------------------------- MODULE AcceptancePage ----------------------------
(***************************************************************************)
(* The page an invitation's link opens (web/acceptance.py) and the endpoint *)
(* it posts to (routers/invite.py), composed with the invitation service.  *)
(* A tab keeps the token and a settled outcome in its session storage; it  *)
(* is opened, reloaded, signed in as somebody else, and loses responses    *)
(* while the server goes on.                                               *)
(***************************************************************************)
EXTENDS Invitations

CONSTANTS Tabs

VARIABLES tab

pageVars == <<vars, tab>>

(* The session storage holds no outcome. *)
Unsettled == ""

(* token and settled are the session storage; user is the session the page was
   rendered for; about is the invitation of the last link opened. *)
NewTab == [token |-> 0, settled |-> Unsettled, shown |-> "no_token", user |-> NoUser,
           slot |-> 0, about |-> 0, asked |-> NoUser]

SettledWithErrors == {"accepted", "invitation_not_found", "expired", "revoked", "already_used",
                      "organization_missing", "error"}

SettledOutcomes == {"accepted", "invitation_not_found", "expired", "revoked", "already_used",
                    "organization_missing"}

PageInit == Init /\ tab = [t \in Tabs |-> NewTab]

(* The server goes on with a request whose page has gone. *)
Abandoned(t) ==
  IF tab[t].slot = 0 THEN req
  ELSE [req EXCEPT ![tab[t].slot] = IF @.pc = "done" THEN Idle ELSE [@ EXCEPT !.web = FALSE]]

(* The script's run on a page rendered for u, from what the storage holds. *)
Rendered(old, token, settled, u, current) ==
  [old EXCEPT !.token = token, !.settled = settled, !.user = u, !.slot = 0,
     !.shown = CASE settled # Unsettled -> settled
                 [] token = 0 -> "no_token"
                 [] u = NoUser -> "signin"
                 [] ~current -> "reauthentication_required"
                 [] OTHER -> "ready"]

(* A link is opened: its token replaces the one stored and drops the outcome. *)
OpenLink(t, i, u, current) ==
  /\ i \in links
  /\ tab' = [tab EXCEPT ![t] = [Rendered(@, i, Unsettled, u, current) EXCEPT !.about = i, !.asked = NoUser]]
  /\ req' = Abandoned(t)
  /\ UNCHANGED <<db, idp, links, single>>

Reload(t, u, current) ==
  /\ tab' = [tab EXCEPT ![t] = Rendered(@, @.token, @.settled, u, current)]
  /\ req' = Abandoned(t)
  /\ UNCHANGED <<db, idp, links, single>>

(* The button: the endpoint redeems for the session's user. *)
Submit(t, r) ==
  /\ tab[t].shown = "ready"
  /\ AcceptInvitation(r, tab[t].user, tab[t].token, TRUE)
  /\ tab' = [tab EXCEPT ![t].shown = "working", ![t].slot = r, ![t].asked = tab[t].user]

(* The endpoint refuses before it redeems: the session has ended (a redirect),
   its claims are no longer current, or it is another person's (the CSRF token
   does not match). *)
SubmitRefused(t) ==
  /\ tab[t].shown = "ready"
  /\ \E shown \in {"signin", "reauthentication_required", "error"} :
       tab' = [tab EXCEPT ![t].shown = shown]
  /\ UNCHANGED vars

(* The answer arrives; an exception without an outcome reads as "error". *)
Receive(t) ==
  LET r == tab[t].slot IN
  /\ r # 0 /\ req[r].pc = "done"
  /\ LET outcome == req[r].result IN
       tab' = [tab EXCEPT ![t].slot = 0, ![t].shown = outcome,
                 ![t].token = IF outcome \in SettledOutcomes THEN 0 ELSE @,
                 ![t].settled = IF outcome \in SettledOutcomes THEN outcome ELSE @]
  /\ req' = [req EXCEPT ![r] = Idle]
  /\ UNCHANGED <<db, idp, links, single>>

(* The fetch fails: the server may have stopped with it, or may go on. *)
LoseResponse(t) ==
  LET r == tab[t].slot IN
  /\ r # 0
  /\ tab' = [tab EXCEPT ![t].slot = 0, ![t].shown = "error"]
  /\ \/ req' = Abandoned(t)
     \/ req' = [req EXCEPT ![r] = Idle]
  /\ UNCHANGED <<db, idp, links, single>>

PageNext ==
  \/ /\ \/ \E r \in Requests : AnyRequestStep(r)
        \/ \E r \in Requests, u \in Users, i \in Ids : AcceptInvitation(r, u, i, FALSE)
        \/ Environment
     /\ UNCHANGED tab
  \/ \E t \in Tabs :
       \/ \E i \in Ids, u \in Users \cup {NoUser}, current \in BOOLEAN : OpenLink(t, i, u, current)
       \/ \E u \in Users \cup {NoUser}, current \in BOOLEAN : Reload(t, u, current)
       \/ \E r \in Requests : Submit(t, r)
       \/ SubmitRefused(t) \/ Receive(t) \/ LoseResponse(t)

PageSpec == PageInit /\ [][PageNext]_pageVars

-----------------------------------------------------------------------------
AcceptedBy(i, u) == Accepted(i) /\ invs[i].acceptedBy = u

(* What the tab remembers is true for the person who asked: "accepted" only
   when the invitation is theirs, and any other remembered outcome only when
   the invitation can never work again for them; whatever is not settled keeps
   the token, so that a reload can ask again (SETTLED_OUTCOMES). *)
PageTellsTruth ==
  \A t \in Tabs :
    /\ tab[t].settled = "accepted" => AcceptedBy(tab[t].about, tab[t].asked)
    /\ tab[t].settled \notin {Unsettled, "accepted"} =>
         /\ ~AcceptedBy(tab[t].about, tab[t].asked)
         /\ EffectiveStatus(invs[tab[t].about]) # "pending"
    /\ tab[t].about # 0 /\ tab[t].settled = Unsettled => tab[t].token = tab[t].about

(* With the page in front of it the service is as right as without: what tabs
   remember is true, whoever is a member by an invitation was invited, and the
   audit log tells what happened (_redeem behind routers/invite.py). *)
AcceptanceIsTrue == PageTellsTruth /\ AcceptedRightly /\ AuditAgrees

(* The words of the page's "error" state: "We could not finish accepting your
   invitation. Your invitation has not been used." *)
ErrorMeansUnused ==
  \A t \in Tabs :
    tab[t].shown = "error" /\ tab[t].asked # NoUser => ~AcceptedBy(tab[t].about, tab[t].asked)
=============================================================================
