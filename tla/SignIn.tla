-------------------------------- MODULE SignIn --------------------------------
(***************************************************************************)
(* Signing in to the browser surface, and what a session may do            *)
(* (routers/web.py, web/session.py, web/oidc.py, web/authz.py).  Nothing    *)
(* about a session is kept on the server: a browser carries a transient     *)
(* cookie while a flow is out and a signed session cookie afterwards, and   *)
(* each request is answered by a replica with its own clock.  Tabs of one   *)
(* browser share its cookies; a callback may be opened late, twice, or in   *)
(* another browser.                                                         *)
(***************************************************************************)
EXTENDS Integers

CONSTANTS
  Persons, Anyone,  \* who signs in; nobody
  Browsers,
  Servers,          \* the replicas that answer
  Drift,            \* Drift[r]: how far replica r's clock is ahead of real time
  MaxSignIns,         \* bound: sign-ins started
  Horizon,          \* bound: the time modelled
  ClockSkew,        \* CLOCK_SKEW_SECONDS
  ClaimMaxAge,      \* VERIFIED_CLAIM_MAX_AGE_SECONDS
  SessionLifetime,  \* web.session_lifetime_seconds
  FlowLifetime      \* TRANSIENT_LIFETIME_SECONDS

(* Of finitely many replicas, one clock is the slowest and one the fastest. *)
ASSUME SignInAssumption ==
  /\ Anyone \notin Persons
  /\ ClockSkew \in Nat /\ ClaimMaxAge \in Nat /\ SessionLifetime \in Nat /\ FlowLifetime \in Nat
  /\ MaxSignIns \in Nat /\ Horizon \in Nat
  /\ Drift \in [Servers -> Int]
  /\ \E lo, hi \in Servers : \A r \in Servers : Drift[lo] <= Drift[r] /\ Drift[r] <= Drift[hi]

VARIABLES
  clock,      \* real time
  flows,      \* the sign-ins started: where, by whom answered, how far
  transient,  \* each browser's transient cookie
  session,    \* each browser's session cookie
  form,       \* the page open in each browser: whose, and its csrf token
  exchange,   \* callbacks past the code exchange, with the claims it brought
  acted       \* what the last request did

signInVars == <<clock, flows, transient, session, form, exchange, acted>>

SignIns == 1..MaxSignIns
NoFlow == [state |-> "none", browser |-> Anyone, user |-> Anyone]
NoTransient == [flow |-> 0, iat |-> 0, exp |-> 0]
NoSession == [user |-> Anyone, csrf |-> 0, iat |-> 0, exp |-> 0, minted |-> 0, claims |-> 0]
NoForm == [user |-> Anyone, csrf |-> 0]
NoExchange == [user |-> Anyone, browser |-> Anyone,
               replica |-> CHOOSE r \in Servers : TRUE, claims |-> 0]
NoAct == [as |-> Anyone, shown |-> Anyone, verified |-> FALSE, age |-> 0, claimAge |-> 0]

SignInInit ==
  /\ clock = 0
  /\ flows = [f \in SignIns |-> NoFlow]
  /\ transient = [b \in Browsers |-> NoTransient]
  /\ session = [b \in Browsers |-> NoSession]
  /\ form = [b \in Browsers |-> NoForm]
  /\ exchange = [f \in SignIns |-> NoExchange]
  /\ acted = NoAct

Now(r) == clock + Drift[r]

-----------------------------------------------------------------------------
DecodesWithoutExpiry(cookie, r) == cookie.exp # 0 /\ cookie.iat <= Now(r) + ClockSkew

(* SessionCodec.decode at replica r: a signed cookie is refused when it was
   issued too far in the future and when it has expired (the browser's own
   max_age is not relied on). *)
DecodesCookie(cookie, r) ==
  /\ cookie.exp # 0
  /\ cookie.iat <= Now(r) + ClockSkew
  /\ cookie.exp > Now(r)

FlowStarted(f) == flows[f].state # "none"

(* GET /web/signin: a live session is sent on at once, unless it is renewed. *)
Signin(b, r, renew) ==
  \E f \in SignIns :
    /\ ~FlowStarted(f) /\ \A g \in 1..(f-1) : FlowStarted(g)
    /\ renew \/ ~DecodesCookie(session[b], r)
    /\ flows' = [flows EXCEPT ![f] = [state |-> "out", browser |-> b, user |-> Anyone]]
    /\ transient' = [transient EXCEPT ![b] = [flow |-> f, iat |-> Now(r), exp |-> Now(r) + FlowLifetime]]
    /\ acted' = NoAct
    /\ UNCHANGED <<clock, session, form, exchange>>

(* The authorization server: somebody authenticates, or it returns an error. *)
IdpAnswers(f) ==
  /\ flows[f].state = "out"
  /\ \/ \E u \in Persons : flows' = [flows EXCEPT ![f].state = "code", ![f].user = u]
     \/ flows' = [flows EXCEPT ![f].state = "error"]
  /\ acted' = NoAct
  /\ UNCHANGED <<clock, transient, session, form, exchange>>

(* _failed_sign_in clears the transient cookie, whichever flow it was for. *)
FailedSignIn(b) ==
  /\ transient' = [transient EXCEPT ![b] = NoTransient]
  /\ UNCHANGED <<flows, exchange>>

StateUnchecked(b, f) == TRUE

(* The transient cookie's state is the one the callback carries. *)
StateMatches(b, f) == transient[b].flow = f

(* The token endpoint: a code works once. *)
ExchangeCode(f) == flows[f].state = "code"

(* verify_id_token: whose token it is, with the nonce of its own flow. *)
VerifyIdToken(b, f, r) == [user |-> flows[f].user, browser |-> b, replica |-> r, claims |-> clock]

(* GET /web/callback, up to the exchange. *)
Callback(b, f, r) ==
  /\ flows[f].state \in {"code", "spent", "error"}
  /\ \/ ~DecodesCookie(transient[b], r) /\ FailedSignIn(b)
     \/ DecodesCookie(transient[b], r) /\ flows[f].state = "error" /\ FailedSignIn(b)
     \/ DecodesCookie(transient[b], r) /\ ~StateMatches(b, f) /\ FailedSignIn(b)
     \/ /\ DecodesCookie(transient[b], r) /\ StateMatches(b, f)
        /\ flows[f].state \in {"code", "spent"}      \* refused, or used before
        /\ FailedSignIn(b)
     \/ /\ DecodesCookie(transient[b], r) /\ StateMatches(b, f) /\ ExchangeCode(f)
        /\ flows' = [flows EXCEPT ![f].state = "spent"]
        /\ exchange' = [exchange EXCEPT ![f] = VerifyIdToken(b, f, r)]
        /\ UNCHANGED transient
  /\ acted' = NoAct
  /\ UNCHANGED <<clock, session, form>>

(* The rest of the callback: after the platform role is reconciled, the session
   is minted at the replica's time of that moment, and the response sets the
   browser's cookies. *)
MintSession(f) ==
  LET x == exchange[f]
      r == x.replica IN
  /\ x.user # Anyone
  /\ session' = [session EXCEPT ![x.browser] = [user |-> x.user, csrf |-> f, iat |-> Now(r),
       exp |-> Now(r) + SessionLifetime, minted |-> clock, claims |-> x.claims]]
  /\ transient' = [transient EXCEPT ![x.browser] = NoTransient]
  /\ exchange' = [exchange EXCEPT ![f] = NoExchange]
  /\ acted' = NoAct
  /\ UNCHANGED <<clock, flows, form>>

-----------------------------------------------------------------------------
(* A page of the surface, rendered for the session it was asked with. *)
Page(b, r) ==
  /\ DecodesCookie(session[b], r)
  /\ form' = [form EXCEPT ![b] = [user |-> session[b].user, csrf |-> session[b].csrf]]
  /\ acted' = NoAct
  /\ UNCHANGED <<clock, flows, transient, session, exchange>>

AnyCsrf(b) == TRUE

CsrfTokenMatches(b) == form[b].csrf = session[b].csrf

Acts(b, verified) ==
  acted' = [as |-> session[b].user, shown |-> form[b].user, verified |-> verified,
            age |-> clock - session[b].minted, claimAge |-> clock - session[b].claims]

(* require_csrf on a form of that page. *)
SubmitForm(b, r) ==
  /\ form[b] # NoForm
  /\ DecodesCookie(session[b], r) /\ CsrfTokenMatches(b)
  /\ Acts(b, FALSE)
  /\ UNCHANGED <<clock, flows, transient, session, form, exchange>>

VerifiedClaimsAreCurrent(b, r) ==
  (IF Now(r) < session[b].iat THEN 0 ELSE Now(r) - session[b].iat) <= ClaimMaxAge

(* An acceptance decides on the address the session carries. *)
SubmitAcceptance(b, r) ==
  /\ form[b] # NoForm
  /\ DecodesCookie(session[b], r) /\ CsrfTokenMatches(b)
  /\ VerifiedClaimsAreCurrent(b, r)
  /\ Acts(b, TRUE)
  /\ UNCHANGED <<clock, flows, transient, session, form, exchange>>

Signout(b, r) ==
  /\ form[b] # NoForm
  /\ DecodesCookie(session[b], r) /\ CsrfTokenMatches(b)
  /\ session' = [session EXCEPT ![b] = NoSession]
  /\ acted' = NoAct
  /\ UNCHANGED <<clock, flows, transient, form, exchange>>

ClockTicks ==
  /\ clock < Horizon
  /\ clock' = clock + 1
  /\ acted' = NoAct
  /\ UNCHANGED <<flows, transient, session, form, exchange>>

SignInNext ==
  \/ \E b \in Browsers, r \in Servers :
       \/ \E renew \in BOOLEAN : Signin(b, r, renew)
       \/ \E f \in SignIns : Callback(b, f, r)
       \/ Page(b, r) \/ SubmitForm(b, r) \/ SubmitAcceptance(b, r) \/ Signout(b, r)
  \/ \E f \in SignIns : IdpAnswers(f) \/ MintSession(f)
  \/ ClockTicks

SignInSpec == SignInInit /\ [][SignInNext]_signInVars

-----------------------------------------------------------------------------
(* The values the variables take. *)
SignInTypeOK ==
  /\ clock \in Nat
  /\ flows \in [SignIns -> [state : {"none", "out", "code", "error", "spent"}, browser : Browsers \cup {Anyone},
                            user : Persons \cup {Anyone}]]
  /\ transient \in [Browsers -> [flow : SignIns \cup {0}, iat : Int, exp : Int]]
  /\ session \in [Browsers -> [user : Persons \cup {Anyone}, csrf : SignIns \cup {0}, iat : Int, exp : Int,
                               minted : Nat, claims : Nat]]
  /\ form \in [Browsers -> [user : Persons \cup {Anyone}, csrf : SignIns \cup {0}]]
  /\ exchange \in [SignIns -> [user : Persons \cup {Anyone}, browser : Browsers \cup {Anyone}, replica : Servers,
                               claims : Nat]]
  /\ acted \in [as : Persons \cup {Anyone}, shown : Persons \cup {Anyone}, verified : BOOLEAN, age : Int,
                claimAge : Int]

(* A browser is signed in only as somebody who answered a sign-in that this
   browser started, however its tabs and another browser's interleave
   (the transient cookie's state, and the code that works once). *)
SessionIsOwnFlow ==
  \A b \in Browsers : session[b] # NoSession =>
    /\ flows[session[b].csrf].browser = b
    /\ flows[session[b].csrf].user = session[b].user

(* A form rendered for one person never acts as another, although the cookie
   may have changed hands in another tab since (require_csrf). *)
ActsAsShown == acted.as = acted.shown

Spread ==
  LET apart == {Drift[r] - Drift[s] : r, s \in Servers}
  IN CHOOSE d \in apart : \A e \in apart : e <= d

(* What a session does, it does within its lifetime, and what it decides on the
   address of its claims within ClaimMaxAge, give or take what separates the
   clocks of the replica that minted it and the one that decides. *)
ActsInTime ==
  /\ acted.age <= SessionLifetime + Spread
  /\ acted.verified => acted.age <= ClaimMaxAge + Spread

(* "The true worst-case age of an assertion this server will act on", where
   every replica's clock is within CLOCK_SKEW_SECONDS of real time. *)
WorstCaseAge ==
  acted.verified /\ (\A r \in Servers : Drift[r] \in -ClockSkew..ClockSkew)
    => acted.claimAge <= ClaimMaxAge + ClockSkew
=============================================================================
