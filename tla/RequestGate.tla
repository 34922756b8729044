------------------------------ MODULE RequestGate ------------------------------
(***************************************************************************)
(* What stands between a request and a handler: the checks that refuse to   *)
(* start an application whose routes are not protected (core.py, web/authz, *)
(* web/surface, frames/authorization), the two middlewares (web/guard,      *)
(* path_protection), and the resolution of the caller's organization with   *)
(* its automatic admission (frames/auth.py, frames/orgs.py).                *)
(***************************************************************************)
EXTENDS Naturals, FiniteSets

CONSTANTS
  Logins,       \* subjects of the identity provider
  Declared,     \* the organization of FRAMES_AUTH_SINGLE_ORG_ID
  Elsewhere,    \* an organization a person may be invited to
  Gates         \* requests in flight

ASSUME LoginsAssumption == Logins # {}

VARIABLES
  route,     \* the route requests are made to
  settings,  \* what the deployment sets
  app,       \* "assembling", "serving" or "refused"
  member,    \* collab_org_members: organization and status of each login
  gate       \* the requests

gateVars == <<route, settings, app, member, gate>>

RouteKinds == {"api", "mount", "websocket", "other"}
RoleGuards == {"none", "under", "over"}   \* the role decorator, under or over the route's

(* A route as the checks see it.  A public path is one of PUBLIC_WEB_PATHS; a page
   is public if make_router was given it among public_page_routers; an exempt path
   is in CSRF_ENFORCED_IN_ROUTE; require_csrf runs require_web_session. *)
Routes == {r \in [kind : RouteKinds, surface : BOOLEAN, public : BOOLEAN, page : BOOLEAN, exempt : BOOLEAN,
                  session : BOOLEAN, csrf : BOOLEAN, unsafe : BOOLEAN,
                  access : {"public", "authenticated"}, guard : RoleGuards] :
             /\ r.public => r.surface
             /\ r.csrf => r.session
             /\ r.kind # "api" => ~r.session /\ ~r.unsafe /\ r.guard = "none"}

SettingsSet == [source : {"claims", "membership", "single"}, pinned : BOOLEAN, defaults : BOOLEAN,
                declared : BOOLEAN, web : BOOLEAN]

NoContext == [org |-> "none", active |-> FALSE]
IdleGate == [pc |-> "idle", login |-> CHOOSE u \in Logins : TRUE, credential |-> FALSE,
             session |-> FALSE, csrf |-> FALSE, operator |-> FALSE, trusted |-> FALSE,
             context |-> NoContext]

GateInit ==
  /\ route \in Routes /\ settings \in SettingsSet
  /\ app = "assembling"
  /\ member \in [Logins -> {NoContext, [org |-> Elsewhere, active |-> FALSE]}]
  /\ gate = [g \in Gates |-> IdleGate]

-----------------------------------------------------------------------------
(* make_app *)

ResolvesMembership == settings.source # "claims"

(* enforce_membership_org_source_preconditions and single_org_declaration *)
OrgSourceStands ==
  /\ ResolvesMembership => settings.pinned /\ ~settings.defaults
  /\ settings.source = "single" => settings.declared

(* route_offence *)
RouteOffence ==
  /\ route.surface
  /\ \/ route.kind # "api"
     \/ ~route.public /\ ~route.session
     \/ ~route.public /\ route.unsafe /\ ~route.exempt /\ ~route.csrf

(* stale_csrf_exemptions *)
StaleExemption ==
  /\ route.exempt /\ route.kind = "api"
  /\ ~route.surface \/ ~route.unsafe \/ route.csrf

(* stray_page_routes *)
NothingStray == FALSE

StrayPage == route.kind = "api" /\ ~route.surface /\ route.session

(* _refuse_unless_safely_public, of the routes of public_page_routers only *)
UnsafelyPublic == route.page /\ (route.kind # "api" \/ ~route.public \/ route.unsafe)

(* enforce_web_surface_map_access *)
BlockedByMap == route.kind = "api" /\ route.surface /\ route.access # "public"

(* verify_protected_routes *)
OrphanedGuard == route.guard = "over"

MakeApp ==
  /\ app = "assembling"
  /\ app' = IF /\ OrgSourceStands
               /\ ~OrphanedGuard
               /\ settings.web => /\ ~StaleExemption /\ ~StrayPage /\ ~RouteOffence
                                  /\ ~UnsafelyPublic /\ ~BlockedByMap
            THEN "serving" ELSE "refused"
  /\ UNCHANGED <<route, settings, member, gate>>

-----------------------------------------------------------------------------
(* A request.  trusted: its identity provider is one of the declared sources. *)
GateArrive(g) ==
  /\ app = "serving" /\ gate[g].pc = "idle"
  /\ settings.web \/ ~route.surface
  /\ \E q \in [pc : {"guard"}, login : Logins, credential : BOOLEAN, session : BOOLEAN,
               csrf : BOOLEAN, operator : BOOLEAN, trusted : BOOLEAN, context : {NoContext}] :
       /\ q.csrf => q.session
       /\ gate' = [gate EXCEPT ![g] = q]
  /\ UNCHANGED <<route, settings, app, member>>

TurnAway(g) == gate' = [gate EXCEPT ![g] = IdleGate]
Proceed(g, pc) == gate' = [gate EXCEPT ![g].pc = pc]

(* _is_public; _session_or_none, whose "could not be decided" is no session; and
   a redirect to sign in, a 401, a 503 or a close of the handshake. *)
IsPublic == route.public
SessionOrNone(g) == gate[g].session
Deny(g) == TurnAway(g)

(* WebSessionGuardMiddleware: every path of the surface but the public ones, and
   no websocket at all. *)
SessionGuard(g) ==
  /\ gate[g].pc = "guard"
  /\ IF route.surface /\ settings.web
          /\ (route.kind = "websocket" \/ (~IsPublic /\ ~SessionOrNone(g)))
       THEN Deny(g)
       ELSE Proceed(g, IF route.access = "public" THEN "dependencies" ELSE "authenticate")
  /\ UNCHANGED <<route, settings, app, member>>

(* auth_context_from_claims: the organization the token, or a default, names. *)
ClaimsContext == [org |-> "claims", active |-> TRUE]

(* resolve_principal: the caller's row as it is stored now. *)
ResolvePrincipal(login) == member[login]

(* _auto_admit_member: a stranger from a declared identity source, in the single
   organization's mode. *)
MayAutoAdmit(q) == ResolvePrincipal(q.login) = NoContext /\ settings.source = "single" /\ q.trusted

(* get_auth_context *)
GateContext(g) ==
  LET q == gate[g] IN
  IF ~ResolvesMembership
    THEN gate' = [gate EXCEPT ![g].pc = "dependencies", ![g].context = ClaimsContext]
    ELSE IF MayAutoAdmit(q) THEN Proceed(g, "provision")
    ELSE gate' = [gate EXCEPT ![g].pc = "admit", ![g].context = ResolvePrincipal(q.login)]

(* PathProtectionMiddleware *)
AuthenticateRequest(g) ==
  /\ gate[g].pc = "authenticate"
  /\ \/ ~gate[g].credential /\ TurnAway(g)
     \/ gate[g].credential /\ GateContext(g)
  /\ UNCHANGED <<route, settings, app, member>>

ProvisionBlindly(g) ==
  LET q == gate[g]
      row == [org |-> Declared, active |-> TRUE] IN
  /\ q.pc = "provision"
  /\ member' = [member EXCEPT ![q.login] = row]
  /\ gate' = [gate EXCEPT ![g].pc = "admit", ![g].context = row]
  /\ UNCHANGED <<route, settings, app>>

(* provision_member: INSERT ... ON CONFLICT DO NOTHING, and the row as it is. *)
AutoAdmit(g) ==
  LET q == gate[g]
      row == IF member[q.login] = NoContext THEN [org |-> Declared, active |-> TRUE] ELSE member[q.login] IN
  /\ q.pc = "provision"
  /\ member' = [member EXCEPT ![q.login] = row]
  /\ gate' = [gate EXCEPT ![g].pc = "admit", ![g].context = row]
  /\ UNCHANGED <<route, settings, app>>

(* auth_context_from_membership: an active member, or an operator without an
   organization, or NoOrganizationError. *)
Admit(g) ==
  LET q == gate[g] IN
  /\ q.pc = "admit"
  /\ \/ q.context.active /\ Proceed(g, "dependencies")
     \/ /\ ~q.context.active /\ q.operator
        /\ gate' = [gate EXCEPT ![g].pc = "dependencies", ![g].context = NoContext]
     \/ ~q.context.active /\ ~q.operator /\ TurnAway(g)
  /\ UNCHANGED <<route, settings, app, member>>

(* require_web_session, require_csrf, and the role decorator under the route. *)
Dependencies(g) ==
  LET q == gate[g] IN
  /\ q.pc = "dependencies"
  /\ IF (route.session /\ ~q.session) \/ (route.csrf /\ ~q.csrf)
          \/ (route.guard = "under" /\ ~q.operator)
       THEN TurnAway(g) ELSE Proceed(g, "handler")
  /\ UNCHANGED <<route, settings, app, member>>

(* The handler; an exempt one compares the CSRF token itself. *)
Handle(g) ==
  /\ gate[g].pc = "handler"
  /\ IF route.exempt /\ ~gate[g].csrf THEN TurnAway(g) ELSE Proceed(g, "ran")
  /\ UNCHANGED <<route, settings, app, member>>

GateRespond(g) ==
  /\ gate[g].pc = "ran"
  /\ TurnAway(g)
  /\ UNCHANGED <<route, settings, app, member>>

(* Meanwhile a login accepts an invitation, or a membership is suspended. *)
MembershipChanges ==
  /\ app = "serving" /\ ResolvesMembership
  /\ \E u \in Logins :
       \/ member[u] = NoContext /\ member' = [member EXCEPT ![u] = [org |-> Elsewhere, active |-> TRUE]]
       \/ member[u].active /\ member' = [member EXCEPT ![u].active = FALSE]
  /\ UNCHANGED <<route, settings, app, gate>>

GateNext ==
  \/ MakeApp \/ MembershipChanges
  \/ \E g \in Gates : GateArrive(g) \/ SessionGuard(g) \/ AuthenticateRequest(g) \/ AutoAdmit(g)
                      \/ Admit(g) \/ Dependencies(g) \/ Handle(g) \/ GateRespond(g)

GateSpec == GateInit /\ [][GateNext]_gateVars

-----------------------------------------------------------------------------
Contexts == [org : {"none", "claims", Declared, Elsewhere}, active : BOOLEAN]

\* The values the gate's variables take.
GateTypeOK ==
  /\ route \in Routes /\ settings \in SettingsSet
  /\ app \in {"assembling", "serving", "refused"}
  /\ member \in [Logins -> Contexts]
  /\ gate \in [Gates ->
       [pc : {"idle", "guard", "authenticate", "provision", "admit", "dependencies", "handler", "ran"},
        login : Logins, credential : BOOLEAN, session : BOOLEAN, csrf : BOOLEAN, operator : BOOLEAN,
        trusted : BOOLEAN, context : Contexts]]

Ran(g) == gate[g].pc = "ran"

(* An application that started runs no handler of the browser surface without a
   session but those at a public path, and no state-changing one without the CSRF
   token but those registered at a public path in another way than as a public
   page, which no check looks at; no page outside the guarded prefixes, no public
   page that is not at a public path, and no handler whose declared role the caller
   lacks: what the start-up checks let through, the layers at request time do
   refuse. *)
HandlersProtected ==
  \A g \in Gates : Ran(g) =>
    /\ route.surface /\ ~route.public => gate[g].session
    /\ route.surface /\ route.unsafe /\ (~route.public \/ route.page) => gate[g].csrf
    /\ settings.web /\ route.page => route.public
    /\ settings.web /\ route.session => route.surface
    /\ route.guard # "none" => gate[g].operator
    /\ route.access # "public" => gate[g].credential

(* An admission never moves a membership that another request made in between to
   another organization, and never makes a suspended one active again
   (provision_member's ON CONFLICT DO NOTHING). *)
MembershipKept ==
  \A u \in Logins : member[u] # NoContext =>
    member'[u].org = member[u].org /\ (member'[u].active => member[u].active)
MembershipStays == [][MembershipKept]_gateVars
=============================================================================
