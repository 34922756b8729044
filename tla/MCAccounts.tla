----------------------------- MODULE MCAccounts -----------------------------
(***************************************************************************)
(* Small instances of what concerns people: the provisioning of accounts,  *)
(* the clients of the realm, the principals of requests, administration,   *)
(* the audit guard, sessions and keys, the gate of the API and its start,  *)
(* and the command line's sessions.                                        *)
(*                                                                         *)
(* The components are checked one at a time: a behaviour is a behaviour of *)
(* the component it focuses on, and nothing else moves.                    *)
(***************************************************************************)
EXTENDS Provisioning, Principals, Administration, AuditGuard, RequestGate, JwksClient, Startup, SignIn,
        CliSession, KeycloakClient, TLC

CONSTANTS
  Focus,       \* the components of the run
  Actors       \* two panels, requests, replicas, browsers, ...: they are alike

VARIABLE focus

ActorSymmetry == Permutations(Actors)

-----------------------------------------------------------------------------
(* Provisioning: two addresses that fold to one key. *)
OneKey == [e \in Emails |-> CHOOSE k \in Keys : TRUE]

(* KeycloakClient: two groups of one name. *)
RealmGroups == {[path |-> "/a/x", name |-> "x", id |-> 1], [path |-> "/x", name |-> "x", id |-> 2]}

(* SignIn: two replicas whose clocks are two units apart. *)
Drifts == ("ahead" :> 1) @@ ("behind" :> -1)

(* Startup: two replicas rolled out as builds of a rolling update, one with an
   edited migration, one that migrates out of band, and settings make_app
   refuses. *)
Ordinary ==
  [texts |-> <<"a">>, auto |-> TRUE, url |-> TRUE, membership |-> TRUE, orgMemory |-> FALSE,
   index |-> FALSE, pool |-> 2, tasksPostgres |-> TRUE, grants |-> FALSE]
Newer == [Ordinary EXCEPT !.texts = <<"a", "b">>, !.index = TRUE]
Builds ==
  { Ordinary, Newer,
    [Newer EXCEPT !.texts = <<"edited", "b">>, !.grants = TRUE],
    [Newer EXCEPT !.auto = FALSE],
    [Newer EXCEPT !.pool = 1],
    [Ordinary EXCEPT !.url = FALSE, !.tasksPostgres = FALSE] }
MCLegacy == {<<>>, <<"a">>}

(* Principals: p1 and p3 have one subject at two issuers; the development
   switches are left on; the issuers share their keys or do not. *)
MCIssuerOf == [p \in People |-> IF p = "p3" THEN "i2" ELSE "i1"]
MCSubjectOf == [p \in People |-> IF p = "p2" THEN "s2" ELSE "s1"]
Settings(pinned, bearerIssuer, idKeys, idIssuer, unsafe, https, shared) ==
  [pinned |-> pinned, bearerKeys |-> "k1", bearerIssuer |-> bearerIssuer, idKeys |-> idKeys, idIssuer |-> idIssuer,
   unsafe |-> unsafe, unsigned |-> {"bearer", "idtoken"}, dev |-> TRUE, https |-> https,
   keys |-> [i \in Issuers |-> IF i = "i2" /\ ~shared THEN "k2" ELSE "k1"]]
MCDeployments ==
  {Settings(TRUE, b, k, i, FALSE, KeySets, s) :
     b \in {"i1", Unset}, k \in {Unset, "k1", "k2"}, i \in {Unset, "i1", "i2"}, s \in BOOLEAN}
  \cup {Settings(pin, "i1", Unset, Unset, u, {"k2"}, TRUE) : pin, u \in BOOLEAN}
  \cup {Settings(pin, "i1", "k2", "i1", FALSE, {"k1"}, FALSE) : pin \in BOOLEAN}
  \cup {Settings(FALSE, "i1", "k2", "i2", FALSE, KeySets, FALSE)}

-----------------------------------------------------------------------------
(* Where a component has several initial states, one will do while the run looks
   at another. *)
Parked ==
  /\ \/ focus = "principals"
     \/ /\ env = CHOOSE d \in Deployments : TRUE
        /\ username = [p \in People |-> CHOOSE s \in Strings : TRUE]
  /\ \/ focus = "gate"
     \/ /\ route = CHOOSE r \in Routes : TRUE
        /\ settings = CHOOSE s \in SettingsSet : TRUE
        /\ member = [u \in Logins |-> NoContext]
  /\ focus = "jwks" \/ healthy = TRUE
  /\ focus = "startup" \/ ran = <<>>
  /\ focus = "realm" \/ people = {}

AccountsInit ==
  /\ focus \in Focus /\ Parked
  /\ ProvisioningInit /\ PrincipalsInit /\ AdminInit /\ AuditInit /\ KeycloakInit
  /\ GateInit /\ JwksInit /\ StartupInit /\ SignInInit /\ CliInit

adminSide == <<provisioningVars, principalVars, adminVars, auditVars, keycloakVars>>
webSide == <<gateVars, jwksVars, startupVars, signInVars, cliVars>>

AccountsNext ==
  \/ /\ focus = "provisioning" /\ ProvisioningNext
     /\ UNCHANGED <<focus, principalVars, adminVars, auditVars, keycloakVars, webSide>>
  \/ /\ focus = "principals" /\ PrincipalsNext
     /\ UNCHANGED <<focus, provisioningVars, adminVars, auditVars, keycloakVars, webSide>>
  \/ /\ focus = "administration" /\ AdminNext
     /\ UNCHANGED <<focus, provisioningVars, principalVars, auditVars, keycloakVars, webSide>>
  \/ /\ focus = "audit" /\ AuditNext
     /\ UNCHANGED <<focus, provisioningVars, principalVars, adminVars, keycloakVars, webSide>>
  \/ /\ focus = "realm" /\ KeycloakNext
     /\ UNCHANGED <<focus, provisioningVars, principalVars, adminVars, auditVars, webSide>>
  \/ /\ focus = "gate" /\ GateNext
     /\ UNCHANGED <<focus, adminSide, jwksVars, startupVars, signInVars, cliVars>>
  \/ /\ focus = "jwks" /\ JwksNext
     /\ UNCHANGED <<focus, adminSide, gateVars, startupVars, signInVars, cliVars>>
  \/ /\ focus = "startup" /\ StartupNext
     /\ UNCHANGED <<focus, adminSide, gateVars, jwksVars, signInVars, cliVars>>
  \/ /\ focus = "sign in" /\ SignInNext
     /\ UNCHANGED <<focus, adminSide, gateVars, jwksVars, startupVars, cliVars>>
  \/ /\ focus = "cli" /\ CliNext
     /\ UNCHANGED <<focus, adminSide, gateVars, jwksVars, startupVars, signInVars>>

accountsVars == <<focus, adminSide, webSide>>
AccountsSpec == AccountsInit /\ [][AccountsNext]_accountsVars

-----------------------------------------------------------------------------
(* What is checked of the components, each of its own behaviours; besides
   AddressesAreSafe, OnePersonEach, RolesAreSound, AuditedTogether, RealmCallsRight
   of KeycloakClient, KeysAreCurrent of JwksClient and MembershipStays of
   RequestGate. *)

(* Whoever acts in a browser is the person it shows, from a flow it began, in
   time (SignIn); the command line sends a token only to the hub it is for,
   keeps a session the hub accepted, and tells of every one it leaves behind
   (CliSession). *)
SessionsAreOwn == SessionIsOwnFlow /\ ActsAsShown /\ ActsInTime /\ SessionsAreKept /\ SessionsAreAccounted

(* No handler runs without the checks its route declares (RequestGate), and no
   replica serves on a schema it does not fit, every migration having run once
   (Startup). *)
ServedAsDeclared == HandlersProtected /\ MigratedOnce /\ ServingFitsSchema
=============================================================================
