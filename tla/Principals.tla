----------------------------- MODULE Principals -----------------------------
(***************************************************************************)
(* Whom a request speaks for: the identity settings checked at start-up    *)
(* (frames/identity.py, core.py), the credential a request carries, its    *)
(* verification against the configured issuers, and the principal its      *)
(* claims become (frames/auth.py).  Frames, groups and memberships are     *)
(* keyed by that principal, so two people must never share one.            *)
(*                                                                         *)
(* Identity providers are external: an issuer signs with the keys of some  *)
(* JWKS document, which other issuers may share, and its subjects are its  *)
(* own, so two issuers may give two people the same one.  The audience is  *)
(* left out: it narrows what an issuer's token may be used for, never whom *)
(* it names.                                                               *)
(***************************************************************************)
EXTENDS Naturals, FiniteSets

CONSTANTS
  People, Issuers, KeySets, Strings,
  IssuerOf,    \* [People -> Issuers]
  SubjectOf,   \* [People -> Strings]
  Deployments, \* the settings there may be
  Requests,
  Unset, None  \* an absent setting; an absent claim, token or answer

Environments ==
  [pinned : BOOLEAN, bearerKeys : KeySets \cup {Unset}, bearerIssuer : Issuers \cup {Unset},
   idKeys : KeySets \cup {Unset}, idIssuer : Issuers \cup {Unset},
   unsafe : BOOLEAN, unsigned : SUBSET {"bearer", "idtoken"}, dev : BOOLEAN,
   https : SUBSET KeySets, keys : [Issuers -> KeySets]]

\* The claims of a person at some moment; some tokens carry no subject, and
\* anybody can write one down that nobody signed.
Tokens == [person : People, name : Strings, sub : Strings \cup {None}, signed : BOOLEAN]

\* Within one issuer a subject names one person.
ASSUME PeopleAssumption ==
  /\ IssuerOf \in [People -> Issuers] /\ SubjectOf \in [People -> Strings]
  /\ \A p, q \in People : IssuerOf[p] = IssuerOf[q] /\ SubjectOf[p] = SubjectOf[q] => p = q
  /\ Deployments \subseteq Environments /\ Strings # {}
  /\ Unset \notin Issuers \cup KeySets /\ None \notin Strings \cup Tokens

VARIABLES
  env,       \* the settings, which documents are fetched over https, which keys each issuer uses
  phase,     \* "assembling", "serving" or "refused"
  username,  \* the name each person goes by now
  request,   \* the requests in flight
  spoke      \* every principal a request was given, and for whom (history)

principalVars == <<env, phase, username, request, spoke>>

Nobody == [pc |-> "idle", cookie |-> None, bearer |-> None, caller |-> None, context |-> None]

Or(setting, fallback) == IF setting # Unset THEN setting ELSE fallback

---------------------------------------------------------------------------
(* make_app *)

IdTokenKeys == Or(env.idKeys, env.bearerKeys)
IdTokenIssuer == Or(env.idIssuer, env.bearerIssuer)

BearerIssuerOnly == env.pinned /\ env.bearerKeys # Unset => env.bearerIssuer # Unset

\* enforce_single_issuer_for_pin
SingleIssuer ==
  env.pinned =>
    /\ env.bearerKeys # Unset => env.bearerIssuer # Unset
    /\ IdTokenKeys # Unset => IdTokenIssuer # Unset
    /\ env.bearerKeys # Unset /\ IdTokenKeys # Unset => env.bearerIssuer = IdTokenIssuer

\* enforce_https_jwks_urls
HttpsKeys == \A keys \in {env.bearerKeys, env.idKeys} \ {Unset} : keys \in env.https \/ env.unsafe

Start ==
  /\ phase = "assembling"
  /\ phase' = IF SingleIssuer /\ HttpsKeys THEN "serving" ELSE "refused"
  /\ UNCHANGED <<env, username, request, spoke>>

---------------------------------------------------------------------------
(* The credential *)

\* decode_verified_jwt: a key of the document, the issuer where one is set;
\* over plain http the keys may be anyone's.
Verified(t, keys, issuer) ==
  /\ keys # Unset
  /\ IF t.signed THEN env.keys[IssuerOf[t.person]] = keys ELSE keys \notin env.https
  /\ issuer # Unset => IssuerOf[t.person] = issuer

UnsignedWhenAsked(kind) == kind \in env.unsigned

\* unsafe_auth_enabled and the ALLOW_UNSIGNED setting of each kind of token
AllowUnsigned(kind) == env.unsafe /\ kind \in env.unsigned

DecodeBearer(t) == AllowUnsigned("bearer") \/ Verified(t, env.bearerKeys, env.bearerIssuer)
DecodeIdToken(t) == AllowUnsigned("idtoken") \/ Verified(t, IdTokenKeys, IdTokenIssuer)

NameFirst(t) == t.name

\* user_from_claims: the subject, or a name that may change hands.
UserFromClaims(t) == IF env.pinned THEN t.sub ELSE t.name

\* _credential_claims: the cookie alone, if there is one; its failure is final.
Credential(q) == IF q.cookie # None THEN q.cookie ELSE q.bearer
Decodes(q) == IF q.cookie # None THEN DecodeIdToken(q.cookie) ELSE DecodeBearer(q.bearer)

DevAuth == env.unsafe /\ env.dev

\* The principal of a request, or None for 401.  The development user is DevUser.
DevUser == CHOOSE s \in Strings : TRUE
Principal(q) ==
  IF Credential(q) # None
  THEN IF Decodes(q) THEN UserFromClaims(Credential(q)) ELSE None
  ELSE IF DevAuth THEN DevUser ELSE None

Spoken(q, user) ==
  IF Credential(q) # None THEN spoke \cup {[user |-> user, person |-> Credential(q).person]} ELSE spoke

---------------------------------------------------------------------------
(* Requests *)

PrincipalsInit ==
  /\ env \in Deployments /\ phase = "assembling"
  /\ username \in [People -> Strings]
  /\ request = [r \in Requests |-> Nobody]
  /\ spoke = {}

\* Names are not for life: one may be given up and taken by another.
Rename(p, name) ==
  /\ \A q \in People : IssuerOf[q] = IssuerOf[p] => username[q] # name
  /\ username' = [username EXCEPT ![p] = name]
  /\ UNCHANGED <<env, phase, request, spoke>>

Minted == UNION {[person : {p}, name : {username[p]}, sub : {SubjectOf[p], None}, signed : BOOLEAN] : p \in People}

Arrive(r, cookie, bearer) ==
  /\ phase = "serving" /\ request[r].pc = "idle"
  /\ request' = [request EXCEPT ![r] = [Nobody EXCEPT !.pc = "open", !.cookie = cookie, !.bearer = bearer]]
  /\ UNCHANGED <<env, phase, username, spoke>>

Answer(r) == request' = [request EXCEPT ![r] = Nobody]

\* get_caller_identity: from the context of the request where it has one, which
\* is not remembered a second time, or else from its credential.
GetCallerIdentity(r) ==
  LET q == request[r]  user == IF q.context # None THEN q.context ELSE Principal(q) IN
  /\ q.pc = "open" /\ q.caller = None
  /\ IF user = None
     THEN Answer(r) /\ UNCHANGED spoke
     ELSE /\ request' = IF q.context # None THEN request ELSE [request EXCEPT ![r].caller = user]
          /\ spoke' = Spoken(q, user)
  /\ UNCHANGED <<env, phase, username>>

\* get_auth_context, _remember: always from the credential.  A caller nobody can
\* be, one without an organization and one whose membership cannot be read are
\* refused, and nothing is remembered.
GetAuthContext(r) ==
  LET q == request[r] IN
  /\ q.pc = "open" /\ q.context = None
  /\ \/ Answer(r) /\ UNCHANGED spoke
     \/ /\ Principal(q) # None
        /\ request' = [request EXCEPT ![r].context = Principal(q)]
        /\ spoke' = Spoken(q, Principal(q))
  /\ UNCHANGED <<env, phase, username>>

Respond(r) ==
  /\ request[r].pc = "open"
  /\ Answer(r)
  /\ UNCHANGED <<env, phase, username, spoke>>

PrincipalsNext ==
  \/ Start
  \/ \E p \in People, name \in Strings : Rename(p, name)
  \/ \E r \in Requests, cookie, bearer \in Minted \cup {None} : Arrive(r, cookie, bearer)
  \/ \E r \in Requests : GetCallerIdentity(r) \/ GetAuthContext(r) \/ Respond(r)

PrincipalsSpec == PrincipalsInit /\ [][PrincipalsNext]_principalVars

---------------------------------------------------------------------------
(* Properties *)

PrincipalsTypeOK ==
  /\ env \in Environments /\ phase \in {"assembling", "serving", "refused"}
  /\ username \in [People -> Strings]
  /\ request \in [Requests -> [pc : {"idle", "open"}, cookie : Tokens \cup {None}, bearer : Tokens \cup {None},
                               caller : Strings \cup {None}, context : Strings \cup {None}]]
  /\ spoke \subseteq [user : Strings, person : People]

\* identity.py, enforce_single_issuer_for_pin and user_from_claims: on a
\* deployment pinned to the subject that started, whatever tokens are sent in
\* whatever places and whoever is renamed, a principal stands for one person and
\* a person for one principal, whichever development switches were left on
\* without the master switch; and a request has one identity however it is asked.
OnePersonEach ==
  ~env.unsafe =>
    /\ env.pinned => \A a, b \in spoke : a.user = b.user <=> a.person = b.person
    /\ \A r \in Requests :
         /\ request[r].caller # None /\ request[r].context # None => request[r].caller = request[r].context
         /\ request[r].caller # None \/ request[r].context # None =>
              Credential(request[r]) # None /\ Credential(request[r]).signed
=============================================================================
