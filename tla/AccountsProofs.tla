--------------------------- MODULE AccountsProofs ---------------------------
(***************************************************************************)
(* Proofs about the people of the hub: that principals and people          *)
(* correspond one to one (Principals), that an address is provisioned by   *)
(* one invitation (Provisioning), that the hub keeps an operator           *)
(* (Administration), that changes are committed with their audit rows      *)
(* (AuditGuard), that no handler runs unprotected (RequestGate), that      *)
(* signing keys are current (JwksClient), that replicas agree on the       *)
(* schema (Startup), whose sessions browsers (SignIn) and the command line *)
(* (CliSession) hold, and what is sent to the realm (KeycloakClient).      *)
(***************************************************************************)
EXTENDS MCAccounts, SequenceTheorems, TLAPS

---------------------------------------------------------------------------
(***************************************************************************)
(* Principals.  On a deployment that started, pinned to the subject and    *)
(* without the development master switch, principals and people correspond *)
(* one to one (OnePersonEach), for any number of people, issuers, key      *)
(* documents and concurrent requests.                                      *)
(***************************************************************************)
\* What one request is.
Shape == [pc : {"idle", "open"}, cookie : Tokens \cup {None}, bearer : Tokens \cup {None},
          caller : Strings \cup {None}, context : Strings \cup {None}]

\* A token says of its person what the issuer did, or nothing.
Truthful(t) == t # None => t.sub \in {SubjectOf[t.person], None}
Genuine(q) == Truthful(q.cookie) /\ Truthful(q.bearer)

\* Only a deployment that passed the checks serves.
Started ==
  /\ phase = "serving" => SingleIssuer /\ HttpsKeys
  /\ phase # "serving" => \A r \in Requests : request[r].pc = "idle"

\* An identity once found is the one its credential still gives.
Settled(q) ==
  /\ q.caller # None => q.caller = Principal(q)
  /\ q.context # None => q.context = Principal(q)
  /\ q.pc = "idle" => q.caller = None /\ q.context = None

\* The one issuer whose subjects are principals.
Trusted == IF env.bearerKeys # Unset THEN env.bearerIssuer ELSE IdTokenIssuer

Owned == ~env.unsafe /\ env.pinned =>
           \A s \in spoke : s.user = SubjectOf[s.person] /\ IssuerOf[s.person] = Trusted

PrincipalsInv ==
  /\ PrincipalsTypeOK
  /\ Started
  /\ \A r \in Requests : Genuine(request[r]) /\ Settled(request[r])
  /\ Owned

\* A principal is a string or nothing.
LEMMA PrincipalType ==
  ASSUME NEW q \in Shape
  PROVE  Principal(q) \in Strings \cup {None}
<1>1. DevUser \in Strings
  BY PeopleAssumption DEF DevUser
<1>2. CASE Credential(q) # None
  <2>1. Credential(q) \in Tokens
    BY <1>2 DEF Credential, Shape
  <2>2. UserFromClaims(Credential(q)) \in Strings \cup {None}
    BY <2>1 DEF UserFromClaims, Tokens
  <2> QED BY <1>2, <2>2 DEF Principal
<1>3. CASE Credential(q) = None
  BY <1>1, <1>3 DEF Principal
<1> QED BY <1>2, <1>3

\* What a verified credential shows: its token was signed by the one trusted
\* issuer, and its principal is that person's subject.
LEMMA CredentialIsVerified ==
  ASSUME NEW q \in Shape, env \in Environments, Genuine(q), SingleIssuer, HttpsKeys, ~env.unsafe,
         Principal(q) # None
  PROVE  /\ Credential(q) # None /\ Credential(q) \in Tokens /\ Credential(q).signed
         /\ env.pinned => /\ Principal(q) = SubjectOf[Credential(q).person]
                          /\ IssuerOf[Credential(q).person] = Trusted
<1> DEFINE t == Credential(q)
<1>1. t # None /\ Decodes(q) /\ Principal(q) = UserFromClaims(t)
  BY DEF Principal, DevAuth
<1>2. t \in Tokens /\ Truthful(t)
  BY <1>1 DEF Credential, Shape, Genuine
<1>3. ~AllowUnsigned("bearer") /\ ~AllowUnsigned("idtoken")
  BY DEF AllowUnsigned
<1>4. CASE q.cookie # None
  <2>1. t = q.cookie /\ Verified(t, IdTokenKeys, IdTokenIssuer)
    BY <1>1, <1>3, <1>4 DEF Credential, Decodes, DecodeIdToken
  <2>2. IdTokenKeys # Unset /\ (t.signed \/ IdTokenKeys \notin env.https) /\ (IdTokenIssuer # Unset => IssuerOf[t.person] = IdTokenIssuer)
    BY <2>1 DEF Verified
  <2>3. IdTokenKeys \in env.https
    BY <2>2 DEF HttpsKeys, IdTokenKeys, Or
  <2>4. ASSUME env.pinned PROVE IssuerOf[t.person] = Trusted
    BY <2>2, <2>4 DEF SingleIssuer, Trusted
  <2>5. ASSUME env.pinned PROVE Principal(q) = SubjectOf[t.person]
    BY <1>1, <1>2, <2>5 DEF UserFromClaims, Truthful
  <2> QED BY <1>1, <1>2, <2>2, <2>3, <2>4, <2>5
<1>5. CASE q.cookie = None
  <2>1. t = q.bearer /\ Verified(t, env.bearerKeys, env.bearerIssuer)
    BY <1>1, <1>3, <1>5 DEF Credential, Decodes, DecodeBearer
  <2>2. env.bearerKeys # Unset /\ (t.signed \/ env.bearerKeys \notin env.https) /\ (env.bearerIssuer # Unset => IssuerOf[t.person] = env.bearerIssuer)
    BY <2>1 DEF Verified
  <2>3. env.bearerKeys \in env.https
    BY <2>2 DEF HttpsKeys
  <2>4. ASSUME env.pinned PROVE IssuerOf[t.person] = Trusted
    BY <2>2, <2>4 DEF SingleIssuer, Trusted
  <2>5. ASSUME env.pinned PROVE Principal(q) = SubjectOf[t.person]
    BY <1>1, <1>2, <2>5 DEF UserFromClaims, Truthful
  <2> QED BY <1>1, <1>2, <2>2, <2>3, <2>4, <2>5
<1> QED BY <1>4, <1>5

LEMMA NobodyIsIdle ==
  /\ Nobody \in Shape /\ Genuine(Nobody) /\ Settled(Nobody) /\ Nobody.pc = "idle"
BY DEF Nobody, Shape, Genuine, Truthful, Settled

LEMMA PrincipalsInitially == PrincipalsInit => PrincipalsInv
<1> SUFFICES ASSUME PrincipalsInit PROVE PrincipalsInv
  OBVIOUS
<1>1. PrincipalsTypeOK
  BY NobodyIsIdle, PeopleAssumption DEF PrincipalsInit, PrincipalsTypeOK, Shape
<1>2. Started
  BY NobodyIsIdle DEF PrincipalsInit, Started
<1>3. \A r \in Requests : Genuine(request[r]) /\ Settled(request[r])
  BY NobodyIsIdle DEF PrincipalsInit
<1>4. Owned
  BY DEF PrincipalsInit, Owned
<1> QED BY <1>1, <1>2, <1>3, <1>4 DEF PrincipalsInv

\* The settings never change, so neither does what they imply.
LEMMA SettingsStay ==
  ASSUME env' = env
  PROVE  /\ SingleIssuer' = SingleIssuer /\ HttpsKeys' = HttpsKeys /\ Trusted' = Trusted
         /\ \A q : Principal(q)' = Principal(q) /\ Settled(q)' = Settled(q) /\ Genuine(q)' = Genuine(q)
<1>1. IdTokenKeys' = IdTokenKeys /\ IdTokenIssuer' = IdTokenIssuer
  BY DEF IdTokenKeys, IdTokenIssuer, Or
<1>2. SingleIssuer' = SingleIssuer /\ HttpsKeys' = HttpsKeys /\ Trusted' = Trusted
  BY <1>1 DEF SingleIssuer, HttpsKeys, Trusted
<1>3. \A q : Principal(q)' = Principal(q)
  BY <1>1 DEF Principal, Credential, Decodes, DecodeIdToken, DecodeBearer, AllowUnsigned, Verified, UserFromClaims, DevAuth, DevUser
<1>4. \A q : Settled(q)' = Settled(q)
  BY <1>3 DEF Settled
<1>5. \A q : Genuine(q)' = Genuine(q)
  BY DEF Genuine, Truthful
<1> QED BY <1>2, <1>3, <1>4, <1>5

\* A step that leaves the requests and the principals alone.
LEMMA QuietStep ==
  ASSUME PrincipalsInv, PrincipalsTypeOK', env' = env, request' = request, spoke' = spoke, Started'
  PROVE  PrincipalsInv'
<1>1. \A r \in Requests : Genuine(request[r])' /\ Settled(request[r])'
  BY SettingsStay DEF PrincipalsInv
<1>2. Owned'
  BY SettingsStay DEF PrincipalsInv, Owned
<1> QED BY <1>1, <1>2 DEF PrincipalsInv

\* A step that changes one request, to one that is genuine and settled.
LEMMA RequestStep ==
  ASSUME PrincipalsInv, NEW r \in Requests, NEW q \in Shape, Genuine(q), Settled(q), phase = "serving",
         env' = env, phase' = phase, username' = username, request' = [request EXCEPT ![r] = q],
         spoke' \subseteq [user : Strings, person : People], Owned'
  PROVE  PrincipalsInv'
<1>1. request' \in [Requests -> Shape]
  BY DEF PrincipalsInv, PrincipalsTypeOK, Shape
<1>2. PrincipalsTypeOK'
  BY <1>1 DEF PrincipalsInv, PrincipalsTypeOK, Shape
<1>3. Started'
  BY SettingsStay DEF PrincipalsInv, Started
<1>4. ASSUME NEW s \in Requests PROVE Genuine(request'[s]) /\ Settled(request'[s])
  BY DEF PrincipalsInv, PrincipalsTypeOK
<1>5. \A s \in Requests : Genuine(request[s])' /\ Settled(request[s])'
  BY <1>4, SettingsStay DEF Genuine, Truthful, Settled
<1> QED BY <1>2, <1>3, <1>5 DEF PrincipalsInv

\* What a request speaks as is added to what was spoken, and is its person's own.
LEMMA SpokenIsOwned ==
  ASSUME PrincipalsInv, NEW q \in Shape, Genuine(q), phase = "serving", Principal(q) # None,
         env' = env, spoke' = Spoken(q, Principal(q))
  PROVE  spoke' \subseteq [user : Strings, person : People] /\ Owned'
<1>1. env \in Environments /\ SingleIssuer /\ HttpsKeys /\ spoke \subseteq [user : Strings, person : People]
  BY DEF PrincipalsInv, PrincipalsTypeOK, Started
<1>2. Principal(q) \in Strings
  BY PrincipalType
<1>3. Credential(q) # None => Credential(q).person \in People
  BY DEF Credential, Shape, Tokens
<1>4. spoke' \subseteq [user : Strings, person : People]
  BY <1>1, <1>2, <1>3 DEF Spoken
<1>5. Owned'
  <2> SUFFICES ASSUME ~env.unsafe, env.pinned, NEW s \in spoke'
               PROVE  s.user = SubjectOf[s.person] /\ IssuerOf[s.person] = Trusted
    BY SettingsStay DEF Owned
  <2>1. CASE s \in spoke
    BY <2>1 DEF PrincipalsInv, Owned
  <2>2. CASE s = [user |-> Principal(q), person |-> Credential(q).person]
    BY <1>1, <2>2, CredentialIsVerified
  <2> QED BY <2>1, <2>2 DEF Spoken
<1> QED BY <1>4, <1>5

LEMMA PrincipalsInductive == PrincipalsInv /\ [PrincipalsNext]_principalVars => PrincipalsInv'
<1> SUFFICES ASSUME PrincipalsInv, [PrincipalsNext]_principalVars PROVE PrincipalsInv'
  OBVIOUS
<1>1. PrincipalsTypeOK /\ Started /\ Owned /\ request \in [Requests -> Shape]
  BY DEF PrincipalsInv, PrincipalsTypeOK, Shape
<1>2. ASSUME NEW r \in Requests
      PROVE  request[r] \in Shape /\ Genuine(request[r]) /\ Settled(request[r])
  BY <1>1, <1>2 DEF PrincipalsInv
<1>3. ASSUME NEW r \in Requests, request[r].pc = "open" PROVE phase = "serving"
  BY <1>1, <1>3 DEF Started
<1>4. CASE Start
  <2>1. PrincipalsTypeOK'
    BY <1>1, <1>4 DEF Start, PrincipalsTypeOK
  <2>2. Started'
    BY <1>1, <1>4, SettingsStay DEF Start, Started
  <2> QED BY <1>4, <2>1, <2>2, QuietStep DEF Start
<1>5. CASE \E p \in People, name \in Strings : Rename(p, name)
  <2>1. PrincipalsTypeOK'
    BY <1>1, <1>5 DEF Rename, PrincipalsTypeOK
  <2>2. Started'
    BY <1>1, <1>5, SettingsStay DEF Rename, Started
  <2> QED BY <1>5, <2>1, <2>2, QuietStep DEF Rename
<1>6. ASSUME NEW r \in Requests, NEW cookie \in Minted \cup {None}, NEW bearer \in Minted \cup {None}, Arrive(r, cookie, bearer)
      PROVE  PrincipalsInv'
  <2> DEFINE q == [Nobody EXCEPT !.pc = "open", !.cookie = cookie, !.bearer = bearer]
  <2>1. ASSUME NEW t \in Minted PROVE t \in Tokens /\ Truthful(t)
    BY <1>1, PeopleAssumption DEF Minted, Tokens, Truthful, PrincipalsTypeOK
  <2>2. q \in Shape /\ Genuine(q) /\ Settled(q)
    BY <2>1 DEF Nobody, Shape, Genuine, Truthful, Settled
  <2>3. Owned'
    BY <1>1, <1>6, SettingsStay DEF Arrive, Owned
  <2> QED BY <1>1, <1>6, <2>2, <2>3, RequestStep DEF Arrive, PrincipalsTypeOK
<1>7. ASSUME NEW r \in Requests, request[r].pc = "open", Answer(r), UNCHANGED <<env, phase, username, spoke>>
      PROVE  PrincipalsInv'
  <2>1. Owned'
    BY <1>1, <1>7, SettingsStay DEF Owned
  <2> QED BY <1>1, <1>3, <1>7, <2>1, NobodyIsIdle, RequestStep DEF Answer, PrincipalsTypeOK
<1>8. ASSUME NEW r \in Requests, GetCallerIdentity(r) PROVE PrincipalsInv'
  <2> DEFINE q == request[r]
             user == IF q.context # None THEN q.context ELSE Principal(q)
             after == [q EXCEPT !.caller = user]
  <2>1. q.pc = "open" /\ phase = "serving" /\ UNCHANGED <<env, phase, username>>
    BY <1>3, <1>8 DEF GetCallerIdentity
  <2>2. user = Principal(q)
    BY <1>2 DEF Settled
  <2>3. CASE user = None
    BY <1>7, <1>8, <2>1, <2>3 DEF GetCallerIdentity
  <2>4. CASE user # None
    <3>1. /\ request' = [request EXCEPT ![r] = IF q.context # None THEN q ELSE after]
          /\ spoke' = Spoken(q, Principal(q))
      BY <1>1, <1>8, <2>2, <2>4 DEF GetCallerIdentity, Shape
    <3>2. Principal(q) \in Strings
      BY <1>2, <2>2, <2>4, PrincipalType
    <3>3. after \in Shape /\ Genuine(after) /\ Principal(after) = Principal(q)
      BY <1>2, <2>2, <3>2 DEF Shape, Genuine, Principal, Credential, Decodes
    <3>4. Settled(after)
      BY <1>2, <2>1, <2>2, <3>3 DEF Settled, Shape
    <3>5. spoke' \subseteq [user : Strings, person : People] /\ Owned'
      BY <1>2, <2>1, <2>2, <2>4, <3>1, SpokenIsOwned
    <3> QED BY <1>2, <2>1, <3>1, <3>3, <3>4, <3>5, RequestStep
  <2> QED BY <2>3, <2>4
<1>9. ASSUME NEW r \in Requests, GetAuthContext(r) PROVE PrincipalsInv'
  <2> DEFINE q == request[r]
             after == [q EXCEPT !.context = Principal(q)]
  <2>1. q.pc = "open" /\ phase = "serving" /\ UNCHANGED <<env, phase, username>>
    BY <1>3, <1>9 DEF GetAuthContext
  <2>2. CASE Answer(r) /\ UNCHANGED spoke
    BY <1>7, <2>1, <2>2
  <2>3. CASE ~(Answer(r) /\ UNCHANGED spoke)
    <3>1. request' = [request EXCEPT ![r] = after] /\ spoke' = Spoken(q, Principal(q)) /\ Principal(q) # None
      BY <1>1, <1>9, <2>3 DEF GetAuthContext, Shape
    <3>2. Principal(q) \in Strings
      BY <1>2, <3>1, PrincipalType
    <3>3. after \in Shape /\ Genuine(after) /\ Principal(after) = Principal(q)
      BY <1>2, <3>2 DEF Shape, Genuine, Principal, Credential, Decodes
    <3>4. Settled(after)
      BY <1>2, <2>1, <3>3 DEF Settled, Shape
    <3>5. spoke' \subseteq [user : Strings, person : People] /\ Owned'
      BY <1>2, <2>1, <3>1, SpokenIsOwned
    <3> QED BY <2>1, <3>1, <3>3, <3>4, <3>5, RequestStep
  <2> QED BY <2>2, <2>3
<1>10. ASSUME NEW r \in Requests, Respond(r) PROVE PrincipalsInv'
  BY <1>7, <1>10 DEF Respond
<1>11. CASE UNCHANGED principalVars
  <2>1. PrincipalsTypeOK' /\ Started'
    BY <1>1, <1>11, SettingsStay DEF principalVars, PrincipalsTypeOK, Started
  <2> QED BY <1>11, <2>1, QuietStep DEF principalVars
<1> QED BY <1>4, <1>5, <1>6, <1>8, <1>9, <1>10, <1>11 DEF PrincipalsNext

\* The invariant gives the property: two people of the trusted issuer with one
\* subject are one person.
LEMMA InvGivesOnePersonEach == PrincipalsInv => OnePersonEach
<1> SUFFICES ASSUME PrincipalsInv, ~env.unsafe
             PROVE  /\ env.pinned => \A a, b \in spoke : a.user = b.user <=> a.person = b.person
                    /\ \A r \in Requests :
                         /\ request[r].caller # None /\ request[r].context # None => request[r].caller = request[r].context
                         /\ request[r].caller # None \/ request[r].context # None =>
                              Credential(request[r]) # None /\ Credential(request[r]).signed
  BY DEF OnePersonEach
<1>1. ASSUME env.pinned, NEW a \in spoke, NEW b \in spoke PROVE a.user = b.user <=> a.person = b.person
  <2>1. a.person \in People /\ b.person \in People
    BY DEF PrincipalsInv, PrincipalsTypeOK
  <2>2. /\ a.user = SubjectOf[a.person] /\ IssuerOf[a.person] = Trusted
        /\ b.user = SubjectOf[b.person] /\ IssuerOf[b.person] = Trusted
    BY <1>1 DEF PrincipalsInv, Owned
  <2> QED BY <2>1, <2>2, PeopleAssumption
<1>2. ASSUME NEW r \in Requests
      PROVE  /\ request[r].caller # None /\ request[r].context # None => request[r].caller = request[r].context
             /\ request[r].caller # None \/ request[r].context # None =>
                  Credential(request[r]) # None /\ Credential(request[r]).signed
  <2>1. request[r] \in Shape /\ Genuine(request[r]) /\ Settled(request[r])
    BY DEF PrincipalsInv, PrincipalsTypeOK, Shape
  <2>2. ASSUME request[r].caller # None \/ request[r].context # None
        PROVE  Credential(request[r]) # None /\ Credential(request[r]).signed
    <3>1. Principal(request[r]) # None /\ request[r].pc = "open"
      BY <2>1, <2>2 DEF Settled, Shape
    <3>2. env \in Environments /\ SingleIssuer /\ HttpsKeys
      BY <3>1 DEF PrincipalsInv, PrincipalsTypeOK, Started
    <3> QED BY <2>1, <3>1, <3>2, CredentialIsVerified
  <2> QED BY <2>1, <2>2 DEF Settled
<1> QED BY <1>1, <1>2

\* On every deployment that starts pinned to the subject and without the
\* development master switch, however many people, issuers and requests there
\* are, a principal is one person's and a person has one principal
\* (frames/identity.py, frames/auth.py).
THEOREM PrincipalsArePeople == PrincipalsSpec => []OnePersonEach
<1>1. PrincipalsInit => PrincipalsInv
  BY PrincipalsInitially
<1>2. PrincipalsInv /\ [PrincipalsNext]_principalVars => PrincipalsInv'
  BY PrincipalsInductive
<1>3. PrincipalsInv => OnePersonEach
  BY InvGivesOnePersonEach
<1> QED BY <1>1, <1>2, <1>3, PTL DEF PrincipalsSpec

---------------------------------------------------------------------------
(***************************************************************************)
(* Provisioning, for any callers, addresses and invitations.               *)
(***************************************************************************)
\* The inductive invariant: the types, the promises, and the ids of the rows
\* nobody has read yet.
RowsHaveIds == \A k \in Keys : rows[k].there => IdPresent(rows[k].phase, rows[k].id)
ProvisioningInv == ProvisioningTypeOK /\ RowsHaveIds /\ AddressesAreSafe

Answers == [to : Callers, key : Keys, mine : BOOLEAN, row : RowSet]

USE DEF Claimed, AccountCreated, SetupSent, Complete, Phases

(* What a call holds in each of its states. *)
LEMMA CallFields ==
  ASSUME ProvisioningTypeOK, NEW c \in Callers
  PROVE  /\ call[c].at \in {"idle", "inserted", "conflict", "refused"}
         /\ call[c].at = "inserted" => call[c].key \in Keys /\ call[c].inv \in Invitations
         /\ call[c].at \in {"conflict", "refused"} => call[c].key \in Keys
BY DEF ProvisioningTypeOK, Calls

(* What a committed row holds. *)
LEMMA RowFields ==
  ASSUME ProvisioningTypeOK, NEW k \in Keys, rows[k].there
  PROVE  rows[k] \in RowSet
BY DEF ProvisioningTypeOK, NoRow

LEMMA RowTypes ==
  ASSUME NEW r \in RowSet
  PROVE  r.phase \in Int /\ r.there
<1>1. r.phase \in 0..3
  BY DEF RowSet
<1>2. r.there
  BY Zenon DEF RowSet
<1> QED BY <1>1, <1>2

(* The initial states satisfy the invariant. *)
LEMMA InitInv == ProvisioningInit => ProvisioningInv
<1> SUFFICES ASSUME ProvisioningInit PROVE ProvisioningInv
  OBVIOUS
<1> USE DEF ProvisioningInit, Idle, NoRow
<1>1. ProvisioningTypeOK
  BY DEF ProvisioningTypeOK, Calls
<1>2. AddressesAreSafe
  BY DEF AddressesAreSafe, ToldStaysTrue, OneWinner, NeverVanishes
<1>3. RowsHaveIds
  BY DEF RowsHaveIds
<1> QED BY <1>1, <1>2, <1>3 DEF ProvisioningInv

(* A record a reader is handed is true when it is handed over: the answers of
   get, unfinished, a lost claim and a refused advance keep the invariant. *)
LEMMA ReadingKeeps ==
  ASSUME ProvisioningInv, NEW c \in Callers, NEW S \in SUBSET Keys,
         \A k \in S : rows[k].there,
         told' = told \cup {Told(c, k, FALSE, rows[k]) : k \in S},
         UNCHANGED rows,
         call' = call \/ call' = [call EXCEPT ![c] = Idle]
  PROVE  ProvisioningInv'
<1> USE DEF ProvisioningInv
<1>1. ASSUME NEW k \in S PROVE Told(c, k, FALSE, rows[k]) \in Answers
  BY <1>1, RowFields DEF Told, Answers
<1>0. told \subseteq Answers
  BY DEF ProvisioningTypeOK, Answers
<1>2. told' \subseteq Answers
  BY <1>0, <1>1, Zenon
<1>3. call' \in [Callers -> Calls]
  BY DEF ProvisioningTypeOK, Calls, Idle
<1>4. ProvisioningTypeOK'
  BY <1>2, <1>3 DEF ProvisioningTypeOK, Answers
<1>5. ASSUME NEW t \in told' PROVE t \in told \/ (t.mine = FALSE /\ t.key \in S /\ t.row = rows[t.key])
  BY <1>5 DEF Told
<1>6. RowsHaveIds'
  BY DEF RowsHaveIds
<1>7. ToldStaysTrue'
  <2> SUFFICES ASSUME NEW t \in told'
               PROVE  /\ rows[t.key].there /\ rows[t.key].phase >= t.row.phase
                      /\ rows[t.key].first = t.row.first
                      /\ t.row.id # NoAccount => rows[t.key].id = t.row.id
                      /\ t.row.phase # Claimed => t.row.id # NoAccount
    BY DEF ToldStaysTrue
  <2>1. CASE t \in told
    BY <2>1 DEF AddressesAreSafe, ToldStaysTrue
  <2>2. CASE t.key \in S /\ t.row = rows[t.key]
    <3>1. rows[t.key] \in RowSet
      BY <2>2, RowFields
    <3>2. rows[t.key].phase \in Int /\ t.key \in Keys /\ rows[t.key].there
      BY <2>2, <3>1, RowTypes
    <3>3. rows[t.key].phase # Claimed => rows[t.key].id # NoAccount
      BY <3>2 DEF RowsHaveIds, IdPresent
    <3> QED BY <2>2, <3>2, <3>3
  <2> QED BY <1>5, <2>1, <2>2
<1>8. OneWinner'
  <2>1. \A s, t \in told' : s.mine /\ t.mine /\ s.key = t.key => s = t
    BY <1>5 DEF AddressesAreSafe, OneWinner
  <2>2. \A d \in Callers : call'[d].at = "inserted" => call'[d] = call[d]
    BY DEF ProvisioningTypeOK, Idle
  <2>3. \A d \in Callers : call'[d].at = "inserted" =>
          /\ ~rows'[call'[d].key].there
          /\ \A e \in Callers : call'[e].at = "inserted" /\ call'[e].key = call'[d].key => e = d
    <3> SUFFICES ASSUME NEW d \in Callers, call'[d].at = "inserted",
                        NEW e \in Callers
                 PROVE  /\ ~rows'[call'[d].key].there
                        /\ call'[e].at = "inserted" /\ call'[e].key = call'[d].key => e = d
      OBVIOUS
    <3> QED BY <2>2 DEF AddressesAreSafe, OneWinner
  <2> QED BY <2>1, <2>3 DEF OneWinner
<1>9. NeverVanishes'
  BY DEF AddressesAreSafe, NeverVanishes, ProvisioningTypeOK, Idle
<1> QED BY <1>4, <1>6, <1>7, <1>8, <1>9 DEF AddressesAreSafe

(* Every step of a caller keeps the invariant. *)
LEMMA StepInv ==
  ASSUME ProvisioningInv, NEW c \in Callers, CallerStep(c)
  PROVE  ProvisioningInv'
<1> USE DEF ProvisioningInv
<1>1. ASSUME NEW email \in Emails, NEW inv \in Invitations, ClaimInsert(c, email, inv)
      PROVE  ProvisioningInv'
  <2> DEFINE key == FoldedKey[email]
  <2>0. key \in Keys
    BY ProvisioningAssumption
  <2>1. /\ UNCHANGED <<rows, told>> /\ ~Locked(key) /\ call \in [Callers -> Calls]
        /\ call' = [call EXCEPT ![c] = IF rows[key].there THEN Conflicting(key) ELSE Inserted(key, inv)]
    BY <1>1 DEF ClaimInsert, ProvisioningTypeOK
  <2> HIDE DEF key
  <2>2. call' \in [Callers -> Calls]
    BY <2>0, <2>1 DEF Calls, Conflicting, Inserted
  <2>3. ProvisioningTypeOK'
    BY <2>1, <2>2 DEF ProvisioningTypeOK
  <2>4. OneWinner'
    BY <2>1 DEF AddressesAreSafe, OneWinner, Conflicting, Inserted, Locked
  <2>5. NeverVanishes'
    BY <2>1 DEF AddressesAreSafe, NeverVanishes, Conflicting, Inserted
  <2>6. RowsHaveIds' /\ ToldStaysTrue'
    BY <2>1 DEF AddressesAreSafe, ToldStaysTrue, RowsHaveIds
  <2> QED BY <2>3, <2>4, <2>5, <2>6 DEF AddressesAreSafe
<1>2. ASSUME ClaimCommit(c) PROVE ProvisioningInv'
  <2> DEFINE key == call[c].key
             row == Row(Claimed, NoAccount, call[c].inv)
             t0  == Told(c, key, TRUE, row)
  <2>1. /\ key \in Keys /\ row \in RowSet /\ t0 \in Answers
        /\ t0.key = key /\ t0.mine = TRUE /\ t0.row = row
        /\ row.there = TRUE /\ row.phase = Claimed /\ row.id = NoAccount /\ row.first = call[c].inv
    BY <1>2, CallFields DEF ClaimCommit, Row, RowSet, Told, Answers
  <2>2. /\ rows' = [rows EXCEPT ![key] = row] /\ told' = told \cup {t0}
        /\ call' = [call EXCEPT ![c] = Idle] /\ call[c].at = "inserted"
    BY <1>2 DEF ClaimCommit
  <2>3. ~rows[key].there
    BY <2>2 DEF AddressesAreSafe, OneWinner
  <2> HIDE DEF key, row, t0
  <2>4. ProvisioningTypeOK'
    BY <2>1, <2>2 DEF ProvisioningTypeOK, Calls, Idle, Answers
  <2>5. \A t \in told : t.key # key /\ t.key \in Keys
    BY <2>3 DEF AddressesAreSafe, ToldStaysTrue, ProvisioningTypeOK
  <2>6. RowsHaveIds'
    BY <2>1, <2>2 DEF RowsHaveIds, IdPresent, ProvisioningTypeOK
  <2>7. \A t \in told : rows'[t.key] = rows[t.key]
    BY <2>2, <2>5 DEF ProvisioningTypeOK
  <2>8. rows'[key] = row
    BY <2>1, <2>2 DEF ProvisioningTypeOK
  <2>9. ToldStaysTrue'
    BY <2>1, <2>2, <2>7, <2>8 DEF AddressesAreSafe, ToldStaysTrue
  <2>10. OneWinner'
    <3>1. \A s, t \in told' : s.mine /\ t.mine /\ s.key = t.key => s = t
      BY <2>1, <2>2, <2>5 DEF AddressesAreSafe, OneWinner
    <3>2. \A d \in Callers : call'[d].at = "inserted" => d # c /\ call'[d] = call[d] /\ call[d].key # key
      BY <2>2 DEF AddressesAreSafe, OneWinner, ProvisioningTypeOK, Idle, key
    <3>3. \A d \in Callers : call'[d].at = "inserted" => ~rows'[call[d].key].there
      BY <3>2, <2>2, CallFields DEF AddressesAreSafe, OneWinner, ProvisioningTypeOK
    <3> QED BY <3>1, <3>2, <3>3 DEF AddressesAreSafe, OneWinner
  <2>11. NeverVanishes'
    <3>1. \A d \in Callers : call'[d].at = "conflict" => call'[d] = call[d]
      BY <2>2 DEF ProvisioningTypeOK, Idle
    <3> QED BY <3>1, <2>1, <2>2, CallFields DEF AddressesAreSafe, NeverVanishes, ProvisioningTypeOK
  <2> QED BY <2>4, <2>6, <2>9, <2>10, <2>11 DEF AddressesAreSafe
<1>3. ASSUME ClaimRollback(c) PROVE ProvisioningInv'
  <2>1. UNCHANGED <<rows, told>> /\ call' = [call EXCEPT ![c] = Idle] /\ call \in [Callers -> Calls]
    BY <1>3 DEF ClaimRollback, ProvisioningTypeOK
  <2>2. ProvisioningTypeOK'
    BY <2>1 DEF ProvisioningTypeOK, Calls, Idle
  <2>3. \A d \in Callers : call'[d] = call[d] \/ call'[d].at = "idle"
    BY <2>1 DEF Idle
  <2>4. OneWinner' /\ NeverVanishes'
    BY <2>1, <2>3 DEF AddressesAreSafe, OneWinner, NeverVanishes
  <2>5. RowsHaveIds' /\ ToldStaysTrue'
    BY <2>1 DEF AddressesAreSafe, ToldStaysTrue, RowsHaveIds
  <2> QED BY <2>2, <2>4, <2>5 DEF AddressesAreSafe
<1>4. ASSUME ClaimRead(c) PROVE ProvisioningInv'
  <2> DEFINE S == {call[c].key}
  <2>1. S \in SUBSET Keys /\ \A k \in S : rows[k].there
    BY <1>4, CallFields DEF ClaimRead, AddressesAreSafe, NeverVanishes
  <2>2. /\ told' = told \cup {Told(c, k, FALSE, rows[k]) : k \in S} /\ UNCHANGED rows
        /\ call' = [call EXCEPT ![c] = Idle]
    BY <1>4 DEF ClaimRead
  <2> QED BY <2>1, <2>2, ReadingKeeps
<1>5. ASSUME Explain(c) PROVE ProvisioningInv'
  <2> DEFINE S == {k \in {call[c].key} : rows[k].there}
  <2>1. S \in SUBSET Keys /\ \A k \in S : rows[k].there
    BY <1>5, CallFields DEF Explain
  <2>2. /\ told' = told \cup {Told(c, k, FALSE, rows[k]) : k \in S} /\ UNCHANGED rows
        /\ call' = [call EXCEPT ![c] = Idle]
    BY <1>5 DEF Explain
  <2> QED BY <2>1, <2>2, ReadingKeeps
<1>6. ASSUME unfinished(c) PROVE ProvisioningInv'
  <2> DEFINE S == {x \in Keys : rows[x].there /\ rows[x].phase # Complete}
  <2>1. told' = told \cup {Told(c, k, FALSE, rows[k]) : k \in S} /\ UNCHANGED <<rows, call>>
    BY <1>6 DEF unfinished
  <2>2. S \in SUBSET Keys /\ \A k \in S : rows[k].there
    OBVIOUS
  <2> HIDE DEF S
  <2> QED BY <2>1, <2>2, ReadingKeeps
<1>7. ASSUME NEW email \in Emails, get(c, email) PROVE ProvisioningInv'
  <2> DEFINE S == {FoldedKey[email]}
  <2>1. S \in SUBSET Keys /\ \A k \in S : rows[k].there
    BY <1>7, ProvisioningAssumption DEF get
  <2>2. told' = told \cup {Told(c, k, FALSE, rows[k]) : k \in S} /\ UNCHANGED <<rows, call>>
    BY <1>7 DEF get
  <2> QED BY <2>1, <2>2, ReadingKeeps
<1>8. ASSUME NEW email \in Emails, NEW ph \in Phases, NEW id \in Accounts \cup {NoAccount},
             advance(c, email, ph, id)
      PROVE  ProvisioningInv'
  <2> DEFINE key == FoldedKey[email]
             row == rows[key]
             new == Row(ph, Coalesce(row.id, id), row.first)
             t0  == Told(c, key, FALSE, new)
  <2>0. key \in Keys
    BY ProvisioningAssumption
  <2>1. CASE row.there /\ Forwards(row, ph) /\ SameAccount(row, id)
    <3>1. row \in RowSet
      BY <2>0, <2>1, RowFields
    <3>2. /\ IdPresent(ph, new.id) /\ rows' = [rows EXCEPT ![key] = new]
          /\ told' = told \cup {t0} /\ call' = call
      BY <1>8, <2>1 DEF advance
    <3>3. /\ new \in RowSet /\ new.there = TRUE /\ new.phase = ph /\ new.first = row.first
          /\ new.phase >= row.phase /\ (row.id # NoAccount => new.id = row.id)
          /\ t0 \in Answers /\ t0.key = key /\ t0.mine = FALSE /\ t0.row = new
      BY <2>0, <2>1, <3>1 DEF Row, RowSet, Told, Answers, Coalesce, Forwards
    <3> HIDE DEF key, new, t0
    <3>4. ProvisioningTypeOK'
      BY <2>0, <3>2, <3>3 DEF ProvisioningTypeOK, Answers
    <3>5. RowsHaveIds'
      BY <2>0, <3>2, <3>3 DEF RowsHaveIds, ProvisioningTypeOK
    <3>6. \A k \in Keys : rows[k].there = rows'[k].there \/ k = key
      BY <3>2 DEF ProvisioningTypeOK
    <3>7. rows'[key] = new /\ \A k \in Keys \ {key} : rows'[k] = rows[k]
      BY <2>0, <3>2 DEF ProvisioningTypeOK
    <3>8. ToldStaysTrue'
      <4> SUFFICES ASSUME NEW t \in told'
                   PROVE  /\ rows'[t.key].there /\ rows'[t.key].phase >= t.row.phase
                          /\ rows'[t.key].first = t.row.first
                          /\ t.row.id # NoAccount => rows'[t.key].id = t.row.id
                          /\ t.row.phase # Claimed => t.row.id # NoAccount
        BY DEF ToldStaysTrue
      <4>1. CASE t = t0
        BY <4>1, <3>2, <3>3, <3>7 DEF RowSet, IdPresent
      <4>2. CASE t \in told /\ t.key # key
        BY <4>2, <3>7 DEF AddressesAreSafe, ToldStaysTrue, ProvisioningTypeOK
      <4>3. CASE t \in told /\ t.key = key
        <5>1. t.row \in RowSet
          BY <4>3 DEF ProvisioningTypeOK
        <5>2. /\ row.phase >= t.row.phase /\ row.first = t.row.first
              /\ t.row.id # NoAccount => row.id = t.row.id
              /\ t.row.phase # Claimed => t.row.id # NoAccount
          BY <4>3 DEF AddressesAreSafe, ToldStaysTrue, key
        <5>3. t.row.phase \in Int /\ row.phase \in Int /\ new.phase \in Int
          BY <5>1, <3>1, <3>3, RowTypes
        <5>4. rows'[t.key] = new /\ new.phase >= t.row.phase
          BY <4>3, <5>2, <5>3, <3>3, <3>7
        <5> QED BY <5>2, <5>4, <3>3
      <4> QED BY <3>2, <4>1, <4>2, <4>3
    <3>9. OneWinner'
      <4>1. \A s, t \in told' : s.mine /\ t.mine /\ s.key = t.key => s = t
        BY <3>2, <3>3 DEF AddressesAreSafe, OneWinner
      <4>2. \A d \in Callers : call[d].at = "inserted" => call[d].key # key
        BY <2>1 DEF AddressesAreSafe, OneWinner, key
      <4> QED BY <3>2, <3>7, <4>1, <4>2, CallFields DEF AddressesAreSafe, OneWinner
    <3>10. NeverVanishes'
      BY <3>2, <3>3, <3>7, CallFields DEF AddressesAreSafe, NeverVanishes
    <3> QED BY <3>4, <3>5, <3>8, <3>9, <3>10 DEF AddressesAreSafe
  <2>2. CASE ~(row.there /\ Forwards(row, ph) /\ SameAccount(row, id))
    <3>1. UNCHANGED <<rows, told>> /\ call' = [call EXCEPT ![c] = Refused(key)] /\ call \in [Callers -> Calls]
      BY <1>8, <2>2 DEF advance, ProvisioningTypeOK
    <3> HIDE DEF key
    <3>2. ProvisioningTypeOK'
      BY <2>0, <3>1 DEF ProvisioningTypeOK, Calls, Refused
    <3>3. \A d \in Callers : call'[d] = call[d] \/ call'[d].at = "refused"
      BY <3>1 DEF Refused
    <3>4. OneWinner' /\ NeverVanishes'
      BY <3>1, <3>3 DEF AddressesAreSafe, OneWinner, NeverVanishes
    <3>5. RowsHaveIds' /\ ToldStaysTrue'
      BY <3>1 DEF AddressesAreSafe, ToldStaysTrue, RowsHaveIds
    <3> QED BY <3>2, <3>4, <3>5 DEF AddressesAreSafe
  <2> QED BY <2>1, <2>2
<1> QED BY <1>1, <1>2, <1>3, <1>4, <1>5, <1>6, <1>7, <1>8 DEF CallerStep

(* For every number of callers, whatever they interleave: what a caller was
   told about an address stays true, one caller at most is told to create its
   account, and a claim it lost to is there to be read (frames/provisioning.py). *)
THEOREM AddressesSafe == ProvisioningSpec => []AddressesAreSafe
<1>1. ProvisioningInv /\ [ProvisioningNext]_provisioningVars => ProvisioningInv'
  <2> SUFFICES ASSUME ProvisioningInv, [ProvisioningNext]_provisioningVars PROVE ProvisioningInv'
    OBVIOUS
  <2>1. CASE ProvisioningNext
    BY <2>1, StepInv DEF ProvisioningNext
  <2>2. CASE UNCHANGED provisioningVars
    BY <2>2 DEF provisioningVars, ProvisioningInv, ProvisioningTypeOK, RowsHaveIds,
                AddressesAreSafe, ToldStaysTrue, OneWinner, NeverVanishes
  <2> QED BY <2>1, <2>2
<1>2. ProvisioningInv => AddressesAreSafe
  BY DEF ProvisioningInv
<1> QED BY InitInv, <1>1, <1>2, PTL DEF ProvisioningSpec

---------------------------------------------------------------------------
(***************************************************************************)
(* Administration, for any number of people, requests and connectors.      *)
(***************************************************************************)
RoleRows == [status : {"none", "active", "revoked"}, source : {"none", "idp", "manual"}]
Panels ==
  [op : {"idle", "grant", "revoke", "add", "remove"}, pc : {"idle", "begun", "locked", "called"},
   on : Staff \cup Subjects \cup {NoTarget}, seen : SUBSET Staff]

AdminTypes ==
  /\ roles \in [Staff -> RoleRows]
  /\ roleLog \in [Staff -> {"none", "grant", "revoke"}]
  /\ signIn \in [Staff -> {"idle", "grant", "revoke"}]
  /\ panel \in [PanelSlots -> Panels]

\* A request to change a role is about somebody who has one or may have one; only
\* one that revokes holds rows, and those are operators still.
PanelHolds(s) ==
  /\ panel[s].op \in {"grant", "revoke"} => panel[s].on \in Staff
  /\ panel[s].pc = "locked" => panel[s].op = "revoke" /\ panel[s].seen # {} /\ panel[s].seen \subseteq ActiveOperators
  /\ panel[s].pc # "locked" => panel[s].seen = {}
  /\ panel[s] # IdlePanel => ActiveOperators # {}

\* Whoever waits for locked rows waits for one request.
OneHolder == \A s, t \in PanelSlots : panel[s].pc = "locked" /\ panel[t].pc = "locked" => s = t

AdminInv == AdminTypes /\ (\A s \in PanelSlots : PanelHolds(s)) /\ OneHolder /\ RolesAreSound

(* Nobody holds a row when no row is held. *)
LEMMA NoneLocked ==
  ASSUME AdminInv, HeldRows = {}
  PROVE  \A s \in PanelSlots : panel[s].pc # "locked"
<1> SUFFICES ASSUME NEW s \in PanelSlots, panel[s].pc = "locked" PROVE FALSE
  OBVIOUS
<1>1. PICK u : u \in panel[s].seen
  BY DEF AdminInv, PanelHolds
<1>2. u \in HeldRows
  BY <1>1 DEF HeldRows
<1> QED BY <1>2

(* A request that holds no rows. *)
Holdless(p) ==
  /\ p \in Panels /\ p.pc # "locked" /\ p.seen = {}
  /\ p.op \in {"grant", "revoke"} => p.on \in Staff
  /\ p # IdlePanel => ActiveOperators # {}

(* A step that writes no role: the requests stay, or hold no rows afterwards. *)
LEMMA OtherStep ==
  ASSUME AdminInv, UNCHANGED roleVars, signIn' \in [Staff -> {"idle", "grant", "revoke"}],
         panel' = panel \/ \E s \in PanelSlots, p \in Panels : panel' = [panel EXCEPT ![s] = p] /\ Holdless(p)
  PROVE  AdminInv'
<1>1. ActiveOperators' = ActiveOperators
  BY DEF ActiveOperators, Operator, roleVars
<1>2. panel' \in [PanelSlots -> Panels] /\ \A t \in PanelSlots : panel'[t] = panel[t] \/ Holdless(panel'[t])
  BY DEF AdminInv, AdminTypes, Holdless
<1>3. AdminTypes'
  BY <1>2 DEF AdminInv, AdminTypes, roleVars
<1>4. ASSUME NEW t \in PanelSlots PROVE PanelHolds(t)'
  <2>1. CASE panel'[t] = panel[t]
    BY <2>1, <1>1 DEF AdminInv, PanelHolds, IdlePanel
  <2>2. CASE Holdless(panel'[t])
    BY <2>2, <1>1 DEF PanelHolds, Holdless, IdlePanel
  <2> QED BY <1>2, <2>1, <2>2
<1>5. OneHolder'
  BY <1>2 DEF AdminInv, OneHolder, Holdless
<1>6. RolesAreSound'
  BY <1>1 DEF AdminInv, RolesAreSound, OperatorRemains, RoleLogAgrees, Operator, roleVars
<1> QED BY <1>3, <1>4, <1>5, <1>6 DEF AdminInv

LEMMA IdleIsHoldless == IdlePanel \in Panels /\ Holdless(IdlePanel)
BY DEF IdlePanel, Panels, Holdless

(* A row is written with its record: what is held stays held, and somebody is an
   operator afterwards. *)
LEMMA RoleWritten ==
  ASSUME AdminInv, NEW u \in Staff, NEW row \in RoleRows,
         roles' = [roles EXCEPT ![u] = row],
         roleLog' = [roleLog EXCEPT ![u] = IF row.status = "active" THEN "grant" ELSE "revoke"],
         signIn' \in [Staff -> {"idle", "grant", "revoke"}],
         panel' = panel \/ \E s \in PanelSlots : panel' = [panel EXCEPT ![s] = IdlePanel],
         \/ row.status = "active"
         \/ /\ \E w \in Staff \ {u} : Operator(w)
            /\ \A s \in PanelSlots : panel'[s].pc # "locked"
  PROVE  AdminInv'
<1> DEFINE Mark == IF row.status = "active" THEN "grant" ELSE "revoke"
<1>1. /\ roles' \in [Staff -> RoleRows] /\ roleLog' \in [Staff -> {"none", "grant", "revoke"}]
      /\ \A w \in Staff : roles'[w] = IF w = u THEN row ELSE roles[w]
      /\ \A w \in Staff : roleLog'[w] = IF w = u THEN Mark ELSE roleLog[w]
  BY DEF AdminInv, AdminTypes
<1>2. IdlePanel \in Panels
  BY DEF IdlePanel, Panels
<1>3. panel' \in [PanelSlots -> Panels] /\ \A t \in PanelSlots : panel'[t] \in {panel[t], IdlePanel}
  BY <1>2 DEF AdminInv, AdminTypes
<1>4. AdminTypes'
  BY <1>1, <1>3 DEF AdminInv, AdminTypes
<1>5. \A w \in Staff : Operator(w)' <=> IF w = u THEN row.status = "active" ELSE Operator(w)
  BY <1>1 DEF Operator
<1>6. (ActiveOperators # {})'
  BY <1>5 DEF ActiveOperators
<1>7. row.status = "active" => ActiveOperators \subseteq ActiveOperators'
  BY <1>5 DEF ActiveOperators
<1>8. ASSUME NEW t \in PanelSlots PROVE PanelHolds(t)'
  <2>1. CASE panel'[t] = panel[t]
    <3>1. PanelHolds(t)
      BY DEF AdminInv
    <3>2. panel'[t].pc = "locked" => row.status = "active"
      OBVIOUS
    <3> QED BY <2>1, <3>1, <3>2, <1>6, <1>7 DEF PanelHolds
  <2>2. CASE panel'[t] = IdlePanel
    BY <2>2, <1>6 DEF PanelHolds, IdlePanel
  <2> QED BY <1>3, <2>1, <2>2
<1>9. OneHolder'
  BY <1>3 DEF AdminInv, OneHolder, IdlePanel
<1>10. RoleLogAgrees'
  BY <1>1, <1>5 DEF AdminInv, RolesAreSound, RoleLogAgrees
<1>11. RolesAreSound'
  BY <1>6, <1>10 DEF RolesAreSound, OperatorRemains
<1> QED BY <1>4, <1>8, <1>9, <1>11 DEF AdminInv

(* A request that is let in: its actor is an operator. *)
LEMMA BegunIsHoldless ==
  ASSUME AdminInv, NEW s \in PanelSlots, NEW u \in Staff, NEW op \in {"grant", "revoke", "add", "remove"},
         NEW v \in Staff \cup Subjects, op \in {"grant", "revoke"} => v \in Staff, PanelBegin(s, op, u, v)
  PROVE  AdminInv'
<1> DEFINE p == [IdlePanel EXCEPT !.op = op, !.pc = "begun", !.on = v]
<1>1. IdlePanel \in Panels /\ IdlePanel.seen = {}
  BY DEF IdlePanel, Panels
<1>2. u \in ActiveOperators
  BY DEF PanelBegin, ActiveOperators
<1>3. p \in Panels /\ p.op = op /\ p.pc = "begun" /\ p.on = v /\ p.seen = {}
  BY <1>1 DEF Panels
<1>4. ActiveOperators # {}
  BY <1>2
<1>5. panel' = [panel EXCEPT ![s] = p]
  BY DEF PanelBegin
<1> HIDE DEF p
<1>6. Holdless(p)
  BY <1>3, <1>4 DEF Holdless
<1> QED BY <1>3, <1>5, <1>6, OtherStep DEF PanelBegin, AdminInv, AdminTypes

(* The rows of the active operators are locked by one request. *)
LEMMA LockStep ==
  ASSUME AdminInv, NEW s \in PanelSlots, LockActiveOperators(s)
  PROVE  AdminInv'
<1> DEFINE p == [panel[s] EXCEPT !.pc = "locked", !.seen = ActiveOperators]
<1>1. panel' = [panel EXCEPT ![s] = p]
  BY DEF LockActiveOperators, AdminInv, AdminTypes
<1>2. ActiveOperators' = ActiveOperators /\ ActiveOperators \subseteq Staff
  BY DEF LockActiveOperators, ActiveOperators, Operator, roleVars
<1>3. panel[s] \in Panels /\ panel[s].op = "revoke" /\ panel[s] # IdlePanel
  BY DEF LockActiveOperators, AdminInv, AdminTypes, IdlePanel
<1>4. /\ p \in Panels /\ p.op = "revoke" /\ p.pc = "locked" /\ p.seen = ActiveOperators
      /\ p.on = panel[s].on
  BY <1>2, <1>3 DEF Panels
<1> HIDE DEF p
<1>5. panel' \in [PanelSlots -> Panels] /\ panel'[s] = p /\ \A t \in PanelSlots \ {s} : panel'[t] = panel[t]
  BY <1>1, <1>4 DEF AdminInv, AdminTypes
<1>6. \A t \in PanelSlots \ {s} : panel'[t].pc # "locked"
  BY <1>5, NoneLocked DEF LockActiveOperators
<1>7. AdminTypes'
  BY <1>5 DEF LockActiveOperators, AdminInv, AdminTypes, roleVars
<1>8. ASSUME NEW t \in PanelSlots PROVE PanelHolds(t)'
  <2>1. PanelHolds(t) /\ PanelHolds(s)
    BY DEF AdminInv
  <2>2. CASE t = s
    BY <2>1, <2>2, <1>2, <1>3, <1>4, <1>5 DEF PanelHolds
  <2>3. CASE t # s
    BY <2>1, <2>3, <1>2, <1>5 DEF PanelHolds, IdlePanel
  <2> QED BY <2>2, <2>3
<1>9. OneHolder'
  BY <1>6 DEF OneHolder
<1>10. RolesAreSound'
  BY <1>2 DEF LockActiveOperators, AdminInv, RolesAreSound, OperatorRemains, RoleLogAgrees, Operator, roleVars
<1> QED BY <1>7, <1>8, <1>9, <1>10 DEF AdminInv

(* A sign-in writes what it decided, when the row still allows it. *)
LEMMA SyncStep ==
  ASSUME AdminInv, NEW u \in Staff, SyncGrant(u) \/ SyncRevoke(u)
  PROVE  AdminInv'
<1>1. signIn' \in [Staff -> {"idle", "grant", "revoke"}] /\ panel' = panel
  BY DEF SyncGrant, SyncRevoke, SyncWrite, AdminInv, AdminTypes
<1>2. CASE UNCHANGED roleVars
  BY <1>1, <1>2, OtherStep
<1>3. CASE SyncGrant(u) /\ ~UNCHANGED roleVars
  <2> DEFINE row == [status |-> "active", source |-> "idp"]
  <2>1. row \in RoleRows /\ row.status = "active"
    BY DEF RoleRows
  <2>2. roles' = [roles EXCEPT ![u] = row] /\ roleLog' = [roleLog EXCEPT ![u] = "grant"]
    BY <1>3 DEF SyncGrant, SyncWrite, roleVars
  <2> HIDE DEF row
  <2> QED BY <1>1, <2>1, <2>2, RoleWritten
<1>4. CASE SyncRevoke(u) /\ ~UNCHANGED roleVars
  <2> DEFINE row == [status |-> "revoked", source |-> "idp"]
  <2>1. row \in RoleRows /\ row.status = "revoked"
    BY DEF RoleRows
  <2>2. /\ roles' = [roles EXCEPT ![u] = row] /\ roleLog' = [roleLog EXCEPT ![u] = "revoke"]
        /\ ActiveOperators # {u} /\ roles[u] = [status |-> "active", source |-> "idp"]
    BY <1>4 DEF SyncRevoke, SyncWrite, roleVars
  <2>3. u \in ActiveOperators
    BY <2>2 DEF ActiveOperators, Operator
  <2>4. \E w \in Staff \ {u} : Operator(w)
    BY <2>2, <2>3 DEF ActiveOperators
  <2>5. \A s \in PanelSlots : panel'[s].pc # "locked"
    BY <1>1, <1>4, NoneLocked DEF SyncRevoke
  <2> HIDE DEF row
  <2> QED BY <1>1, <2>1, <2>2, <2>4, <2>5, RoleWritten
<1> QED BY <1>2, <1>3, <1>4

(* A role given from the panel. *)
LEMMA GrantStep ==
  ASSUME AdminInv, NEW s \in PanelSlots, PanelGrant(s)
  PROVE  AdminInv'
<1> DEFINE row == [status |-> "active", source |-> "manual"]
<1> DEFINE v == panel[s].on
<1>1. row \in RoleRows /\ row.status = "active"
  BY DEF RoleRows
<1>2. /\ roles' = [roles EXCEPT ![v] = row] /\ roleLog' = [roleLog EXCEPT ![v] = "grant"]
      /\ panel' = [panel EXCEPT ![s] = IdlePanel] /\ signIn' = signIn
  BY DEF PanelGrant, PanelEnd
<1>3. v \in Staff
  BY DEF PanelGrant, AdminInv, PanelHolds
<1> HIDE DEF row, v
<1> QED BY <1>1, <1>2, <1>3, RoleWritten DEF AdminInv, AdminTypes

(* A role taken from the panel: somebody else among the locked rows keeps it. *)
LEMMA RevokeStep ==
  ASSUME AdminInv, NEW s \in PanelSlots, PanelRevoke(s)
  PROVE  AdminInv'
<1> DEFINE v == panel[s].on
<1>1. panel' = [panel EXCEPT ![s] = IdlePanel] /\ signIn' = signIn
  BY DEF PanelRevoke, PanelEnd
<1>2. CASE UNCHANGED roleVars
  BY <1>1, <1>2, OtherStep, IdleIsHoldless DEF AdminInv, AdminTypes
<1>3. CASE ~UNCHANGED roleVars
  <2> DEFINE row == [roles[v] EXCEPT !.status = "revoked"]
  <2>1. /\ panel[s].pc = "locked" /\ v \in panel[s].seen /\ panel[s].seen # {v}
        /\ roles' = [roles EXCEPT ![v].status = "revoked"] /\ roleLog' = [roleLog EXCEPT ![v] = "revoke"]
    BY <1>3 DEF PanelRevoke, roleVars
  <2>2. panel[s].seen \subseteq ActiveOperators
    BY <2>1 DEF AdminInv, PanelHolds
  <2>3. v \in Staff /\ roles[v] \in RoleRows
    BY <2>1, <2>2 DEF ActiveOperators, AdminInv, AdminTypes
  <2>4. row \in RoleRows /\ row.status = "revoked"
    BY <2>3 DEF RoleRows
  <2>5. roles' = [roles EXCEPT ![v] = row]
    BY <2>1, <2>3 DEF AdminInv, AdminTypes
  <2>6. \E w \in Staff \ {v} : Operator(w)
    <3>1. PICK w : w \in panel[s].seen \ {v}
      BY <2>1
    <3> QED BY <3>1, <2>2 DEF ActiveOperators
  <2>7. \A t \in PanelSlots : panel'[t].pc # "locked"
    <3>1. panel'[s] = IdlePanel /\ \A t \in PanelSlots \ {s} : panel'[t] = panel[t]
      BY <1>1 DEF AdminInv, AdminTypes
    <3> QED BY <3>1, <2>1 DEF AdminInv, OneHolder, IdlePanel
  <2> HIDE DEF row, v
  <2> QED BY <1>1, <2>1, <2>3, <2>4, <2>5, <2>6, <2>7, RoleWritten DEF AdminInv, AdminTypes
<1> QED BY <1>2, <1>3

(* Model access: the request goes on without rows, or ends. *)
LEMMA AccessStep ==
  ASSUME AdminInv, NEW s \in PanelSlots, ModelAccessCall(s) \/ ModelAccessCommit(s)
  PROVE  AdminInv'
<1> DEFINE p == [panel[s] EXCEPT !.pc = "called"]
<1>1. panel[s] \in Panels /\ PanelHolds(s)
  BY DEF AdminInv, AdminTypes
<1>2. CASE panel' = [panel EXCEPT ![s] = IdlePanel]
  BY <1>2, OtherStep, IdleIsHoldless DEF ModelAccessCall, ModelAccessCommit, AdminInv, AdminTypes
<1>3. CASE ModelAccessCall(s) /\ panel' = [panel EXCEPT ![s].pc = "called"]
  <2>1. panel[s].op \in {"add", "remove"} /\ panel[s].pc = "begun"
    BY <1>3 DEF ModelAccessCall
  <2>2. p \in Panels /\ p.pc = "called" /\ p.op = panel[s].op /\ p.seen = panel[s].seen
    BY <1>1 DEF Panels
  <2>3. panel[s] # IdlePanel
    BY <2>1 DEF IdlePanel
  <2>4. Holdless(p)
    BY <1>1, <2>1, <2>2, <2>3 DEF Holdless, PanelHolds
  <2>5. panel' = [panel EXCEPT ![s] = p]
    BY <1>3 DEF AdminInv, AdminTypes
  <2> HIDE DEF p
  <2> QED BY <1>3, <2>2, <2>4, <2>5, OtherStep DEF ModelAccessCall, AdminInv, AdminTypes
<1> QED BY <1>2, <1>3 DEF ModelAccessCall, ModelAccessCommit, PanelEnd

LEMMA AdminStep == AdminInv /\ [AdminNext]_adminVars => AdminInv'
<1> SUFFICES ASSUME AdminInv, [AdminNext]_adminVars PROVE AdminInv'
  OBVIOUS
<1>1. ASSUME NEW u \in Staff, ReconcilePlatformRole(u) \/ SyncFailed(u) PROVE AdminInv'
  <2>1. signIn' \in [Staff -> {"idle", "grant", "revoke"}] /\ panel' = panel /\ UNCHANGED roleVars
    BY <1>1 DEF ReconcilePlatformRole, Reconcile, SyncFailed, AdminInv, AdminTypes
  <2> QED BY <2>1, OtherStep
<1>2. ASSUME NEW u \in Staff, AdminSwitchConnector(u) PROVE AdminInv'
  BY <1>2, OtherStep DEF AdminSwitchConnector, SetEnabled, AdminInv, AdminTypes
<1>3. ASSUME NEW s \in PanelSlots, AdminChangeRole(s) PROVE AdminInv'
  BY <1>3, BegunIsHoldless DEF AdminChangeRole
<1>4. ASSUME NEW s \in PanelSlots, AdminChangeModelAccess(s) PROVE AdminInv'
  <2>1. PICK u \in Staff, v \in Subjects, op \in {"add", "remove"} : PanelBegin(s, op, u, v)
    BY <1>4 DEF AdminChangeModelAccess
  <2> QED BY <2>1, BegunIsHoldless
<1>5. CASE UNCHANGED adminVars
  <2>1. UNCHANGED roleVars /\ panel' = panel /\ signIn' = signIn
    BY <1>5 DEF adminVars, roleVars
  <2> QED BY <2>1, OtherStep DEF AdminInv, AdminTypes
<1> QED BY <1>1, <1>2, <1>3, <1>4, <1>5, SyncStep, GrantStep, LockStep, RevokeStep, AccessStep DEF AdminNext

LEMMA AdminInitially == AdminInit => AdminInv
<1> SUFFICES ASSUME AdminInit PROVE AdminInv
  OBVIOUS
<1>1. AdminTypes
  BY IdleIsHoldless DEF AdminInit, AdminTypes, RoleRows, NoRole
<1>2. \A s \in PanelSlots : PanelHolds(s)
  BY DEF AdminInit, PanelHolds, IdlePanel
<1>3. OneHolder
  BY DEF AdminInit, OneHolder, IdlePanel
<1>4. \A u \in Staff : (Operator(u) <=> u \in Bootstrapped) /\ (roleLog[u] = "grant" <=> u \in Bootstrapped)
                       /\ (roleLog[u] # "none" => u \in Bootstrapped)
  BY DEF AdminInit, Operator, NoRole
<1>5. RolesAreSound
  BY <1>4 DEF RolesAreSound, OperatorRemains, RoleLogAgrees, ActiveOperators
<1> QED BY <1>1, <1>2, <1>3, <1>5 DEF AdminInv

(* For every number of people and of requests to the panel, beside any sign-ins:
   once there is an operator there is always one, and the last audit row about
   a person tells whether they are one (platform_role_sync.py,
   platform_role_admin.py). *)
THEOREM OperatorsRemain == AdminSpec => []RolesAreSound
<1>1. AdminInv => RolesAreSound
  BY DEF AdminInv
<1> QED BY AdminInitially, AdminStep, <1>1, PTL DEF AdminSpec

(* No sign-in takes or rewrites a role that was given by hand: only the request
   of the panel that is about its holder does, and ends with it. *)
THEOREM ManualRowsUntouched == AdminSpec => ManualRowsStay
<1>1. AdminInv /\ [AdminNext]_adminVars =>
        [\A u \in Staff : roles[u].source = "manual" /\ roles'[u] # roles[u]
           => \E s \in PanelSlots : panel[s].on = u /\ panel'[s] = IdlePanel]_adminVars
  <2> SUFFICES ASSUME AdminInv, AdminNext, NEW u \in Staff, roles[u].source = "manual", roles'[u] # roles[u]
               PROVE  \E s \in PanelSlots : panel[s].on = u /\ panel'[s] = IdlePanel
    OBVIOUS
  <2>1. \A s \in PanelSlots : PanelEnd(s) => panel'[s] = IdlePanel
    BY DEF PanelEnd, AdminInv, AdminTypes
  <2>2. ~UNCHANGED roles
    OBVIOUS
  <2>3. ASSUME NEW w \in Staff, SyncGrant(w) \/ SyncRevoke(w) PROVE FALSE
    <3>1. w = u /\ (SyncOwned(w) \/ roles[w] = [status |-> "active", source |-> "idp"])
      BY <2>3, <2>2 DEF SyncGrant, SyncRevoke, SyncWrite, AdminInv, AdminTypes
    <3> QED BY <3>1 DEF SyncOwned
  <2>4. ASSUME NEW s \in PanelSlots, PanelGrant(s) \/ PanelRevoke(s) PROVE panel[s].on = u /\ PanelEnd(s)
    <3>1. CASE PanelGrant(s)
      BY <2>2, <3>1, SMTT(30) DEF PanelGrant, roleVars, AdminInv, AdminTypes
    <3>2. CASE PanelRevoke(s)
      BY <2>2, <3>2, SMTT(30) DEF PanelRevoke, roleVars, AdminInv, AdminTypes
    <3> QED BY <2>4, <3>1, <3>2
  <2>5. \/ \E w \in Staff : SyncGrant(w) \/ SyncRevoke(w)
        \/ \E s \in PanelSlots : PanelGrant(s) \/ PanelRevoke(s)
    BY <2>2, ZenonT(30) DEF AdminNext, ReconcilePlatformRole, Reconcile, SyncFailed, AdminSwitchConnector, SetEnabled,
               AdminChangeRole, PanelBegin, LockActiveOperators, AdminChangeModelAccess, ModelAccessCall,
               ModelAccessCommit, roleVars
  <2> QED BY <2>1, <2>3, <2>4, <2>5
<1> QED BY AdminInitially, AdminStep, <1>1, PTL DEF AdminSpec, ManualRowsStay

---------------------------------------------------------------------------
(***************************************************************************)
(* AuditGuard, for any number of actions, whatever their bodies do.        *)
(***************************************************************************)
\* An action under way has no outcome yet, so no row either.
UnderWay == at # "between" => action \in Actions /\ outcome[action] = NoAction
RowsHaveEnded == \A a \in Actions : a \in recorded => outcome[a] # NoAction

\* What escaped has ended or is the action under way; and until a statement opens
\* another, that one is in no transaction: what the last check looks at.
EscapesAreSeen ==
  /\ \A a \in Actions : a \in escaped => outcome[a] # NoAction \/ (at # "between" /\ action = a)
  /\ at # "between" /\ action \in escaped \ reopened => status = NoTrans

Outcomes == {NoAction, "ok", "error", "broken"}

AuditInv ==
  /\ outcome \in [Actions -> Outcomes]
  /\ UnderWay /\ RowsHaveEnded /\ EscapesAreSeen /\ AuditedTogether

(* A step of a body that leaves what is stored alone, and no transaction open
   where there was none. *)
LEMMA BodyKeeps ==
  ASSUME AuditInv, at # "between", at' # "between", action' = action, outcome' = outcome, Stored,
         status' = NoTrans \/ status # NoTrans
  PROVE  AuditInv'
BY DEF AuditInv, UnderWay, RowsHaveEnded, EscapesAreSeen, AuditedTogether, Stored

(* The way out: the action gets an outcome, and with it a row or nothing. *)
LEMMA EndKeeps ==
  ASSUME AuditInv, at # "between", NEW result \in Outcomes, result # NoAction, End(result),
         escaped' = escaped, reopened' = reopened,
         \/ recorded' = recorded /\ durable' = durable /\ result # "ok"
         \/ status # NoTrans /\ recorded' = recorded \cup {action} /\ durable' \in {durable, durable \cup {action}}
  PROVE  AuditInv'
<1>1. outcome' \in [Actions -> Outcomes]
  BY DEF AuditInv, End
<1>2. \A a \in Actions : outcome'[a] = IF a = action THEN result ELSE outcome[a]
  BY DEF AuditInv, End, UnderWay
<1>3. at' = "between"
  BY DEF End
<1>4. UnderWay'
  BY <1>3 DEF UnderWay
<1>5. RowsHaveEnded'
  BY <1>2 DEF RowsHaveEnded, AuditInv
<1>6. EscapesAreSeen'
  BY <1>2, <1>3 DEF EscapesAreSeen, AuditInv
<1>7. action \in escaped \ reopened => status = NoTrans
  BY DEF AuditInv, EscapesAreSeen
<1>8. AuditedTogether'
  BY <1>2, <1>7 DEF AuditedTogether, AuditInv, UnderWay, RowsHaveEnded
<1> QED BY <1>1, <1>4, <1>5, <1>6, <1>8 DEF AuditInv

LEMMA AuditStep == AuditInv /\ [AuditNext]_auditVars => AuditInv'
<1> SUFFICES ASSUME AuditInv, [AuditNext]_auditVars PROVE AuditInv'
  OBVIOUS
<1> USE DEF NoTrans, InTrans, InError, Outcomes
<1>1. ASSUME NEW a \in Actions, Enter(a) PROVE AuditInv'
  BY <1>1 DEF Enter, Stored, AuditInv, UnderWay, RowsHaveEnded, EscapesAreSeen, AuditedTogether
<1>2. ASSUME NEW a \in Actions, UnknownAction(a) PROVE AuditInv'
  <2>1. outcome' \in [Actions -> Outcomes] /\ \A b \in Actions : outcome'[b] = IF b = a THEN "error" ELSE outcome[b]
    BY <1>2 DEF UnknownAction, AuditInv
  <2> QED BY <1>2, <2>1 DEF UnknownAction, Stored, AuditInv, UnderWay, RowsHaveEnded, EscapesAreSeen, AuditedTogether,
                           NoAction
<1>3. ASSUME NEW kind \in Kinds, execute(kind) PROVE AuditInv'
  <2>1. CASE Refuses(kind)
    BY <1>3, <2>1, BodyKeeps DEF execute
  <2>2. CASE ~Refuses(kind)
    <3>1. kind # "control"
      BY <2>2 DEF Refuses
    <3>2. /\ at = "body" /\ at' \in {"body", "raised"} /\ action' = action /\ outcome' = outcome
          /\ durable' = durable /\ recorded' = recorded /\ escaped' = escaped
          /\ reopened' = IF status = NoTrans THEN reopened \cup {action} ELSE reopened
      BY <1>3, <2>2, <3>1 DEF execute
    <3> QED BY <3>2 DEF AuditInv, UnderWay, RowsHaveEnded, EscapesAreSeen, AuditedTogether
  <2> QED BY <2>1, <2>2
<1>4. CASE \/ \E kind \in {"stamped", "rewritten", "unstorable"} : SetFields(kind)
           \/ MethodRefused \/ Swallow \/ BodyReturns
  BY <1>4, BodyKeeps DEF SetFields, MethodRefused, Swallow, BodyReturns
<1>5. CASE Savepoint \/ RollbackTo
  BY <1>5, BodyKeeps DEF Savepoint, RollbackTo
<1>6. CASE Escape
  <2>1. /\ at = "body" /\ at' = "body" /\ action' = action /\ outcome' = outcome /\ status' = NoTrans
        /\ durable' \in {durable, durable \cup {action}}
        /\ recorded' = recorded /\ escaped' = escaped \cup {action} /\ reopened' = reopened
    BY <1>6 DEF Escape
  <2> QED BY <2>1 DEF AuditInv, UnderWay, RowsHaveEnded, EscapesAreSeen, AuditedTogether, NoAction
<1>7. CASE BodyRaises \/ FieldsRefused \/ NotIntact
  BY <1>7, EndKeeps DEF BodyRaises, FieldsRefused, NotIntact, Stored, NoAction
<1>8. CASE InsertAndCommit
  <2>1. /\ at # "between" /\ End("ok") /\ status # NoTrans
        /\ escaped' = escaped /\ reopened' = reopened
        /\ recorded' = recorded \cup {action} /\ durable' \in {durable, durable \cup {action}}
    BY <1>8 DEF InsertAndCommit, Intact
  <2> QED BY <2>1, EndKeeps DEF NoAction
<1>9. CASE InsertFails
  <2>1. /\ at # "between" /\ End("error") /\ status # NoTrans
        /\ escaped' = escaped /\ reopened' = reopened
        /\ \/ recorded' = recorded /\ durable' = durable
           \/ recorded' = recorded \cup {action} /\ durable' \in {durable, durable \cup {action}}
    BY <1>9 DEF InsertFails, Intact
  <2> QED BY <2>1, EndKeeps DEF NoAction
<1>10. CASE UNCHANGED auditVars
  BY <1>10 DEF auditVars, AuditInv, UnderWay, RowsHaveEnded, EscapesAreSeen, AuditedTogether
<1> QED BY <1>1, <1>2, <1>3, <1>4, <1>5, <1>6, <1>7, <1>8, <1>9, <1>10 DEF AuditNext

(* For every number of audited actions, and whatever their bodies run, catch,
   roll back or rewrite: no change is committed without its row, and one whose
   transaction was ended behind the guard fails without a row (frames/audit.py). *)
THEOREM ChangesAreAudited == AuditSpec => []AuditedTogether
<1>1. AuditInit => AuditInv
  BY DEF AuditInit, AuditInv, UnderWay, RowsHaveEnded, EscapesAreSeen, AuditedTogether, NoAction, Outcomes
<1>2. AuditInv => AuditedTogether
  BY DEF AuditInv
<1> QED BY <1>1, AuditStep, <1>2, PTL DEF AuditSpec

-----------------------------------------------------------------------------
(***************************************************************************)
(* RequestGate.  No handler runs without the checks its route declares     *)
(* (HandlersProtected): the start-up checks rule out the routes that no    *)
(* layer would protect (RouteStands), and each layer a request has passed  *)
(* leaves its condition behind (Passed).                                   *)
(***************************************************************************)
\* What an application that started says of its route.
RouteStands ==
  app = "serving" =>
    /\ ~OrphanedGuard
    /\ settings.web => ~StrayPage /\ ~RouteOffence /\ ~UnsafelyPublic

PastGuard == {"authenticate", "provision", "admit", "dependencies", "handler", "ran"}

\* What a request has been through when it is where it is.
Passed(q) ==
  /\ q.pc # "idle" => app = "serving" /\ (settings.web \/ ~route.surface) /\ (q.csrf => q.session)
  /\ q.pc \in PastGuard => (route.surface => route.public \/ q.session)
  /\ q.pc \in {"provision", "admit"} => q.credential
  /\ q.pc \in {"dependencies", "handler", "ran"} => (route.access # "public" => q.credential)
  /\ q.pc \in {"handler", "ran"} =>
       /\ route.session => q.session
       /\ route.csrf => q.csrf
       /\ route.guard = "under" => q.operator
  /\ q.pc = "ran" => (route.exempt => q.csrf)

GateInv == GateTypeOK /\ RouteStands /\ \A g \in Gates : Passed(gate[g])

GateStates ==
  [pc : {"idle", "guard", "authenticate", "provision", "admit", "dependencies", "handler", "ran"},
   login : Logins, credential : BOOLEAN, session : BOOLEAN, csrf : BOOLEAN, operator : BOOLEAN,
   trusted : BOOLEAN, context : Contexts]

LEMMA IdleGateIsIdle == IdleGate \in GateStates /\ IdleGate.pc = "idle" /\ NoContext \in Contexts
  BY LoginsAssumption DEF IdleGate, GateStates, NoContext, Contexts

LEMMA GateInitially == GateInit => GateInv
<1> SUFFICES ASSUME GateInit PROVE GateInv
  OBVIOUS
<1>1. GateTypeOK
  <2>1. {NoContext, [org |-> Elsewhere, active |-> FALSE]} \subseteq Contexts
    BY IdleGateIsIdle DEF Contexts
  <2>2. member \in [Logins -> Contexts]
    BY <2>1 DEF GateInit
  <2> QED BY <2>2, IdleGateIsIdle DEF GateInit, GateTypeOK, GateStates
<1>2. RouteStands /\ \A g \in Gates : Passed(gate[g])
  BY IdleGateIsIdle DEF GateInit, RouteStands, Passed, PastGuard
<1> QED BY <1>1, <1>2 DEF GateInv

\* A step of one request, after which it is a state that has passed what it should.
LEMMA GateStep ==
  ASSUME GateInv, NEW g \in Gates, NEW q \in GateStates,
         UNCHANGED <<route, settings, app>>, gate' = [gate EXCEPT ![g] = q],
         member' \in [Logins -> Contexts], Passed(q)
  PROVE  GateInv'
<1>1. GateTypeOK'
  BY DEF GateInv, GateTypeOK, GateStates
<1>2. RouteStands'
  BY DEF GateInv, RouteStands, OrphanedGuard, StrayPage, RouteOffence, UnsafelyPublic
<1>3. ASSUME NEW h \in Gates PROVE Passed(gate[h])'
  <2>1. gate'[h] = IF h = g THEN q ELSE gate[h]
    BY DEF GateInv, GateTypeOK
  <2>2. Passed(gate'[h])
    BY <2>1 DEF GateInv
  <2> QED BY <2>2 DEF Passed
<1> QED BY <1>1, <1>2, <1>3 DEF GateInv

LEMMA GateKeeps == GateInv /\ [GateNext]_gateVars => GateInv'
<1> SUFFICES ASSUME GateInv, [GateNext]_gateVars PROVE GateInv'
  OBVIOUS
<1>0. /\ member \in [Logins -> Contexts]
      /\ \A g \in Gates : gate[g] \in GateStates /\ Passed(gate[g])
      /\ gate \in [Gates -> GateStates]
  BY DEF GateInv, GateTypeOK, GateStates
<1>1. ASSUME UNCHANGED gateVars PROVE GateInv'
  BY <1>1 DEF gateVars, GateInv, GateTypeOK, RouteStands, Passed, OrphanedGuard, StrayPage, RouteOffence, UnsafelyPublic
<1>2. ASSUME MakeApp PROVE GateInv'
  <2>1. GateTypeOK'
    BY <1>2 DEF MakeApp, GateInv, GateTypeOK
  <2>2. RouteStands'
    BY <1>2 DEF MakeApp, RouteStands, OrphanedGuard, StrayPage, RouteOffence, UnsafelyPublic
  <2>3. \A g \in Gates : Passed(gate[g])'
    BY <1>2, <1>0 DEF MakeApp, Passed, PastGuard
  <2> QED BY <2>1, <2>2, <2>3 DEF GateInv
<1>3. ASSUME MembershipChanges PROVE GateInv'
  <2>1. member' \in [Logins -> Contexts]
    <3>1. PICK u \in Logins :
            \/ member' = [member EXCEPT ![u] = [org |-> Elsewhere, active |-> TRUE]]
            \/ member' = [member EXCEPT ![u] = [member[u] EXCEPT !.active = FALSE]]
      BY <1>3, <1>0 DEF MembershipChanges
    <3>2. [org |-> Elsewhere, active |-> TRUE] \in Contexts /\ [member[u] EXCEPT !.active = FALSE] \in Contexts
      BY <1>0 DEF Contexts
    <3> QED BY <3>1, <3>2, <1>0
  <2> QED BY <1>3, <2>1 DEF MembershipChanges, GateInv, GateTypeOK, RouteStands, Passed, OrphanedGuard, StrayPage,
       RouteOffence, UnsafelyPublic
<1>4. ASSUME NEW g \in Gates, GateArrive(g) PROVE GateInv'
  <2>1. PICK q \in [pc : {"guard"}, login : Logins, credential : BOOLEAN, session : BOOLEAN,
               csrf : BOOLEAN, operator : BOOLEAN, trusted : BOOLEAN, context : {NoContext}] :
          (q.csrf => q.session) /\ gate' = [gate EXCEPT ![g] = q]
    BY <1>4 DEF GateArrive
  <2>2. q \in GateStates /\ q.pc = "guard"
    BY IdleGateIsIdle DEF GateStates
  <2>3. Passed(q)
    BY <1>4, <2>1, <2>2 DEF Passed, PastGuard, GateArrive
  <2> QED BY <1>4, <1>0, <2>1, <2>2, <2>3, GateStep DEF GateArrive
<1>5. Passed(IdleGate)
  BY IdleGateIsIdle DEF Passed, PastGuard
<1>6. ASSUME NEW g \in Gates, UNCHANGED <<route, settings, app, member>>, TurnAway(g) PROVE GateInv'
  BY <1>0, <1>5, <1>6, GateStep, IdleGateIsIdle DEF TurnAway
\* A request that goes on: only its place changes.
<1>7. ASSUME NEW g \in Gates, UNCHANGED <<route, settings, app, member>>, NEW pc \in PastGuard, Proceed(g, pc),
             Passed([gate[g] EXCEPT !.pc = pc])
      PROVE  GateInv'
  <2>1. gate' = [gate EXCEPT ![g] = [gate[g] EXCEPT !.pc = pc]]
    BY <1>7, <1>0 DEF Proceed
  <2>2. [gate[g] EXCEPT !.pc = pc] \in GateStates
    BY <1>0 DEF GateStates, PastGuard
  <2> QED BY <2>1, <2>2, <1>0, <1>7, GateStep
<1>8. ASSUME NEW g \in Gates, SessionGuard(g) PROVE GateInv'
  <2>1. CASE TurnAway(g)
    BY <1>6, <1>8, <2>1 DEF SessionGuard
  <2>2. CASE ~TurnAway(g)
    <3> DEFINE pc == IF route.access = "public" THEN "dependencies" ELSE "authenticate"
    <3>1. Proceed(g, pc) /\ ~(route.surface /\ settings.web /\ (route.kind = "websocket" \/ (~IsPublic /\ ~SessionOrNone(g))))
      BY <1>8, <2>2 DEF SessionGuard, Deny
    <3>2. Passed([gate[g] EXCEPT !.pc = pc])
      BY <1>0, <1>8, <3>1 DEF Passed, PastGuard, SessionGuard, IsPublic, SessionOrNone, GateStates
    <3>3. pc \in PastGuard
      BY DEF PastGuard
    <3> HIDE DEF pc
    <3> QED BY <1>7, <1>8, <3>1, <3>2, <3>3 DEF SessionGuard
  <2> QED BY <2>1, <2>2
<1>9. ASSUME NEW g \in Gates, AuthenticateRequest(g) PROVE GateInv'
  <2>1. CASE TurnAway(g)
    BY <1>6, <1>9, <2>1 DEF AuthenticateRequest
  <2>2. CASE ~TurnAway(g)
    <3>1. gate[g].pc = "authenticate" /\ gate[g].credential /\ GateContext(g) /\ UNCHANGED <<route, settings, app, member>>
      BY <1>9, <2>2 DEF AuthenticateRequest
    <3>2. CASE Proceed(g, "provision")
      <4>1. Passed([gate[g] EXCEPT !.pc = "provision"])
        BY <1>0, <3>1 DEF Passed, PastGuard, GateStates
      <4> QED BY <1>7, <3>1, <3>2, <4>1 DEF PastGuard
    <3>3. CASE ~Proceed(g, "provision")
      <4>1. PICK pc \in {"dependencies", "admit"}, ctx \in Contexts :
              gate' = [gate EXCEPT ![g].pc = pc, ![g].context = ctx]
        BY <1>0, <3>1, <3>3 DEF GateContext, ClaimsContext, Contexts, ResolvePrincipal, GateStates
      <4> DEFINE q == [gate[g] EXCEPT !.pc = pc, !.context = ctx]
      <4>2. q \in GateStates /\ gate' = [gate EXCEPT ![g] = q]
        BY <1>0, <4>1 DEF GateStates
      <4>3. Passed(q)
        BY <1>0, <3>1, <4>1 DEF Passed, PastGuard, GateStates
      <4> HIDE DEF q
      <4> QED BY <1>0, <3>1, <4>2, <4>3, GateStep
    <3> QED BY <3>2, <3>3
  <2> QED BY <2>1, <2>2
<1>10. ASSUME NEW g \in Gates, AutoAdmit(g) PROVE GateInv'
  <2> DEFINE row == IF member[gate[g].login] = NoContext THEN [org |-> Declared, active |-> TRUE]
                    ELSE member[gate[g].login]
             q == [gate[g] EXCEPT !.pc = "admit", !.context = row]
  <2>1. row \in Contexts
    BY <1>0 DEF Contexts, GateStates
  <2>2. gate[g].pc = "provision" /\ member' = [member EXCEPT ![gate[g].login] = row]
        /\ gate' = [gate EXCEPT ![g].pc = "admit", ![g].context = row] /\ UNCHANGED <<route, settings, app>>
    BY <1>10 DEF AutoAdmit
  <2> HIDE DEF row
  <2>3. member' \in [Logins -> Contexts]
    BY <1>0, <2>1, <2>2 DEF GateStates
  <2>4. q \in GateStates /\ gate' = [gate EXCEPT ![g] = q]
    BY <1>0, <2>1, <2>2 DEF GateStates
  <2>5. Passed(q)
    BY <1>0, <2>2 DEF Passed, PastGuard, GateStates
  <2> HIDE DEF q
  <2> QED BY <2>2, <2>3, <2>4, <2>5, GateStep
<1>11. ASSUME NEW g \in Gates, Admit(g) PROVE GateInv'
  <2>1. CASE TurnAway(g)
    BY <1>6, <1>11, <2>1 DEF Admit
  <2>2. CASE ~TurnAway(g)
    <3>1. gate[g].pc = "admit" /\ UNCHANGED <<route, settings, app, member>>
      BY <1>11 DEF Admit
    <3>2. CASE Proceed(g, "dependencies")
      <4>1. Passed([gate[g] EXCEPT !.pc = "dependencies"])
        BY <1>0, <3>1 DEF Passed, PastGuard, GateStates
      <4> QED BY <1>7, <3>1, <3>2, <4>1 DEF PastGuard
    <3>3. CASE ~Proceed(g, "dependencies")
      <4> DEFINE q == [gate[g] EXCEPT !.pc = "dependencies", !.context = NoContext]
      <4>1. q \in GateStates /\ gate' = [gate EXCEPT ![g] = q]
        BY <1>0, <1>11, <2>2, <3>3, IdleGateIsIdle DEF GateStates, Admit
      <4>2. Passed(q)
        BY <1>0, <3>1 DEF Passed, PastGuard, GateStates
      <4> HIDE DEF q
      <4> QED BY <1>0, <3>1, <4>1, <4>2, GateStep
    <3> QED BY <3>2, <3>3
  <2> QED BY <2>1, <2>2
<1>12. ASSUME NEW g \in Gates, Dependencies(g) PROVE GateInv'
  <2>1. CASE TurnAway(g)
    BY <1>6, <1>12, <2>1 DEF Dependencies
  <2>2. CASE ~TurnAway(g)
    <3>1. /\ gate[g].pc = "dependencies" /\ Proceed(g, "handler")
          /\ ~((route.session /\ ~gate[g].session) \/ (route.csrf /\ ~gate[g].csrf)
               \/ (route.guard = "under" /\ ~gate[g].operator))
      BY <1>12, <2>2 DEF Dependencies
    <3>2. Passed([gate[g] EXCEPT !.pc = "handler"])
      BY <1>0, <3>1 DEF Passed, PastGuard, GateStates
    <3> QED BY <1>7, <1>12, <3>1, <3>2 DEF PastGuard, Dependencies
  <2> QED BY <2>1, <2>2
<1>13. ASSUME NEW g \in Gates, Handle(g) PROVE GateInv'
  <2>1. CASE TurnAway(g)
    BY <1>6, <1>13, <2>1 DEF Handle
  <2>2. CASE ~TurnAway(g)
    <3>1. gate[g].pc = "handler" /\ Proceed(g, "ran") /\ ~(route.exempt /\ ~gate[g].csrf)
      BY <1>13, <2>2 DEF Handle
    <3>2. Passed([gate[g] EXCEPT !.pc = "ran"])
      BY <1>0, <3>1 DEF Passed, PastGuard, GateStates
    <3> QED BY <1>7, <1>13, <3>1, <3>2 DEF PastGuard, Handle
  <2> QED BY <2>1, <2>2
<1>14. ASSUME NEW g \in Gates, GateRespond(g) PROVE GateInv'
  BY <1>6, <1>14 DEF GateRespond
<1> QED BY <1>1, <1>2, <1>3, <1>4, <1>8, <1>9, <1>10, <1>11, <1>12, <1>13, <1>14 DEF GateNext

(* Whatever is set and whichever route is asked for, no handler runs without what
   its route declares: what the start-up checks let through, the middlewares and
   the dependencies refuse (make_app, WebSessionGuardMiddleware,
   PathProtectionMiddleware, require_csrf). *)
THEOREM RoutesAreProtected == GateSpec => []HandlersProtected
<1>1. GateInv => HandlersProtected
  <2> SUFFICES ASSUME GateInv, NEW g \in Gates, gate[g].pc = "ran"
               PROVE  /\ route.surface /\ ~route.public => gate[g].session
                      /\ route.surface /\ route.unsafe /\ (~route.public \/ route.page) => gate[g].csrf
                      /\ settings.web /\ route.page => route.public
                      /\ settings.web /\ route.session => route.surface
                      /\ route.guard # "none" => gate[g].operator
                      /\ route.access # "public" => gate[g].credential
    BY DEF HandlersProtected, Ran
  <2>1. Passed(gate[g]) /\ RouteStands /\ route \in Routes /\ gate[g] \in GateStates
    BY DEF GateInv, GateTypeOK, GateStates
  <2> QED BY <2>1 DEF Passed, PastGuard, RouteStands, Routes, RouteKinds, RoleGuards, OrphanedGuard, StrayPage,
       RouteOffence, UnsafelyPublic, GateStates
<1> QED BY <1>1, GateInitially, GateKeeps, PTL DEF GateSpec

(* However requests and acceptances interleave, an admission neither moves a
   membership to another organization nor revives a suspended one
   (provision_member's ON CONFLICT DO NOTHING). *)
THEOREM MembershipsStay == GateSpec => MembershipStays
<1>1. GateInv /\ [GateNext]_gateVars => [MembershipKept]_gateVars
  <2> SUFFICES ASSUME GateInv, GateNext, NEW u \in Logins, member[u] # NoContext
               PROVE  member'[u].org = member[u].org /\ (member'[u].active => member[u].active)
    BY DEF MembershipKept
  <2>0. member \in [Logins -> Contexts] /\ \A g \in Gates : gate[g].login \in Logins
    BY DEF GateInv, GateTypeOK
  <2>1. CASE UNCHANGED member
    BY <2>1
  <2>2. CASE MembershipChanges
    BY <2>0, <2>2 DEF MembershipChanges, Contexts
  <2>3. ASSUME NEW g \in Gates, AutoAdmit(g) PROVE member'[u] = member[u]
    BY <2>0, <2>3 DEF AutoAdmit
  <2> QED BY <2>1, <2>2, <2>3 DEF GateNext, MakeApp, GateArrive, SessionGuard, AuthenticateRequest, Admit,
       Dependencies, Handle, GateRespond
<1> QED BY <1>1, GateInitially, GateKeeps, PTL DEF GateSpec, MembershipStays

-----------------------------------------------------------------------------
(***************************************************************************)
(* JwksClient.  How old a key's publication or withdrawal can be that the  *)
(* sets in hand do not show: a set read by the fetch that is out misses no *)
(* more than the age of the fetch, the validated set no more than its own  *)
(* age and one fetch, and the cached set, when it is the validated one of  *)
(* an endpoint that answers, no more than the cache's age and one fetch.   *)
(***************************************************************************)
\* The keys of a set that the endpoint has withdrawn, it withdrew at most a ago.
Confirmed(keys, a) == \A k \in keys \cap RotatingKids : k \notin served => keyAge[k] <= a

\* The keys the endpoint serves that a set has not, it published at most a ago.
Missed(keys, a) == SteadyKids \subseteq keys /\ \A k \in served : k \notin keys => keyAge[k] <= a

FlightKnown ==
  /\ flight.pc = "none" => flight = NoFlight
  /\ flight.pc \in {"answered", "read"} =>
       /\ Confirmed(flight.keys, flight.age)
       /\ healthy => flight.keys # {} /\ Missed(flight.keys, flight.age)

SetsKnown ==
  /\ Confirmed(validated.keys, validated.age + FetchTimeout)
  /\ cache.ours => /\ cache.keys = validated.keys
                   /\ healthy => Missed(cache.keys, cache.age + FetchTimeout)

GotKnown(q) ==
  q.pc = "match" => /\ Confirmed(q.got, MaxStale + FetchTimeout)
                    /\ healthy => Missed(q.got, Lifespan + FetchTimeout)

JwksInv == JwksTypeOK /\ FlightKnown /\ SetsKnown /\ (\A c \in Verifiers : GotKnown(caller[c])) /\ KeysAreCurrent

CallerStates == [pc : {"idle", "ask", "match", "waiting", "leading"}, kid : Kids, refresh : BOOLEAN, got : SUBSET Kids]
FlightStates == [pc : {"none", "out", "answered", "read"}, keys : SUBSET Kids, age : 0..FetchTimeout]

LEMMA OldIsOld == Old \in Nat /\ Old > MaxStale + FetchTimeout /\ MaxStale \in Nat /\ Lifespan <= MaxStale /\ FetchTimeout \in Nat /\ Lifespan \in Nat
  BY JwksAssumption DEF Old, MaxStale

LEMMA JwksConstants ==
  /\ NoSet \in KeyRecords /\ NoFlight \in FlightStates /\ IdleCaller \in CallerStates
  /\ IdleCaller.pc = "idle" /\ NoFlight.pc = "none" /\ NoFlight.age = 0 /\ NoSet.keys = {} /\ ~NoSet.ours
<1>1. NoSet \in KeyRecords
  BY OldIsOld DEF NoSet, KeyRecords, Ages
<1>2. NoFlight \in FlightStates
  BY JwksAssumption DEF NoFlight, FlightStates
<1>3. IdleCaller \in CallerStates
  BY JwksAssumption DEF IdleCaller, CallerStates, Kids
<1> QED BY <1>1, <1>2, <1>3 DEF NoSet, NoFlight, IdleCaller

LEMMA NoVerdictIsCurrent == verdict = NoVerdict => KeysAreCurrent
  BY DEF NoVerdict, KeysAreCurrent, AcceptedKeyConfirmed, RejectionBounded

LEMMA JwksInitially == JwksInit => JwksInv
<1> SUFFICES ASSUME JwksInit PROVE JwksInv
  OBVIOUS
<1>1. JwksTypeOK
  BY JwksConstants, OldIsOld DEF JwksInit, JwksTypeOK, Ages, CallerStates, FlightStates
<1>2. FlightKnown /\ SetsKnown /\ \A c \in Verifiers : GotKnown(caller[c])
  BY JwksConstants DEF JwksInit, FlightKnown, SetsKnown, Confirmed, GotKnown
<1>3. KeysAreCurrent
  BY NoVerdictIsCurrent DEF JwksInit
<1> QED BY <1>1, <1>2, <1>3 DEF JwksInv

\* The answer to a request that looks its key up is a current one.
LEMMA AnswerIsCurrent ==
  ASSUME JwksInv, NEW c \in Verifiers, NEW ok \in BOOLEAN, caller[c].pc = "match",
         ok <=> caller[c].kid \in caller[c].got, UNCHANGED healthy, AnswerVerifier(c, ok)
  PROVE  KeysAreCurrent'
<1> DEFINE k == caller[c].kid
           v == [ok |-> ok, served |-> k \in served \cup SteadyKids,
                 age |-> IF k \in RotatingKids THEN keyAge[k] ELSE Old]
<1>1. k \in Kids /\ GotKnown(caller[c]) /\ verdict' = v
  BY DEF JwksInv, JwksTypeOK, AnswerVerifier
<1>2. ok /\ k \notin served \cup SteadyKids => v.age <= MaxStale + FetchTimeout
  <2> SUFFICES ASSUME ok, k \notin served, k \notin SteadyKids PROVE keyAge[k] <= MaxStale + FetchTimeout
    BY <1>1 DEF Kids
  <2> QED BY <1>1 DEF GotKnown, Confirmed, Kids
<1>3. healthy /\ ~ok /\ k \in served \cup SteadyKids => v.age <= Lifespan + FetchTimeout
  <2> SUFFICES ASSUME healthy, ~ok, k \in served \cup SteadyKids PROVE v.age <= Lifespan + FetchTimeout
    OBVIOUS
  <2>1. SteadyKids \subseteq caller[c].got /\ k \notin caller[c].got
    BY <1>1 DEF GotKnown, Missed
  <2>2. k \in served /\ k \in RotatingKids
    BY <2>1 DEF JwksInv, JwksTypeOK
  <2>3. keyAge[k] <= Lifespan + FetchTimeout
    BY <1>1, <2>1, <2>2 DEF GotKnown, Missed
  <2> QED BY <2>2, <2>3
<1>4. v.ok = ok /\ v.served = (k \in served \cup SteadyKids)
  OBVIOUS
<1> HIDE DEF k, v
<1> QED BY <1>1, <1>2, <1>3, <1>4 DEF KeysAreCurrent, AcceptedKeyConfirmed, RejectionBounded

\* A step that leaves the endpoint, the sets and the fetch alone.
LEMMA VerifierStep ==
  ASSUME JwksInv, NEW c \in Verifiers, NEW q \in CallerStates, caller' = [caller EXCEPT ![c] = q],
         GotKnown(q), UNCHANGED <<endpoint, cache, validated>>, forcedAge' \in Ages,
         flight' \in FlightStates, flight' = flight \/ flight'.pc = "out", KeysAreCurrent'
  PROVE  JwksInv'
<1>1. JwksTypeOK'
  BY DEF JwksInv, JwksTypeOK, endpoint, CallerStates, FlightStates
<1>2. FlightKnown'
  <2>1. CASE flight' = flight
    BY <2>1 DEF JwksInv, FlightKnown, Confirmed, Missed, endpoint
  <2>2. CASE flight'.pc = "out"
    BY <2>2 DEF FlightKnown
  <2> QED BY <2>1, <2>2
<1>3. SetsKnown'
  BY DEF JwksInv, SetsKnown, Confirmed, Missed, endpoint
<1>4. ASSUME NEW d \in Verifiers PROVE GotKnown(caller[d])'
  <2>1. GotKnown(caller'[d])
    BY DEF JwksInv, JwksTypeOK
  <2> QED BY <2>1 DEF GotKnown, Confirmed, Missed, endpoint
<1> QED BY <1>1, <1>2, <1>3, <1>4 DEF JwksInv

LEMMA JwksKeeps == JwksInv /\ [JwksNext]_jwksVars => JwksInv'
<1> SUFFICES ASSUME JwksInv, [JwksNext]_jwksVars PROVE JwksInv'
  OBVIOUS
<1>0. /\ served \subseteq RotatingKids /\ keyAge \in [RotatingKids -> Ages] /\ healthy \in BOOLEAN
      /\ cache \in KeyRecords /\ validated \in KeyRecords /\ forcedAge \in Ages
      /\ flight \in FlightStates /\ caller \in [Verifiers -> CallerStates]
      /\ FlightKnown /\ SetsKnown /\ \A c \in Verifiers : GotKnown(caller[c])
  BY DEF JwksInv, JwksTypeOK, FlightStates, CallerStates
<1>1. ASSUME UNCHANGED jwksVars PROVE JwksInv'
  BY <1>1 DEF jwksVars, JwksInv, JwksTypeOK, FlightKnown, SetsKnown, GotKnown, Confirmed, Missed, KeysAreCurrent,
     AcceptedKeyConfirmed, RejectionBounded
<1>2. ASSUME NEW c \in Verifiers, NEW k \in Kids, Verify(c, k) PROVE JwksInv'
  <2> DEFINE q == [pc |-> "ask", kid |-> k, refresh |-> FALSE, got |-> {}]
  <2>1. q \in CallerStates /\ q.pc = "ask"
    BY DEF CallerStates
  <2>2. KeysAreCurrent'
    BY <1>2, NoVerdictIsCurrent DEF Verify, KeysAreCurrent, AcceptedKeyConfirmed, RejectionBounded, NoVerdict
  <2> QED BY <1>0, <1>2, <2>1, <2>2, VerifierStep DEF Verify, GotKnown
<1>3. ASSUME verdict' = NoVerdict PROVE KeysAreCurrent'
  BY <1>3 DEF KeysAreCurrent, AcceptedKeyConfirmed, RejectionBounded, NoVerdict
<1>4. ASSUME NEW c \in Verifiers, GetJwkSet(c) PROVE JwksInv'
  <2>1. forcedAge' \in Ages /\ UNCHANGED <<endpoint, cache, validated>> /\ verdict' = NoVerdict
    <3>1. 0 \in Ages
      BY OldIsOld DEF Ages
    <3> QED BY <1>0, <1>4, <3>1 DEF GetJwkSet, Goes
  <2>2. ASSUME HasCached, caller' = [caller EXCEPT ![c].pc = "match", ![c].got = cache.keys], UNCHANGED flight
        PROVE  JwksInv'
    <3> DEFINE q == [caller[c] EXCEPT !.pc = "match", !.got = cache.keys]
    <3>1. q \in CallerStates /\ q.got = cache.keys /\ caller' = [caller EXCEPT ![c] = q]
      BY <1>0, <2>2 DEF CallerStates, KeyRecords
    <3>2. cache.ours /\ cache.age < Lifespan /\ validated.age <= MaxStale /\ cache.keys = validated.keys
          /\ cache.age \in Nat /\ validated.age \in Nat
      BY <1>0, <2>2, OldIsOld DEF HasCached, FreshEnough, SetsKnown, KeyRecords, Ages
    <3>3. Confirmed(cache.keys, MaxStale + FetchTimeout)
      <4> SUFFICES ASSUME NEW k \in cache.keys \cap RotatingKids, k \notin served
                   PROVE  keyAge[k] <= MaxStale + FetchTimeout
        BY DEF Confirmed
      <4>1. keyAge[k] <= validated.age + FetchTimeout /\ keyAge[k] \in Nat
        BY <1>0, <3>2, OldIsOld DEF SetsKnown, Confirmed, Ages
      <4> QED BY <3>2, <4>1, OldIsOld
    <3>4. healthy => Missed(cache.keys, Lifespan + FetchTimeout)
      <4> SUFFICES ASSUME healthy PROVE Missed(cache.keys, Lifespan + FetchTimeout)
        OBVIOUS
      <4>1. Missed(cache.keys, cache.age + FetchTimeout)
        BY <1>0, <3>2 DEF SetsKnown
      <4>2. ASSUME NEW k \in served, k \notin cache.keys PROVE keyAge[k] <= Lifespan + FetchTimeout
        <5>1. keyAge[k] <= cache.age + FetchTimeout /\ keyAge[k] \in Nat
          BY <1>0, <4>1, <4>2, OldIsOld DEF Missed, Ages
        <5> QED BY <3>2, <5>1, OldIsOld
      <4> QED BY <4>1, <4>2 DEF Missed
    <3>5. GotKnown(q)
      BY <3>1, <3>3, <3>4 DEF GotKnown
    <3> HIDE DEF q
    <3> QED BY <1>0, <1>3, <2>1, <2>2, <3>1, <3>5, VerifierStep
  <2>3. ASSUME NEW pc \in {"waiting", "leading"}, Goes(c, pc), flight' \in FlightStates,
               flight' = flight \/ flight'.pc = "out"
        PROVE  JwksInv'
    <3> DEFINE q == [caller[c] EXCEPT !.pc = pc]
    <3>1. q \in CallerStates /\ q.pc # "match" /\ caller' = [caller EXCEPT ![c] = q]
      BY <1>0, <2>3 DEF CallerStates, Goes
    <3> HIDE DEF q
    <3> QED BY <1>0, <1>3, <2>1, <2>3, <3>1, VerifierStep DEF GotKnown
  <2>4. [NoFlight EXCEPT !.pc = "out"] \in FlightStates /\ [NoFlight EXCEPT !.pc = "out"].pc = "out"
    BY JwksConstants DEF FlightStates, NoFlight
  <2> QED BY <1>0, <1>4, <2>2, <2>3, <2>4 DEF GetJwkSet
<1>5. ASSUME NEW c \in Verifiers, Match(c) PROVE JwksInv'
  <2>1. UNCHANGED <<endpoint, cache, validated, forcedAge, flight>> /\ caller[c].pc = "match"
    BY <1>5 DEF Match
  <2>2. ASSUME NEW ok \in BOOLEAN, ok <=> caller[c].kid \in caller[c].got, AnswerVerifier(c, ok) PROVE JwksInv'
    <3>1. KeysAreCurrent'
      BY <2>1, <2>2, AnswerIsCurrent DEF endpoint
    <3>2. GotKnown(IdleCaller)
      BY JwksConstants DEF GotKnown
    <3> QED BY <1>0, <2>1, <2>2, <3>1, <3>2, VerifierStep, JwksConstants DEF AnswerVerifier
  <2>3. ASSUME caller' = [caller EXCEPT ![c] = [caller[c] EXCEPT !.pc = "ask", !.refresh = TRUE, !.got = {}]],
               verdict' = NoVerdict
        PROVE  JwksInv'
    <3> DEFINE q == [caller[c] EXCEPT !.pc = "ask", !.refresh = TRUE, !.got = {}]
    <3>1. q \in CallerStates /\ q.pc = "ask"
      BY <1>0 DEF CallerStates
    <3>2. caller' = [caller EXCEPT ![c] = q]
      BY <2>3
    <3> HIDE DEF q
    <3> QED BY <1>0, <1>3, <2>1, <2>3, <3>1, <3>2, VerifierStep DEF GotKnown
  <2> QED BY <1>5, <2>2, <2>3 DEF Match
<1>6. ASSUME EndpointAnswers PROVE JwksInv'
  <2>1. PICK read \in {served \cup SteadyKids, {}} :
          (healthy => read # {}) /\ flight' = [flight EXCEPT !.pc = "answered", !.keys = read]
    BY <1>6 DEF EndpointAnswers
  <2>2. /\ flight' \in FlightStates /\ flight'.keys = read /\ flight'.age = flight.age /\ flight'.pc = "answered"
        /\ UNCHANGED <<endpoint, cache, validated, forcedAge, caller>> /\ verdict' = NoVerdict
    BY <1>0, <1>6, <2>1 DEF FlightStates, Kids, EndpointAnswers
  <2>3. FlightKnown'
    <3>1. Confirmed(read, flight.age)
      BY <1>0, JwksAssumption DEF Confirmed
    <3>2. healthy => read # {} /\ Missed(read, flight.age)
      BY <2>1 DEF Missed
    <3> QED BY <2>2, <3>1, <3>2 DEF FlightKnown, Confirmed, Missed, endpoint
  <2>4. SetsKnown' /\ \A c \in Verifiers : GotKnown(caller[c])'
    BY <1>0, <2>2 DEF SetsKnown, GotKnown, Confirmed, Missed, endpoint
  <2>5. JwksTypeOK'
    BY <2>2 DEF JwksInv, JwksTypeOK, FlightStates, endpoint
  <2> QED BY <1>3, <2>2, <2>3, <2>4, <2>5 DEF JwksInv
<1>7. ASSUME FetchData PROVE JwksInv'
  <2>1. /\ flight.pc = "answered" /\ flight' = [flight EXCEPT !.pc = "read"] /\ cache' = [keys |-> flight.keys, age |-> 0, ours |-> FALSE]
        /\ UNCHANGED <<endpoint, validated, forcedAge, caller>> /\ verdict' = NoVerdict
    BY <1>7 DEF FetchData
  <2>2. flight' \in FlightStates /\ flight'.keys = flight.keys /\ flight'.age = flight.age /\ flight'.pc = "read"
    BY <1>0, <2>1 DEF FlightStates
  <2>3. FlightKnown'
    BY <1>0, <2>1, <2>2 DEF FlightKnown, Confirmed, Missed, endpoint
  <2>4. cache' \in KeyRecords /\ ~cache'.ours
    BY <1>0, <2>1, OldIsOld DEF FlightStates, KeyRecords, Ages
  <2>5. SetsKnown' /\ \A c \in Verifiers : GotKnown(caller[c])'
    BY <1>0, <2>1, <2>4 DEF SetsKnown, GotKnown, Confirmed, Missed, endpoint
  <2>6. JwksTypeOK'
    BY <2>1, <2>2, <2>4 DEF JwksInv, JwksTypeOK, FlightStates, endpoint
  <2> QED BY <1>3, <2>1, <2>3, <2>5, <2>6 DEF JwksInv
<1>8. ASSUME Land PROVE JwksInv'
  <2> DEFINE given == IF flight.keys # {} THEN flight.keys ELSE IF FreshEnough THEN validated.keys ELSE {}
  <2>1. /\ flight.pc = "read" /\ flight' = NoFlight /\ verdict' = NoVerdict /\ UNCHANGED <<endpoint, forcedAge>>
        /\ validated' = (IF flight.keys # {} THEN [keys |-> flight.keys, age |-> 0, ours |-> TRUE]
                         ELSE IF FreshEnough THEN validated ELSE NoSet)
        /\ cache' = (IF given # {} THEN [keys |-> given, age |-> 0, ours |-> TRUE]
                     ELSE IF validated # NoSet THEN NoSet ELSE cache)
        /\ caller' = [c \in Verifiers |-> IF caller[c].pc \in {"leading", "waiting"}
                        THEN [caller[c] EXCEPT !.pc = "match", !.got = given] ELSE caller[c]]
    BY <1>8 DEF Land
  <2>2. /\ Confirmed(flight.keys, flight.age) /\ flight.age \in 0..FetchTimeout /\ flight.keys \subseteq Kids
        /\ healthy => flight.keys # {} /\ Missed(flight.keys, flight.age)
        /\ Confirmed(validated.keys, validated.age + FetchTimeout) /\ validated.age \in Nat
        /\ \A k \in RotatingKids : keyAge[k] \in Nat
    <3>1. /\ Confirmed(flight.keys, flight.age)
          /\ healthy => flight.keys # {} /\ Missed(flight.keys, flight.age)
      BY <1>0, <2>1 DEF FlightKnown
    <3>2. flight.age \in 0..FetchTimeout /\ flight.keys \subseteq Kids
      BY <1>0 DEF FlightStates
    <3>3. Confirmed(validated.keys, validated.age + FetchTimeout)
      BY <1>0 DEF SetsKnown
    <3>4. validated.age \in Nat /\ \A k \in RotatingKids : keyAge[k] \in Nat
      BY <1>0, OldIsOld DEF KeyRecords, Ages
    <3> QED BY <3>1, <3>2, <3>3, <3>4
  <2>3. Confirmed(flight.keys, FetchTimeout) /\ (healthy => Missed(flight.keys, FetchTimeout))
    BY <1>0, <2>2, OldIsOld DEF Confirmed, Missed
  <2>4. Confirmed(given, MaxStale + FetchTimeout)
    <3>1. CASE flight.keys # {}
      BY <2>2, <2>3, <3>1, OldIsOld DEF Confirmed
    <3>2. CASE flight.keys = {} /\ FreshEnough
      BY <2>2, <3>2, OldIsOld DEF Confirmed, FreshEnough
    <3>3. CASE flight.keys = {} /\ ~FreshEnough
      BY <3>3 DEF Confirmed
    <3> QED BY <3>1, <3>2, <3>3
  <2>5. healthy => given = flight.keys /\ Missed(given, Lifespan + FetchTimeout)
    BY <1>0, <2>2, <2>3, OldIsOld DEF Missed
  <2>6. given \subseteq Kids
    BY <1>0, <2>2 DEF KeyRecords
  <2>7. validated' \in KeyRecords /\ cache' \in KeyRecords
    <3>1. \A keys \in SUBSET Kids : [keys |-> keys, age |-> 0, ours |-> TRUE] \in KeyRecords
      BY OldIsOld DEF KeyRecords, Ages
    <3>2. validated' \in KeyRecords
      BY <1>0, <2>1, <2>2, <3>1, JwksConstants
    <3> HIDE DEF given
    <3>3. cache' \in KeyRecords
      BY <1>0, <2>1, <2>6, <3>1, JwksConstants
    <3> QED BY <3>2, <3>3
  <2>8. SetsKnown'
    <3>1. Confirmed(validated'.keys, validated'.age + FetchTimeout)
      <4>1. CASE flight.keys # {}
        <5>1. validated'.keys = flight.keys /\ validated'.age = 0
          BY <2>1, <4>1
        <5>2. 0 + FetchTimeout = FetchTimeout
          BY OldIsOld
        <5> QED BY <2>3, <5>1, <5>2
      <4>2. CASE flight.keys = {} /\ FreshEnough
        BY <2>1, <2>2, <4>2
      <4>3. CASE flight.keys = {} /\ ~FreshEnough
        BY <2>1, <4>3, JwksConstants DEF Confirmed
      <4> QED BY <4>1, <4>2, <4>3
    <3>2. ASSUME cache'.ours PROVE cache'.keys = validated'.keys
      <4>1. CASE given # {}
        BY <2>1, <4>1
      <4>2. CASE given = {} /\ validated # NoSet
        BY <2>1, <3>2, <4>2, JwksConstants
      <4>3. CASE given = {} /\ validated = NoSet
        BY <1>0, <2>1, <3>2, <4>3, JwksConstants DEF SetsKnown
      <4> QED BY <4>1, <4>2, <4>3
    <3>3. ASSUME healthy PROVE Missed(cache'.keys, cache'.age + FetchTimeout)
      <4>1. cache'.keys = flight.keys /\ cache'.age = 0
        BY <2>1, <2>2, <2>5, <3>3
      <4>2. 0 + FetchTimeout = FetchTimeout
        BY OldIsOld
      <4> QED BY <2>3, <3>3, <4>1, <4>2
    <3> QED BY <2>1, <3>1, <3>2, <3>3 DEF SetsKnown, Confirmed, Missed, endpoint
  <2>9. ASSUME NEW c \in Verifiers PROVE caller'[c] \in CallerStates /\ GotKnown(caller[c])'
    <3> HIDE DEF given
    <3>1. CASE caller[c].pc \in {"leading", "waiting"}
      <4>1. caller'[c] = [caller[c] EXCEPT !.pc = "match", !.got = given]
        BY <2>1, <3>1
      <4>2. caller'[c] \in CallerStates /\ caller'[c].got = given
        BY <1>0, <2>6, <4>1 DEF CallerStates
      <4> QED BY <2>1, <2>4, <2>5, <4>2 DEF GotKnown, Confirmed, Missed, endpoint
    <3>2. CASE caller[c].pc \notin {"leading", "waiting"}
      BY <1>0, <2>1, <3>2 DEF GotKnown, Confirmed, Missed, endpoint
    <3> QED BY <3>1, <3>2
  <2>10. caller' \in [Verifiers -> CallerStates]
    <3> HIDE DEF given
    <3> QED BY <2>1, <2>9
  <2> HIDE DEF given
  <2>11. JwksTypeOK'
    BY <2>1, <2>7, <2>10, JwksConstants DEF JwksInv, JwksTypeOK, FlightStates, CallerStates, endpoint
  <2>12. FlightKnown'
    BY <2>1, JwksConstants DEF FlightKnown
  <2> QED BY <1>3, <2>1, <2>8, <2>9, <2>11, <2>12 DEF JwksInv
<1>9. ASSUME NEW k \in RotatingKids, Rotate(k) PROVE JwksInv'
  <2>1. /\ served' = (IF k \in served THEN served \ {k} ELSE served \cup {k})
        /\ keyAge' = [keyAge EXCEPT ![k] = 0] /\ verdict' = NoVerdict
        /\ UNCHANGED <<healthy, cache, validated, forcedAge, flight, caller>>
    BY <1>9 DEF Rotate
  <2>2. served' \subseteq RotatingKids /\ keyAge' \in [RotatingKids -> Ages] /\ keyAge'[k] = 0
        /\ \A j \in RotatingKids : j # k => keyAge'[j] = keyAge[j] /\ (j \in served' <=> j \in served)
    BY <1>0, <2>1, OldIsOld DEF Ages
  <2>3. ASSUME NEW keys, NEW a \in Nat, Confirmed(keys, a) PROVE Confirmed(keys, a)'
    BY <2>2, <2>3 DEF Confirmed
  <2>4. ASSUME NEW keys, NEW a \in Nat, Missed(keys, a) PROVE Missed(keys, a)'
    BY <1>0, <2>2, <2>4 DEF Missed
  <2>5. flight.age \in Nat /\ validated.age + FetchTimeout \in Nat /\ cache.age + FetchTimeout \in Nat
        /\ MaxStale + FetchTimeout \in Nat /\ Lifespan + FetchTimeout \in Nat
    BY <1>0, OldIsOld DEF FlightStates, KeyRecords, Ages
  <2>6. FlightKnown' /\ SetsKnown' /\ \A c \in Verifiers : GotKnown(caller[c])'
    <3>1. FlightKnown'
      BY <1>0, <2>1, <2>3, <2>4, <2>5 DEF FlightKnown
    <3>2. SetsKnown'
      BY <1>0, <2>1, <2>3, <2>4, <2>5 DEF SetsKnown
    <3>3. \A c \in Verifiers : GotKnown(caller[c])'
      BY <1>0, <2>1, <2>3, <2>4, <2>5 DEF GotKnown
    <3> QED BY <3>1, <3>2, <3>3
  <2>7. JwksTypeOK'
    BY <2>1, <2>2 DEF JwksInv, JwksTypeOK
  <2> QED BY <1>3, <2>1, <2>6, <2>7 DEF JwksInv
<1>10. ASSUME JwksTick PROVE JwksInv'
  <2>1. /\ \A c \in Verifiers : caller[c].pc \in {"idle", "waiting", "leading"}
        /\ flight.pc = "none" \/ (flight.pc \in {"out", "answered"} /\ flight.age < FetchTimeout)
        /\ keyAge' = [k \in RotatingKids |-> Older(keyAge[k])]
        /\ cache' = [cache EXCEPT !.age = Older(cache.age)] /\ validated' = [validated EXCEPT !.age = Older(validated.age)]
        /\ forcedAge' = Older(forcedAge)
        /\ flight' = (IF flight = NoFlight THEN flight ELSE [flight EXCEPT !.age = Older(flight.age)])
        /\ verdict' = NoVerdict /\ UNCHANGED <<served, healthy, caller>>
    BY <1>10 DEF JwksTick
  <2>2. \A a \in Ages : Older(a) \in Ages /\ a <= Older(a)
    BY OldIsOld DEF Older, Ages
  <2>3. ASSUME NEW a \in Ages, NEW b \in Ages PROVE (a <= b => Older(a) <= Older(b)) /\
               (a <= b + FetchTimeout => Older(a) <= Older(b) + FetchTimeout)
    BY OldIsOld DEF Older, Ages
  <2>4. keyAge' \in [RotatingKids -> Ages] /\ \A k \in RotatingKids : keyAge'[k] = Older(keyAge[k]) /\ keyAge[k] \in Ages
    BY <1>0, <2>1, <2>2
  <2>5. /\ cache.age \in Ages /\ cache'.age = Older(cache.age) /\ cache'.keys = cache.keys /\ cache'.ours = cache.ours /\ cache' \in KeyRecords
        /\ validated.age \in Ages /\ validated'.age = Older(validated.age) /\ validated'.keys = validated.keys /\ validated' \in KeyRecords
    BY <1>0, <2>1, <2>2 DEF KeyRecords
  <2>6. flight.age \in Ages
    BY <1>0, OldIsOld DEF FlightStates, Ages
  <2>7. ASSUME NEW keys, NEW a \in Ages
        PROVE  /\ Confirmed(keys, a) => Confirmed(keys, Older(a))'
               /\ Confirmed(keys, a + FetchTimeout) => Confirmed(keys, Older(a) + FetchTimeout)'
               /\ Missed(keys, a) => Missed(keys, Older(a))'
               /\ Missed(keys, a + FetchTimeout) => Missed(keys, Older(a) + FetchTimeout)'
    BY <1>0, <2>1, <2>3, <2>4 DEF Confirmed, Missed, Older
  <2>8. /\ flight' \in FlightStates /\ flight'.pc = flight.pc /\ flight'.keys = flight.keys
        /\ flight.pc # "none" => flight'.age = Older(flight.age)
        /\ flight.pc = "none" => flight' = NoFlight
    <3>1. CASE flight = NoFlight
      BY <1>0, <2>1, <3>1, JwksConstants
    <3>2. CASE flight # NoFlight
      <4>1. flight.pc # "none" /\ flight.age < FetchTimeout
        BY <1>0, <2>1, <3>2 DEF FlightKnown
      <4>2. Older(flight.age) \in 0..FetchTimeout
        BY <1>0, <4>1, OldIsOld DEF Older, FlightStates
      <4>3. flight' = [flight EXCEPT !.age = Older(flight.age)]
        BY <2>1, <3>2
      <4> QED BY <1>0, <4>1, <4>2, <4>3 DEF FlightStates
    <3> QED BY <3>1, <3>2
  <2>9. FlightKnown'
    BY <1>0, <2>1, <2>6, <2>7, <2>8 DEF FlightKnown
  <2>10. SetsKnown'
    BY <1>0, <2>1, <2>5, <2>7 DEF SetsKnown
  <2>11. \A c \in Verifiers : GotKnown(caller[c])'
    BY <2>1 DEF GotKnown
  <2>12. JwksTypeOK'
    BY <1>0, <2>1, <2>2, <2>4, <2>5, <2>8 DEF JwksTypeOK, FlightStates, CallerStates
  <2> QED BY <1>3, <2>1, <2>9, <2>10, <2>11, <2>12 DEF JwksInv
<1> QED BY <1>1, <1>2, <1>4, <1>5, <1>6, <1>7, <1>8, <1>9, <1>10 DEF JwksNext

(* However rotations, failures, fetches and requests interleave, a token is never
   accepted on a key withdrawn longer ago than JWKS_MAX_STALE_SECONDS and one
   fetch, nor, while the endpoint answers, refused on a key published longer
   ago than the cache's lifespan and one fetch (_SharedJWKClient). *)
THEOREM SigningKeysAreCurrent == JwksSpec => []KeysAreCurrent
<1>1. JwksInv => KeysAreCurrent
  BY DEF JwksInv
<1> QED BY <1>1, JwksInitially, JwksKeeps, PTL DEF JwksSpec

-----------------------------------------------------------------------------
(***************************************************************************)
(* Startup.  Replicas of any number of builds migrate one schema: every    *)
(* version runs once, and what a serving replica was told of the schema    *)
(* stays true (MigratedOnce, ServingFitsSchema).  The ledger only grows    *)
(* and a recorded checksum never changes (LedgerGrows), because the one    *)
(* who writes it holds the lock since it read it.                          *)
(***************************************************************************)
LedgerTrue ==
  /\ Len(ran) = Len(ledger)
  /\ \A v \in DOMAIN ledger \ old : ledger[v] = ran[v] /\ ledger[v] # NoChecksum

\* The texts of a deployment are the recorded ones.
Fits(d) == Len(d.texts) <= Len(ledger) /\ \A v \in DOMAIN d.texts : ledger[v] = d.texts[v]

\* What a transaction read under the lock still holds, and it has run the versions that follow.
InTransaction(r, p) ==
  /\ schemaLock = r /\ p.base = Len(ledger)
  /\ \A v \in DOMAIN ledger \cap DOMAIN p.d.texts : ChecksumHolds(ledger[v], p.d.texts[v])
  /\ \A i \in 1..Len(p.rows) : p.base + i \in DOMAIN p.d.texts /\ p.rows[i] = p.d.texts[p.base + i]

PodTrue(r, p) ==
  /\ p.at = "failed" => p.why # "duplicate"
  /\ p.at = "applying" => InTransaction(r, p)
  /\ p.at \in {"assembling", "serving"} /\ p.d.url /\ p.d.auto => Fits(p.d)
  /\ p.at = "serving" /\ p.checked => Len(p.d.texts) <= Len(ledger)

StartupInv == StartupTypeOK /\ LedgerTrue /\ \A r \in Replicas : PodTrue(r, pod[r])

\* A step may lengthen the ledger and fill a checksum in; it changes none.
LedgerGrows ==
  /\ ledger' \in Seq(Recorded) /\ Len(ledger) <= Len(ledger')
  /\ \A v \in DOMAIN ledger : ledger[v] # NoChecksum => ledger'[v] = ledger[v]

LEMMA ReleaseTexts ==
  ASSUME NEW d \in Releases
  PROVE  /\ d.texts \in Seq(STRING) /\ Len(d.texts) \in Nat /\ DOMAIN d.texts = 1..Len(d.texts)
         /\ \A v \in DOMAIN d.texts : d.texts[v] \in STRING /\ d.texts[v] # NoChecksum
<1>1. d.texts \in Seq(STRING) /\ \A v \in DOMAIN d.texts : d.texts[v] # NoChecksum
  BY StartupAssumption
<1> QED BY <1>1, LenProperties, ElementOfSeq

LEMMA LedgerShape ==
  ASSUME StartupTypeOK
  PROVE  /\ Len(ledger) \in Nat /\ DOMAIN ledger = 1..Len(ledger) /\ Len(ran) \in Nat /\ DOMAIN ran = 1..Len(ran)
         /\ \A v \in DOMAIN ledger : ledger[v] \in Recorded
<1>1. ledger \in Seq(Recorded) /\ ran \in Seq(STRING)
  BY DEF StartupTypeOK
<1> QED BY <1>1, LenProperties, ElementOfSeq

\* What fits goes on fitting as the ledger grows.
LEMMA FitsGrows ==
  ASSUME StartupTypeOK, LedgerGrows, NEW d \in Releases, Fits(d)
  PROVE  Fits(d)'
<1>1. Len(ledger') \in Nat
  BY LenProperties DEF LedgerGrows
<1>2. Len(d.texts) <= Len(ledger')
  BY <1>1, ReleaseTexts, LedgerShape DEF Fits, LedgerGrows
<1>3. ASSUME NEW v \in DOMAIN d.texts PROVE ledger'[v] = d.texts[v]
  <2>1. v \in DOMAIN ledger /\ ledger[v] = d.texts[v] /\ ledger[v] # NoChecksum
    BY ReleaseTexts, LedgerShape DEF Fits
  <2> QED BY <2>1 DEF LedgerGrows
<1> QED BY <1>2, <1>3 DEF Fits

LEMMA PodGrows ==
  ASSUME StartupTypeOK, LedgerGrows, NEW r \in Replicas, NEW p \in Pods, PodTrue(r, p), p.at # "applying"
  PROVE  PodTrue(r, p)'
<1>1. ASSUME p.at \in {"assembling", "serving"}, p.d.url, p.d.auto PROVE Fits(p.d)'
  <2>1. p.d \in Releases
    BY <1>1 DEF Pods
  <2> QED BY <1>1, <2>1, FitsGrows DEF PodTrue
<1>2. ASSUME p.at = "serving", p.checked PROVE Len(p.d.texts) <= Len(ledger')
  <2>1. p.d \in Releases /\ Len(p.d.texts) <= Len(ledger)
    BY <1>2 DEF Pods, PodTrue
  <2>2. Len(ledger') \in Nat
    BY LenProperties DEF LedgerGrows
  <2> QED BY <2>1, <2>2, ReleaseTexts, LedgerShape DEF LedgerGrows
<1> QED BY <1>1, <1>2 DEF PodTrue

\* A step of one replica that leaves the schema alone.
LEMMA PodStep ==
  ASSUME StartupInv, NEW r \in Replicas, NEW x \in Pods, pod' = [pod EXCEPT ![r] = x],
         UNCHANGED <<ledger, ran, old, reachable, realmGroups>>, schemaLock' \in Replicas \cup {NoReplica},
         \A s \in Replicas : s # r /\ schemaLock = s => schemaLock' = s,
         PodTrue(r, x)'
  PROVE  StartupInv'
<1>1. StartupTypeOK'
  BY DEF StartupInv, StartupTypeOK
<1>2. LedgerTrue'
  BY DEF StartupInv, LedgerTrue
<1>3. ASSUME NEW s \in Replicas PROVE PodTrue(s, pod[s])'
  <2>1. CASE s = r
    BY <2>1 DEF StartupInv, StartupTypeOK
  <2>2. CASE s # r
    <3>1. pod'[s] = pod[s] /\ PodTrue(s, pod[s])
      BY <2>2 DEF StartupInv, StartupTypeOK
    <3>2. InTransaction(s, pod[s]) => InTransaction(s, pod[s])'
      BY <2>2, <3>1 DEF InTransaction, ChecksumHolds
    <3> QED BY <3>1, <3>2 DEF PodTrue, Fits
  <2> QED BY <2>1, <2>2
<1> QED BY <1>1, <1>2, <1>3 DEF StartupInv

LEMMA FailStep ==
  ASSUME StartupInv, NEW r \in Replicas, NEW why \in {"settings", "checksum", "gone", "behind"}, Fail(r, why),
         UNCHANGED <<ledger, ran, old, reachable, realmGroups>>, schemaLock' \in Replicas \cup {NoReplica},
         \A s \in Replicas : s # r /\ schemaLock = s => schemaLock' = s
  PROVE  StartupInv'
<1> DEFINE x == [at |-> "failed", why |-> why]
<1>1. x \in Pods /\ x.at = "failed" /\ x.why # "duplicate"
  BY DEF Pods
<1>2. PodTrue(r, x)' /\ pod' = [pod EXCEPT ![r] = x]
  BY <1>1 DEF PodTrue, Fail
<1> HIDE DEF x
<1> QED BY <1>1, <1>2, PodStep

LEMMA StartupInitially == StartupInit => StartupInv
<1> SUFFICES ASSUME StartupInit PROVE StartupInv
  OBVIOUS
<1>1. PICK texts \in Legacy : ran = texts /\ ledger = [v \in DOMAIN texts |-> NoChecksum] /\ old = DOMAIN texts
  BY DEF StartupInit
<1>2. texts \in Seq(STRING) /\ Len(texts) \in Nat /\ DOMAIN texts = 1..Len(texts)
  BY StartupAssumption, LenProperties
<1>3. ledger \in Seq(Recorded) /\ Len(ledger) = Len(texts) /\ DOMAIN ledger = DOMAIN texts
  BY <1>1, <1>2 DEF Recorded
<1>4. StartupTypeOK
  <2>1. Down \in Pods
    BY DEF Down, Pods
  <2> QED BY <1>1, <1>2, <1>3, <2>1 DEF StartupInit, StartupTypeOK
<1>5. LedgerTrue
  BY <1>1, <1>3 DEF LedgerTrue
<1>6. \A r \in Replicas : PodTrue(r, pod[r])
  BY DEF StartupInit, Down, PodTrue
<1> QED BY <1>4, <1>5, <1>6 DEF StartupInv

\* The rows of a build's transaction, committed.
LEMMA CommitLedger ==
  ASSUME StartupInv, NEW d \in Releases, NEW added \in Seq(STRING),
         \A v \in DOMAIN ledger \cap DOMAIN d.texts : ChecksumHolds(ledger[v], d.texts[v]),
         \A i \in 1..Len(added) : Len(ledger) + i \in DOMAIN d.texts /\ added[i] = d.texts[Len(ledger) + i],
         Len(d.texts) <= Len(ledger) + Len(added),
         ledger' = Backfilled(ledger, d.texts) \o added, ran' = ran \o added, UNCHANGED old
  PROVE  LedgerGrows /\ LedgerTrue' /\ Fits(d)' /\ ran' \in Seq(STRING) /\ old' \subseteq DOMAIN ledger'
<1> DEFINE back == Backfilled(ledger, d.texts)
<1>1. /\ Len(ledger) \in Nat /\ DOMAIN ledger = 1..Len(ledger) /\ Len(ran) = Len(ledger) /\ ran \in Seq(STRING)
      /\ \A v \in DOMAIN ledger : ledger[v] \in Recorded
      /\ Len(added) \in Nat /\ DOMAIN added = 1..Len(added)
  BY LedgerShape, LenProperties DEF StartupInv, StartupTypeOK, LedgerTrue
<1>2. back \in Seq(Recorded) /\ Len(back) = Len(ledger) /\ DOMAIN back = DOMAIN ledger
      /\ \A v \in DOMAIN ledger : back[v] = IF v \in DOMAIN d.texts THEN d.texts[v] ELSE ledger[v]
  <2>1. \A v \in DOMAIN ledger : (IF v \in DOMAIN d.texts THEN d.texts[v] ELSE ledger[v]) \in Recorded
    BY <1>1, ReleaseTexts DEF Recorded
  <2> QED BY <1>1, <2>1 DEF Backfilled
<1>3. added \in Seq(Recorded)
  BY ElementOfSeq, <1>1 DEF Recorded
<1> HIDE DEF back
<1>4. ledger' = back \o added
  BY DEF back
<1>5. ledger' \in Seq(Recorded) /\ Len(ledger') = Len(ledger) + Len(added)
      /\ \A i \in 1..Len(ledger) + Len(added) : ledger'[i] = IF i <= Len(ledger) THEN back[i] ELSE added[i - Len(ledger)]
  <2>1. /\ back \o added \in Seq(Recorded) /\ Len(back \o added) = Len(back) + Len(added)
        /\ \A i \in 1..Len(back) + Len(added) :
             (back \o added)[i] = IF i <= Len(back) THEN back[i] ELSE added[i - Len(back)]
    BY ONLY <1>2, <1>3, ConcatProperties, Zenon
  <2> QED BY <1>2, <1>4, <2>1
<1>6. ran' \in Seq(STRING) /\ Len(ran') = Len(ledger) + Len(added)
      /\ \A i \in 1..Len(ledger) + Len(added) : ran'[i] = IF i <= Len(ledger) THEN ran[i] ELSE added[i - Len(ledger)]
  <2>0. added \in Seq(STRING)
    OBVIOUS
  <2>1. /\ ran \o added \in Seq(STRING) /\ Len(ran \o added) = Len(ran) + Len(added)
        /\ \A i \in 1..Len(ran) + Len(added) :
             (ran \o added)[i] = IF i <= Len(ran) THEN ran[i] ELSE added[i - Len(ran)]
    BY ONLY <1>1, <2>0, ConcatProperties, Zenon
  <2> QED BY <1>1, <2>1
<1>7. DOMAIN ledger' = 1..Len(ledger) + Len(added)
  BY <1>5, LenProperties
<1>8. LedgerGrows
  <2>1. ASSUME NEW v \in DOMAIN ledger, ledger[v] # NoChecksum PROVE ledger'[v] = ledger[v]
    <3>1. ledger'[v] = back[v]
      BY <1>1, <1>5
    <3> QED BY <1>2, <2>1, <3>1 DEF ChecksumHolds
  <2> QED BY <1>1, <1>5, <2>1 DEF LedgerGrows
<1>9. LedgerTrue'
  <2>1. ASSUME NEW v \in DOMAIN ledger', v \notin old PROVE ledger'[v] = ran'[v] /\ ledger'[v] # NoChecksum
    <3>1. CASE v <= Len(ledger)
      <4>1. v \in DOMAIN ledger /\ ledger[v] = ran[v] /\ ledger[v] # NoChecksum
        BY <1>1, <1>7, <2>1, <3>1 DEF StartupInv, LedgerTrue
      <4> QED BY <1>1, <1>6, <1>7, <1>8, <3>1, <4>1 DEF LedgerGrows
    <3>2. CASE ~(v <= Len(ledger))
      <4>1. v - Len(ledger) \in 1..Len(added) /\ Len(ledger) + (v - Len(ledger)) = v
        BY <1>1, <1>7, <3>2
      <4>2. added[v - Len(ledger)] = d.texts[v] /\ v \in DOMAIN d.texts
        BY <4>1
      <4> QED BY <1>5, <1>6, <1>7, <3>2, <4>2, ReleaseTexts
    <3> QED BY <3>1, <3>2
  <2> QED BY <1>5, <1>6, <2>1 DEF LedgerTrue
<1>10. Fits(d)'
  <2>1. ASSUME NEW v \in DOMAIN d.texts PROVE ledger'[v] = d.texts[v]
    <3>0. v \in 1..Len(ledger) + Len(added)
      BY <1>1, ReleaseTexts
    <3>1. CASE v <= Len(ledger)
      BY <1>1, <1>2, <1>5, <3>0, <3>1
    <3>2. CASE ~(v <= Len(ledger))
      <4>1. v - Len(ledger) \in 1..Len(added) /\ Len(ledger) + (v - Len(ledger)) = v
        BY <1>1, <3>0, <3>2
      <4> QED BY <1>5, <3>0, <3>2, <4>1
    <3> QED BY <3>1, <3>2
  <2> QED BY <1>5, <2>1 DEF Fits
<1>11. old' \subseteq DOMAIN ledger'
  BY <1>1, <1>7 DEF StartupInv, StartupTypeOK
<1> QED BY <1>6, <1>8, <1>9, <1>10, <1>11

LEMMA StartupKeeps == StartupInv /\ [StartupNext]_startupVars => StartupInv'
<1> SUFFICES ASSUME StartupInv, [StartupNext]_startupVars PROVE StartupInv'
  OBVIOUS
<1>0. /\ StartupTypeOK /\ LedgerTrue /\ pod \in [Replicas -> Pods] /\ schemaLock \in Replicas \cup {NoReplica}
      /\ \A r \in Replicas : PodTrue(r, pod[r])
      /\ Len(ledger) \in Nat /\ DOMAIN ledger = 1..Len(ledger)
  BY LedgerShape DEF StartupInv, StartupTypeOK
<1>1. ASSUME UNCHANGED startupVars PROVE StartupInv'
  BY <1>0, <1>1 DEF startupVars, StartupInv, StartupTypeOK, LedgerTrue, PodTrue, InTransaction, ChecksumHolds, Fits
<1>2. ASSUME NEW r \in Replicas, NEW d \in Releases, RollOut(r, d) PROVE StartupInv'
  <2> DEFINE x == [at |-> "building", d |-> d]
  <2>1. x \in Pods /\ x.at = "building"
    BY DEF Pods
  <2>2. PodTrue(r, x)'
    BY <2>1 DEF PodTrue
  <2> HIDE DEF x
  <2>3. pod' = [pod EXCEPT ![r] = x]
    BY <1>2 DEF RollOut, x
  <2> QED BY <1>0, <1>2, <2>1, <2>2, <2>3, PodStep DEF RollOut
<1>3. ASSUME NEW r \in Replicas, Build(r) PROVE StartupInv'
  <2>1. CASE Fail(r, "settings")
    BY <1>0, <1>3, <2>1, FailStep DEF Build
  <2>2. CASE ~Fail(r, "settings")
    <3> DEFINE place == IF D(r).url /\ D(r).auto THEN "migrating" ELSE "assembling"
               x == [pod[r] EXCEPT !.at = place]
    <3>1. pod[r].at = "building" /\ Move(r, place)
      BY <1>3, <2>2 DEF Build, At
    <3>2. x \in Pods /\ x.at = place /\ x.d = D(r)
      BY <1>0, <3>1 DEF Pods, D
    <3>3. pod' = [pod EXCEPT ![r] = x]
      BY <1>0, <3>1 DEF Move
    <3>4. PICK y \in Pods : y = x
      BY <3>2
    <3>5. PodTrue(r, x)
      BY <1>0, <3>1, <3>2 DEF PodTrue
    <3> HIDE DEF x
    <3>6. PodTrue(r, y)'
      BY <1>3, <3>2, <3>4, <3>5 DEF PodTrue, Build, Fits
    <3> QED BY <1>0, <1>3, <3>3, <3>4, <3>6, PodStep DEF Build
  <2> QED BY <2>1, <2>2
<1>4. ASSUME NEW r \in Replicas, BeginMigration(r) PROVE StartupInv'
  <2>0. pod[r].at = "migrating" /\ schemaLock = NoReplica /\ UNCHANGED <<ledger, ran, old, reachable, realmGroups>>
    BY <1>4 DEF BeginMigration, At
  <2>1. CASE Edited(r)
    BY <1>0, <1>4, <2>1, FailStep DEF BeginMigration
  <2>2. CASE ~Edited(r)
    <3> DEFINE x == Transaction(r)
    <3>1. schemaLock' = r /\ pod' = [pod EXCEPT ![r] = x]
      BY <1>4, <2>2 DEF BeginMigration
    <3>2. pod[r].d \in Releases
      BY <1>0, <2>0 DEF Pods
    <3>3. x \in Pods /\ x.at = "applying" /\ x.d = D(r) /\ x.base = Len(ledger) /\ x.rows = <<>>
      <4>1. <<>> \in Seq(STRING)
        BY EmptySeq
      <4> QED BY <1>0, <3>2, <4>1 DEF Transaction, D, Pods
    <3>4. PICK y \in Pods : y = x
      BY <3>3
    <3> HIDE DEF x
    <3>41. InTransaction(r, y)'
      BY <2>0, <2>2, <3>1, <3>3, <3>4 DEF InTransaction, Edited, ChecksumHolds, D
    <3>5. PodTrue(r, y)'
      BY <3>3, <3>4, <3>41 DEF PodTrue
    <3>6. \A s \in Replicas : s # r /\ schemaLock = s => schemaLock' = s
      BY <2>0, StartupAssumption
    <3> QED BY <2>0, <3>1, <3>4, <3>5, <3>6, PodStep
  <2> QED BY <2>1, <2>2
\* What a transaction is.
<1>5. ASSUME NEW r \in Replicas, pod[r].at = "applying"
      PROVE  /\ pod[r] \in [at : {"applying"}, d : Releases, base : Nat, rows : Seq(STRING)]
             /\ InTransaction(r, pod[r]) /\ Len(pod[r].rows) \in Nat
  <2>1. pod[r] \in [at : {"applying"}, d : Releases, base : Nat, rows : Seq(STRING)] /\ InTransaction(r, pod[r])
    BY <1>0, <1>5 DEF Pods, PodTrue
  <2> QED BY <2>1, LenProperties
<1>6. ASSUME NEW r \in Replicas, ApplyNext(r) PROVE StartupInv'
  <2> DEFINE p == pod[r]
             n == p.base + Len(p.rows) + 1
             added == Append(p.rows, p.d.texts[n])
             x == [p EXCEPT !.rows = added]
  <2>1. /\ p.at = "applying" /\ p.base + Len(p.rows) < Len(p.d.texts)
        /\ UNCHANGED <<ledger, ran, old, schemaLock, reachable, realmGroups>>
    BY <1>6 DEF ApplyNext, At, Outstanding, D
  <2>2. /\ p \in [at : {"applying"}, d : Releases, base : Nat, rows : Seq(STRING)]
        /\ InTransaction(r, p) /\ Len(p.rows) \in Nat
    BY <1>5, <2>1
  <2>3. n \in DOMAIN p.d.texts /\ p.d.texts[n] \in STRING
    BY <2>1, <2>2, ReleaseTexts
  <2>4. added \in Seq(STRING) /\ Len(added) = Len(p.rows) + 1 /\ (\A i \in 1..Len(p.rows) : added[i] = p.rows[i])
        /\ added[Len(p.rows) + 1] = p.d.texts[n]
    BY <2>2, <2>3, AppendProperties
  <2>5. pod' = [pod EXCEPT ![r] = x]
    BY <1>0, <1>6 DEF ApplyNext, D
  <2> HIDE DEF added
  <2>6. x \in Pods /\ x.at = "applying" /\ x.d = p.d /\ x.base = p.base /\ x.rows = added
    BY <2>2, <2>4 DEF Pods
  <2>7. \A i \in 1..Len(added) : p.base + i \in DOMAIN p.d.texts /\ added[i] = p.d.texts[p.base + i]
    <3> SUFFICES ASSUME NEW i \in 1..Len(added) PROVE p.base + i \in DOMAIN p.d.texts /\ added[i] = p.d.texts[p.base + i]
      OBVIOUS
    <3>1. CASE i = Len(p.rows) + 1
      <4>1. p.base + i = n
        BY <2>2, <3>1
      <4> QED BY <2>3, <2>4, <3>1, <4>1
    <3>2. CASE i # Len(p.rows) + 1
      <4>1. i \in 1..Len(p.rows)
        BY <2>2, <2>4, <3>2
      <4> QED BY <2>2, <2>4, <4>1 DEF InTransaction
    <3> QED BY <3>1, <3>2
  <2>8. InTransaction(r, x)
    BY <2>2, <2>6, <2>7 DEF InTransaction
  <2>9. PICK y \in Pods : y = x
    BY <2>6
  <2> HIDE DEF x
  <2>10. PodTrue(r, y)'
    BY <2>1, <2>6, <2>8, <2>9 DEF PodTrue, InTransaction, ChecksumHolds
  <2> QED BY <1>0, <2>1, <2>5, <2>9, <2>10, PodStep
<1>7. ASSUME NEW r \in Replicas, CommitMigration(r) PROVE StartupInv'
  <2>0. PICK p : p = pod[r]
    OBVIOUS
  <2> DEFINE x == [at |-> "assembling", d |-> p.d]
  <2>1. p.at = "applying" /\ ~(p.base + Len(p.rows) < Len(p.d.texts)) /\ UNCHANGED <<old, reachable, realmGroups>>
        /\ schemaLock' = (IF schemaLock = r THEN NoReplica ELSE schemaLock)
    BY <1>7, <2>0 DEF CommitMigration, At, Outstanding, D
  <2>2. p \in [at : {"applying"}, d : Releases, base : Nat, rows : Seq(STRING)]
        /\ InTransaction(r, p) /\ Len(p.rows) \in Nat
    BY <1>5, <2>0, <2>1
  <2>3. ledger' = Backfilled(ledger, p.d.texts) \o p.rows /\ ran' = ran \o p.rows /\ pod' = [pod EXCEPT ![r] = x]
    BY <1>7, <2>0, <2>2 DEF CommitMigration, InTransaction, D
  <2>4. Len(p.d.texts) <= Len(ledger) + Len(p.rows)
    BY <1>0, <2>1, <2>2, ReleaseTexts DEF InTransaction
  <2>5. LedgerGrows /\ LedgerTrue' /\ Fits(p.d)' /\ ran' \in Seq(STRING) /\ old' \subseteq DOMAIN ledger'
    BY <2>1, <2>2, <2>3, <2>4, CommitLedger DEF InTransaction
  <2>6. x \in Pods /\ x.at = "assembling" /\ x.d = p.d
    BY <2>2 DEF Pods
  <2> HIDE DEF x
  <2>7. StartupTypeOK'
    BY <1>0, <2>1, <2>3, <2>5, <2>6 DEF StartupTypeOK, LedgerGrows
  <2>8. ASSUME NEW s \in Replicas PROVE PodTrue(s, pod[s])'
    <3>1. CASE s = r
      <4>1. pod'[s] = x
        BY <1>0, <2>3, <3>1
      <4> QED BY <2>5, <2>6, <4>1 DEF PodTrue
    <3>2. CASE s # r
      <4>1. pod'[s] = pod[s]
        BY <1>0, <2>3, <3>2
      <4>2. pod[s].at # "applying"
        BY <1>5, <2>2, <3>2 DEF InTransaction
      <4>3. PodTrue(s, pod[s]) /\ pod[s] \in Pods
        BY <1>0
      <4> QED BY <1>0, <2>5, <4>1, <4>2, <4>3, PodGrows
    <3> QED BY <3>1, <3>2
  <2> QED BY <2>5, <2>7, <2>8 DEF StartupInv
<1>8. ASSUME NEW r \in Replicas, DieStarting(r) PROVE StartupInv'
  BY <1>0, <1>8, FailStep DEF DieStarting
<1>9. ASSUME NEW r \in Replicas, Serve(r) PROVE StartupInv'
  <2> DEFINE p == pod[r]
             x == [at |-> "serving", d |-> p.d, checked |-> Preflight(p.d), sawDatabase |-> reachable]
  <2>1. p.at = "assembling" /\ UNCHANGED <<ledger, ran, old, schemaLock, reachable, realmGroups>>
    BY <1>9 DEF Serve, At
  <2>2. CASE Fail(r, "settings") \/ Fail(r, "behind")
    BY <1>0, <2>1, <2>2, FailStep
  <2>3. CASE ~(Fail(r, "settings") \/ Fail(r, "behind"))
    <3>1. pod' = [pod EXCEPT ![r] = x] /\ ~(Preflight(p.d) /\ Behind(p.d))
      BY <1>9, <2>3 DEF Serve, D
    <3>2. p.d \in Releases /\ (p.d.url /\ p.d.auto => Fits(p.d))
      BY <1>0, <2>1 DEF Pods, PodTrue
    <3>3. x \in Pods /\ x.at = "serving" /\ x.d = p.d /\ x.checked = Preflight(p.d)
      <4>1. Preflight(p.d) \in BOOLEAN /\ reachable \in BOOLEAN
        BY <1>0 DEF Preflight, StartupTypeOK
      <4> QED BY <3>2, <4>1 DEF Pods
    <3> HIDE DEF x
    <3>4. Preflight(p.d) => Len(p.d.texts) <= Len(ledger)
      BY <1>0, <3>1, <3>2, ReleaseTexts DEF Behind
    <3>5. PodTrue(r, x)
      BY <3>2, <3>3, <3>4 DEF PodTrue
    <3>6. PICK y \in Pods : y = x
      BY <3>3
    <3>7. PodTrue(r, y)'
      BY <2>1, <3>3, <3>5, <3>6 DEF PodTrue, Fits
    <3> QED BY <1>0, <2>1, <3>1, <3>6, <3>7, PodStep
  <2> QED BY <2>2, <2>3
<1>10. ASSUME ApplyOutOfBand PROVE StartupInv'
  <2>1. PICK d \in Releases, checksum \in BOOLEAN :
          /\ Len(ledger) + 1 \in DOMAIN d.texts
          /\ ran' = Append(ran, d.texts[Len(ledger) + 1])
          /\ ledger' = Append(ledger, IF checksum THEN d.texts[Len(ledger) + 1] ELSE NoChecksum)
          /\ old' = IF checksum THEN old ELSE old \cup {Len(ledger) + 1}
    BY <1>10 DEF ApplyOutOfBand
  <2> DEFINE n == Len(ledger) + 1
             e == IF checksum THEN d.texts[n] ELSE NoChecksum
  <2>2. schemaLock = NoReplica /\ UNCHANGED <<schemaLock, reachable, realmGroups, pod>>
    BY <1>10 DEF ApplyOutOfBand
  <2>3. d.texts[n] \in STRING /\ d.texts[n] # NoChecksum /\ e \in Recorded
    BY <2>1, ReleaseTexts DEF Recorded
  <2>4. ledger' \in Seq(Recorded) /\ Len(ledger') = n /\ (\A i \in 1..Len(ledger) : ledger'[i] = ledger[i]) /\ ledger'[n] = e
    BY <1>0, <2>1, <2>3, AppendProperties DEF StartupTypeOK
  <2>5. ran' \in Seq(STRING) /\ Len(ran') = n /\ (\A i \in 1..Len(ledger) : ran'[i] = ran[i]) /\ ran'[n] = d.texts[n]
    BY <1>0, <2>1, <2>3, AppendProperties DEF StartupTypeOK, LedgerTrue
  <2>6. DOMAIN ledger' = 1..n
    BY <2>4, LenProperties
  <2>7. LedgerGrows
    BY <1>0, <2>4 DEF LedgerGrows
  <2>8. LedgerTrue'
    <3>1. ASSUME NEW v \in DOMAIN ledger', v \notin old' PROVE ledger'[v] = ran'[v] /\ ledger'[v] # NoChecksum
      <4>1. CASE v = n
        BY <2>1, <2>3, <2>4, <2>5, <3>1, <4>1
      <4>2. CASE v # n
        <5>1. v \in 1..Len(ledger) /\ v \notin old
          BY <1>0, <2>1, <2>6, <3>1, <4>2
        <5> QED BY <1>0, <2>4, <2>5, <5>1 DEF LedgerTrue
      <4> QED BY <4>1, <4>2
    <3> QED BY <2>4, <2>5, <3>1 DEF LedgerTrue
  <2>9. StartupTypeOK'
    <3>1. old' \subseteq DOMAIN ledger'
      BY <1>0, <2>1, <2>6 DEF StartupTypeOK
    <3> QED BY <1>0, <2>2, <2>4, <2>5, <3>1 DEF StartupTypeOK
  <2>10. ASSUME NEW s \in Replicas PROVE PodTrue(s, pod[s])'
    <3>1. pod[s].at # "applying"
      BY <1>5, <2>2, StartupAssumption DEF InTransaction
    <3>2. pod[s] \in Pods /\ PodTrue(s, pod[s])
      BY <1>0
    <3> QED BY <1>0, <2>2, <2>7, <3>1, <3>2, PodGrows
  <2> QED BY <2>8, <2>9, <2>10 DEF StartupInv
<1>11. ASSUME PostgresGoesAway PROVE StartupInv'
  <2>1. /\ reachable' = FALSE /\ schemaLock' = NoReplica /\ UNCHANGED <<ledger, ran, old, realmGroups>>
        /\ pod' = [r \in Replicas |-> IF pod[r].at = "applying" THEN [at |-> "failed", why |-> "gone"] ELSE pod[r]]
    BY <1>11 DEF PostgresGoesAway, At
  <2>2. [at |-> "failed", why |-> "gone"] \in Pods
    BY DEF Pods
  <2>3. pod' \in [Replicas -> Pods]
    BY <1>0, <2>1, <2>2
  <2>4. ASSUME NEW s \in Replicas PROVE PodTrue(s, pod[s])'
    <3>1. CASE pod[s].at = "applying"
      BY <2>1, <3>1 DEF PodTrue
    <3>2. CASE pod[s].at # "applying"
      <4>1. pod'[s] = pod[s]
        BY <2>1, <3>2
      <4> QED BY <1>0, <2>1, <3>2, <4>1 DEF PodTrue, Fits
    <3> QED BY <3>1, <3>2
  <2>5. StartupTypeOK' /\ LedgerTrue'
    BY <1>0, <2>1, <2>3 DEF StartupTypeOK, LedgerTrue
  <2> QED BY <2>4, <2>5 DEF StartupInv
<1>12. ASSUME PostgresReturns \/ RealmChanges PROVE StartupInv'
  <2>1. UNCHANGED <<ledger, ran, old, schemaLock, pod>> /\ reachable' \in BOOLEAN /\ realmGroups' \in BOOLEAN
    BY <1>0, <1>12 DEF PostgresReturns, RealmChanges, StartupTypeOK
  <2> QED BY <1>0, <2>1 DEF StartupInv, StartupTypeOK, LedgerTrue, PodTrue, InTransaction, ChecksumHolds, Fits
<1> QED BY <1>1, <1>2, <1>3, <1>4, <1>6, <1>7, <1>8, <1>9, <1>10, <1>11, <1>12 DEF StartupNext

(* However builds are rolled out, rolled back, crash or lose the database, no start
   fails because another migrates, every version runs once and in order, and
   no replica serves on a schema it does not fit (run_collab_schema_migrations,
   check_collab_schema_version). *)
THEOREM SchemaIsMigratedOnce == StartupSpec => [](MigratedOnce /\ ServingFitsSchema)
<1>1. StartupInv => MigratedOnce /\ ServingFitsSchema
  <2> SUFFICES ASSUME StartupInv PROVE MigratedOnce /\ ServingFitsSchema
    OBVIOUS
  <2>0. StartupTypeOK /\ LedgerTrue /\ \A r \in Replicas : pod[r] \in Pods /\ PodTrue(r, pod[r])
    BY DEF StartupInv, StartupTypeOK
  <2>1. MigratedOnce
    BY <2>0 DEF MigratedOnce, LedgerTrue, PodTrue, At
  <2>2. ASSUME NEW r \in Replicas, ServingPod(r)
        PROVE  /\ pod[r].checked => ~(Len(ledger) < Len(D(r).texts))
               /\ D(r).auto /\ D(r).url => \A v \in DOMAIN D(r).texts : ledger[v] = D(r).texts[v]
    <3>1. pod[r].at = "serving" /\ D(r) = pod[r].d /\ pod[r].d \in Releases
      BY <2>0, <2>2 DEF ServingPod, At, D, Pods
    <3>2. pod[r].checked => Len(D(r).texts) <= Len(ledger)
      BY <2>0, <3>1 DEF PodTrue
    <3>3. Len(ledger) \in Nat /\ Len(D(r).texts) \in Nat
      BY <2>0, <3>1, LedgerShape, ReleaseTexts
    <3>4. D(r).auto /\ D(r).url => \A v \in DOMAIN D(r).texts : ledger[v] = D(r).texts[v]
      BY <2>0, <3>1 DEF PodTrue, Fits
    <3> QED BY <3>2, <3>3, <3>4
  <2> QED BY <2>1, <2>2 DEF ServingFitsSchema
<1> QED BY <1>1, StartupInitially, StartupKeeps, PTL DEF StartupSpec

-----------------------------------------------------------------------------
(***************************************************************************)
(* SignIn.  A transient cookie names a flow its own browser began; a code  *)
(* is exchanged once, so the flow of a session or of a form is spent and   *)
(* names the same person for good; and a session's times are those of the  *)
(* replica that minted it.                                                 *)
(***************************************************************************)
FlowRecords ==
  [state : {"none", "out", "code", "error", "spent"}, browser : Browsers \cup {Anyone}, user : Persons \cup {Anyone}]
TransientRecords == [flow : SignIns \cup {0}, iat : Int, exp : Int]
SessionRecords ==
  [user : Persons \cup {Anyone}, csrf : SignIns \cup {0}, iat : Int, exp : Int, minted : Nat, claims : Nat]
FormRecords == [user : Persons \cup {Anyone}, csrf : SignIns \cup {0}]
ExchangeRecords ==
  [user : Persons \cup {Anyone}, browser : Browsers \cup {Anyone}, replica : Servers, claims : Nat]

SpentBy(f, b, u) == f \in SignIns /\ flows[f].state = "spent" /\ flows[f].browser = b /\ flows[f].user = u

TransientIsOwn ==
  \A b \in Browsers : transient[b].flow # 0 =>
    flows[transient[b].flow].state # "none" /\ flows[transient[b].flow].browser = b
CodesAreAnswered == \A f \in SignIns : flows[f].state = "code" => flows[f].user \in Persons
ExchangeIsOwn ==
  \A f \in SignIns : exchange[f].user # Anyone =>
    exchange[f].browser \in Browsers /\ SpentBy(f, exchange[f].browser, exchange[f].user)
SessionIsOwn ==
  \A b \in Browsers : session[b] = NoSession \/ SpentBy(session[b].csrf, b, session[b].user)
FormIsOwn == \A b \in Browsers : form[b] = NoForm \/ SpentBy(form[b].csrf, b, form[b].user)
SessionIsTimed ==
  \A b \in Browsers : session[b] # NoSession =>
    \E r \in Servers : /\ session[b].iat = session[b].minted + Drift[r]
                       /\ session[b].exp = session[b].iat + SessionLifetime

FlowInv == SignInTypeOK /\ TransientIsOwn /\ CodesAreAnswered /\ ExchangeIsOwn /\ SessionIsOwn /\ FormIsOwn /\ SessionIsTimed
SignInInv == FlowInv /\ ActsAsShown /\ ActsInTime

\* The clocks of two replicas are at most Spread apart.
LEMMA SpreadBounds == Spread \in Nat /\ \A r, s \in Servers : Drift[r] - Drift[s] <= Spread
<1>1. PICK lo \in Servers, hi \in Servers : \A r \in Servers : Drift[lo] <= Drift[r] /\ Drift[r] <= Drift[hi]
  BY SignInAssumption
<1>2. \A r \in Servers : Drift[r] \in Int
  BY SignInAssumption
<1> DEFINE apart == {Drift[r] - Drift[s] : r, s \in Servers}
<1>3. Drift[hi] - Drift[lo] \in apart
  OBVIOUS
<1>4. \A e \in apart : e <= Drift[hi] - Drift[lo]
  BY <1>1, <1>2
<1>5. \E d \in apart : \A e \in apart : e <= d
  BY <1>3, <1>4
<1>6. Spread \in apart /\ \A e \in apart : e <= Spread
  <2> HIDE DEF apart
  <2>1. (CHOOSE d \in apart : \A e \in apart : e <= d) \in apart
        /\ \A e \in apart : e <= (CHOOSE d \in apart : \A g \in apart : g <= d)
    BY <1>5
  <2> QED BY <2>1, SMTT(30) DEF Spread, apart
<1>7. \A r, s \in Servers : Drift[r] - Drift[s] \in apart
  OBVIOUS
<1>8. Spread \in Int
  BY <1>2, <1>6
<1>9. Drift[lo] - Drift[lo] = 0 /\ Drift[lo] - Drift[lo] \in apart
  BY <1>2
<1>10. 0 <= Spread
  BY <1>6, <1>9
<1> QED BY <1>6, <1>7, <1>8, <1>10

LEMMA SignInStarts == SignInInit => SignInInv
<1> SUFFICES ASSUME SignInInit PROVE SignInInv
  OBVIOUS
<1>0. (CHOOSE r \in Servers : TRUE) \in Servers
  BY SignInAssumption
<1>1. SignInTypeOK
  BY <1>0 DEF SignInInit, SignInTypeOK, NoFlow, NoTransient, NoSession, NoForm, NoExchange, NoAct
<1>2. TransientIsOwn /\ CodesAreAnswered /\ ExchangeIsOwn
  BY DEF SignInInit, TransientIsOwn, CodesAreAnswered, ExchangeIsOwn, NoFlow, NoTransient, NoExchange
<1>3. SessionIsOwn /\ FormIsOwn /\ SessionIsTimed
  BY DEF SignInInit, SessionIsOwn, FormIsOwn, SessionIsTimed
<1>4. ActsAsShown /\ ActsInTime
  BY SpreadBounds, SignInAssumption DEF SignInInit, NoAct, ActsAsShown, ActsInTime
<1> QED BY <1>1, <1>2, <1>3, <1>4 DEF SignInInv, FlowInv

\* A step that acts on nothing.
LEMMA NothingActed == ASSUME acted' = NoAct PROVE (ActsAsShown /\ ActsInTime)'
  BY SpreadBounds, SignInAssumption DEF NoAct, ActsAsShown, ActsInTime

LEMMA SigninKeeps ==
  ASSUME FlowInv, NEW b \in Browsers, NEW r \in Servers, NEW renew \in BOOLEAN, Signin(b, r, renew)
  PROVE  FlowInv'
<1>0. SignInTypeOK /\ TransientIsOwn /\ CodesAreAnswered /\ ExchangeIsOwn /\ SessionIsOwn /\ FormIsOwn /\ SessionIsTimed
  BY DEF FlowInv
<1>1. PICK f \in SignIns :
        /\ flows[f].state = "none"
        /\ flows' = [flows EXCEPT ![f] = [state |-> "out", browser |-> b, user |-> Anyone]]
        /\ transient' = [transient EXCEPT ![b] = [flow |-> f, iat |-> Now(r), exp |-> Now(r) + FlowLifetime]]
        /\ acted' = NoAct /\ UNCHANGED <<clock, session, form, exchange>>
  BY DEF Signin, FlowStarted
<1>2. Now(r) \in Int /\ Now(r) + FlowLifetime \in Int /\ 0 \notin SignIns
  BY <1>0, SignInAssumption DEF Now, SignInTypeOK, SignIns
<1>3. \A g \in SignIns : flows'[g] = IF g = f THEN [state |-> "out", browser |-> b, user |-> Anyone] ELSE flows[g]
  BY <1>0, <1>1 DEF SignInTypeOK
<1>4. \A c \in Browsers : transient'[c].flow = IF c = b THEN f ELSE transient[c].flow
  BY <1>0, <1>1 DEF SignInTypeOK
<1>5. \A g, c, u : SpentBy(g, c, u) => SpentBy(g, c, u)'
  BY <1>1, <1>3 DEF SpentBy
<1>6. SignInTypeOK'
  BY <1>0, <1>1, <1>2 DEF SignInTypeOK, NoAct
<1>7. TransientIsOwn'
  <2>1. \A c \in Browsers : transient[c].flow \in SignIns \cup {0}
    BY <1>0 DEF SignInTypeOK
  <2> QED BY <1>0, <1>1, <1>3, <1>4, <2>1 DEF TransientIsOwn
<1>8. CodesAreAnswered'
  BY <1>0, <1>3 DEF CodesAreAnswered
<1>9. ExchangeIsOwn' /\ SessionIsOwn' /\ FormIsOwn' /\ SessionIsTimed'
  BY <1>0, <1>1, <1>5 DEF ExchangeIsOwn, SessionIsOwn, FormIsOwn, SessionIsTimed
<1> QED BY <1>6, <1>7, <1>8, <1>9 DEF FlowInv

LEMMA IdpAnswersKeeps ==
  ASSUME FlowInv, NEW f \in SignIns, IdpAnswers(f)
  PROVE  FlowInv'
<1>0. SignInTypeOK /\ TransientIsOwn /\ CodesAreAnswered /\ ExchangeIsOwn /\ SessionIsOwn /\ FormIsOwn /\ SessionIsTimed
  BY DEF FlowInv
<1>1. flows[f].state = "out" /\ acted' = NoAct /\ UNCHANGED <<clock, transient, session, form, exchange>>
  BY DEF IdpAnswers
<1>2. PICK u \in Persons \cup {Anyone}, state \in {"code", "error"} :
        flows' = [flows EXCEPT ![f] = [state |-> state, browser |-> flows[f].browser, user |-> u]]
        /\ (state = "code" => u \in Persons)
  <2>1. flows[f] \in FlowRecords
    BY <1>0 DEF SignInTypeOK, FlowRecords
  <2>2. CASE flows' = [flows EXCEPT ![f].state = "error"]
    <3>1. [flows[f] EXCEPT !.state = "error"] = [state |-> "error", browser |-> flows[f].browser, user |-> flows[f].user]
          /\ flows[f].user \in Persons \cup {Anyone}
      BY <2>1 DEF FlowRecords
    <3>2. flows' = [flows EXCEPT ![f] = [flows[f] EXCEPT !.state = "error"]]
      BY <2>2
    <3> QED BY <3>1, <3>2
  <2>3. ASSUME NEW u \in Persons, flows' = [flows EXCEPT ![f].state = "code", ![f].user = u]
        PROVE  flows' = [flows EXCEPT ![f] = [state |-> "code", browser |-> flows[f].browser, user |-> u]]
    <3>1. [flows[f] EXCEPT !.state = "code", !.user = u] = [state |-> "code", browser |-> flows[f].browser, user |-> u]
      <4>1. PICK x \in FlowRecords : x = flows[f]
        BY <2>1
      <4>2. [x EXCEPT !.state = "code"] = [state |-> "code", browser |-> x.browser, user |-> x.user]
        BY DEF FlowRecords
      <4>3. [[state |-> "code", browser |-> x.browser, user |-> x.user] EXCEPT !.user = u]
              = [state |-> "code", browser |-> x.browser, user |-> u]
        OBVIOUS
      <4>4. [x EXCEPT !.state = "code", !.user = u] = [[x EXCEPT !.state = "code"] EXCEPT !.user = u]
        BY DEF FlowRecords
      <4> QED BY <4>1, <4>2, <4>3, <4>4
    <3>2. flows' = [flows EXCEPT ![f] = [flows[f] EXCEPT !.state = "code", !.user = u]]
      BY <1>0, <2>3 DEF SignInTypeOK
    <3> QED BY <3>1, <3>2
  <2> QED BY <2>2, <2>3 DEF IdpAnswers
<1>3. /\ \A g \in SignIns : g # f => flows'[g] = flows[g]
      /\ flows'[f].state = state /\ flows'[f].browser = flows[f].browser /\ flows'[f].user = u
  BY <1>0, <1>2 DEF SignInTypeOK
<1>4. SignInTypeOK'
  <2>1. flows[f].browser \in Browsers \cup {Anyone}
    BY <1>0 DEF SignInTypeOK
  <2> QED BY <1>0, <1>1, <1>2, <2>1 DEF SignInTypeOK, NoAct
<1>5. \A g, c, v : SpentBy(g, c, v) => SpentBy(g, c, v)'
  BY <1>1, <1>3 DEF SpentBy
<1>6. TransientIsOwn' /\ CodesAreAnswered'
  <2>1. \A c \in Browsers : transient[c].flow \in SignIns \cup {0}
    BY <1>0 DEF SignInTypeOK
  <2> QED BY <1>0, <1>1, <1>2, <1>3, <2>1 DEF TransientIsOwn, CodesAreAnswered
<1>7. ExchangeIsOwn' /\ SessionIsOwn' /\ FormIsOwn' /\ SessionIsTimed'
  BY <1>0, <1>1, <1>5 DEF ExchangeIsOwn, SessionIsOwn, FormIsOwn, SessionIsTimed
<1> QED BY <1>4, <1>6, <1>7 DEF FlowInv

LEMMA CallbackKeeps ==
  ASSUME FlowInv, NEW b \in Browsers, NEW f \in SignIns, NEW r \in Servers, Callback(b, f, r)
  PROVE  FlowInv'
<1>0. SignInTypeOK /\ TransientIsOwn /\ CodesAreAnswered /\ ExchangeIsOwn /\ SessionIsOwn /\ FormIsOwn /\ SessionIsTimed
  BY DEF FlowInv
<1>1. acted' = NoAct /\ UNCHANGED <<clock, session, form>>
  BY DEF Callback
<1>2. CASE FailedSignIn(b)
  <2>1. transient' = [transient EXCEPT ![b] = NoTransient] /\ UNCHANGED <<flows, exchange>>
    BY <1>2 DEF FailedSignIn
  <2>2. \A c \in Browsers : transient'[c].flow \in {transient[c].flow, 0}
    BY <1>0, <2>1 DEF SignInTypeOK, NoTransient
  <2>3. SignInTypeOK'
    BY <1>0, <1>1, <2>1 DEF SignInTypeOK, NoAct, NoTransient
  <2>4. TransientIsOwn' /\ CodesAreAnswered'
    BY <1>0, <2>1, <2>2 DEF TransientIsOwn, CodesAreAnswered
  <2>5. ExchangeIsOwn' /\ SessionIsOwn' /\ FormIsOwn' /\ SessionIsTimed'
    BY <1>0, <1>1, <2>1 DEF ExchangeIsOwn, SessionIsOwn, FormIsOwn, SessionIsTimed, SpentBy
  <2> QED BY <2>3, <2>4, <2>5 DEF FlowInv
<1>3. CASE /\ StateMatches(b, f) /\ ExchangeCode(f)
           /\ flows' = [flows EXCEPT ![f].state = "spent"]
           /\ exchange' = [exchange EXCEPT ![f] = VerifyIdToken(b, f, r)]
           /\ UNCHANGED transient
  <2>1. /\ transient[b].flow = f /\ flows[f].state = "code" /\ flows[f].user \in Persons /\ flows[f].browser = b
    <3>1. f # 0
      BY DEF SignIns
    <3> QED BY <1>0, <1>3, <3>1 DEF StateMatches, ExchangeCode, TransientIsOwn, CodesAreAnswered
  <2>2. /\ \A g \in SignIns : g # f => flows'[g] = flows[g]
        /\ flows'[f].state = "spent" /\ flows'[f].browser = b /\ flows'[f].user = flows[f].user
    BY <1>0, <1>3, <2>1 DEF SignInTypeOK
  <2>3. /\ \A g \in SignIns : g # f => exchange'[g] = exchange[g]
        /\ exchange'[f].user = flows[f].user /\ exchange'[f].browser = b
    BY <1>0, <1>3 DEF SignInTypeOK, VerifyIdToken
  <2>4. SignInTypeOK'
    <3>1. VerifyIdToken(b, f, r) \in ExchangeRecords
      BY <1>0, <2>1 DEF SignInTypeOK, VerifyIdToken, ExchangeRecords
    <3>2. [flows[f] EXCEPT !.state = "spent"] \in FlowRecords
      <4>1. flows[f] \in FlowRecords
        BY <1>0 DEF SignInTypeOK, FlowRecords
      <4> QED BY <4>1 DEF FlowRecords
    <3>3. flows' \in [SignIns -> FlowRecords] /\ exchange' \in [SignIns -> ExchangeRecords]
      BY <1>0, <1>3, <3>1, <3>2 DEF SignInTypeOK, FlowRecords, ExchangeRecords
    <3> QED BY <1>0, <1>1, <1>3, <3>3 DEF SignInTypeOK, NoAct, FlowRecords, ExchangeRecords
  <2>5. \A g, c, v : SpentBy(g, c, v) => SpentBy(g, c, v)'
    BY <2>1, <2>2 DEF SpentBy
  <2>6. TransientIsOwn' /\ CodesAreAnswered'
    <3>1. \A c \in Browsers : transient[c].flow \in SignIns \cup {0}
      BY <1>0 DEF SignInTypeOK
    <3> QED BY <1>0, <1>3, <2>1, <2>2, <3>1 DEF TransientIsOwn, CodesAreAnswered
  <2>7. ExchangeIsOwn'
    BY <1>0, <2>2, <2>3, <2>5 DEF ExchangeIsOwn, SpentBy
  <2>8. SessionIsOwn' /\ FormIsOwn' /\ SessionIsTimed'
    BY <1>0, <1>1, <2>5 DEF SessionIsOwn, FormIsOwn, SessionIsTimed
  <2> QED BY <2>4, <2>6, <2>7, <2>8 DEF FlowInv
<1> QED BY <1>2, <1>3 DEF Callback

LEMMA MintSessionKeeps ==
  ASSUME FlowInv, NEW f \in SignIns, MintSession(f)
  PROVE  FlowInv'
<1>0. SignInTypeOK /\ TransientIsOwn /\ CodesAreAnswered /\ ExchangeIsOwn /\ SessionIsOwn /\ FormIsOwn /\ SessionIsTimed
  BY DEF FlowInv
<1>1. PICK b \in Browsers, r \in Servers, u \in Persons, t \in Nat, claims \in Nat :
        /\ exchange[f] = [user |-> u, browser |-> b, replica |-> r, claims |-> claims] /\ t = clock
        /\ SpentBy(f, b, u)
  BY <1>0 DEF MintSession, SignInTypeOK, ExchangeIsOwn
<1> DEFINE s == [user |-> u, csrf |-> f, iat |-> t + Drift[r], exp |-> t + Drift[r] + SessionLifetime, minted |-> t,
                 claims |-> claims]
<1>2. /\ session' = [session EXCEPT ![b] = s] /\ transient' = [transient EXCEPT ![b] = NoTransient]
      /\ exchange' = [exchange EXCEPT ![f] = NoExchange] /\ acted' = NoAct /\ UNCHANGED <<clock, flows, form>>
  BY <1>1 DEF MintSession, Now
<1>3. Drift[r] \in Int /\ SessionLifetime \in Nat /\ (CHOOSE x \in Servers : TRUE) \in Servers
  BY SignInAssumption
<1>4. SignInTypeOK'
  <2>1. s \in SessionRecords /\ NoExchange \in ExchangeRecords /\ NoTransient \in TransientRecords
    BY <1>3 DEF SessionRecords, ExchangeRecords, TransientRecords, NoExchange, NoTransient
  <2> QED BY <1>0, <1>2, <2>1 DEF SignInTypeOK, NoAct, SessionRecords, ExchangeRecords, TransientRecords
<1>5. /\ \A c \in Browsers : session'[c] = IF c = b THEN s ELSE session[c]
      /\ \A c \in Browsers : transient'[c].flow \in {transient[c].flow, 0}
      /\ \A g \in SignIns : g # f => exchange'[g] = exchange[g]
      /\ exchange'[f].user = Anyone
  BY <1>0, <1>2 DEF SignInTypeOK, NoTransient, NoExchange
<1>6. TransientIsOwn' /\ CodesAreAnswered'
  BY <1>0, <1>2, <1>5 DEF TransientIsOwn, CodesAreAnswered
<1>7. ExchangeIsOwn' /\ FormIsOwn'
  BY <1>0, <1>2, <1>5 DEF ExchangeIsOwn, FormIsOwn, SpentBy
<1>8. SessionIsOwn'
  <2>1. s.csrf = f /\ s.user = u
    OBVIOUS
  <2> QED BY <1>0, <1>1, <1>2, <1>5, <2>1 DEF SessionIsOwn, SpentBy
<1>9. SessionIsTimed'
  <2>1. s.iat = s.minted + Drift[r] /\ s.exp = s.iat + SessionLifetime
    BY <1>3
  <2> QED BY <1>0, <1>2, <1>5, <2>1 DEF SessionIsTimed
<1> QED BY <1>4, <1>6, <1>7, <1>8, <1>9 DEF FlowInv

\* A request that decodes the session acts as the person it shows, in time.
LEMMA ActsRightly ==
  ASSUME FlowInv, NEW b \in Browsers, NEW r \in Servers, NEW verified \in BOOLEAN,
         form[b] # NoForm, DecodesCookie(session[b], r), CsrfTokenMatches(b), Acts(b, verified),
         verified => VerifiedClaimsAreCurrent(b, r),
         UNCHANGED <<clock, flows, transient, session, form, exchange>>
  PROVE  SignInInv'
<1>0. SignInTypeOK /\ TransientIsOwn /\ CodesAreAnswered /\ ExchangeIsOwn /\ SessionIsOwn /\ FormIsOwn /\ SessionIsTimed
  BY DEF FlowInv
<1>1. session[b] # NoSession
  BY DEF DecodesCookie, NoSession
<1>2. session[b].user = form[b].user
  BY <1>0, <1>1 DEF SessionIsOwn, FormIsOwn, SpentBy, CsrfTokenMatches
<1>3. /\ session[b].user \in Persons \cup {Anyone} /\ form[b].user \in Persons \cup {Anyone} /\ clock \in Nat
      /\ session[b].minted \in Nat /\ session[b].claims \in Nat /\ session[b].iat \in Int /\ session[b].exp \in Int
  BY <1>0 DEF SignInTypeOK
<1>4. /\ acted' \in [as : Persons \cup {Anyone}, shown : Persons \cup {Anyone}, verified : BOOLEAN, age : Int,
                     claimAge : Int]
      /\ acted'.as = acted'.shown /\ acted'.age = clock - session[b].minted /\ acted'.verified = verified
  BY <1>2, <1>3 DEF Acts
<1>5. PICK q \in Servers : session[b].iat = session[b].minted + Drift[q] /\ session[b].exp = session[b].iat + SessionLifetime
  BY <1>0, <1>1 DEF SessionIsTimed
<1>6. /\ Drift[q] \in Int /\ Drift[r] \in Int /\ Drift[q] - Drift[r] <= Spread /\ Spread \in Nat
      /\ SessionLifetime \in Nat /\ ClaimMaxAge \in Nat
  BY SpreadBounds, SignInAssumption
<1>7. clock - session[b].minted <= SessionLifetime + Spread
  BY <1>3, <1>5, <1>6 DEF DecodesCookie, Now
<1>8. verified => clock - session[b].minted <= ClaimMaxAge + Spread
  BY <1>3, <1>5, <1>6 DEF VerifiedClaimsAreCurrent, Now
<1>9. ActsAsShown' /\ ActsInTime'
  BY <1>4, <1>7, <1>8 DEF ActsAsShown, ActsInTime, Spread
<1>10. FlowInv'
  BY <1>0, <1>4 DEF FlowInv, SignInTypeOK, TransientIsOwn, CodesAreAnswered, ExchangeIsOwn, SessionIsOwn, FormIsOwn,
     SessionIsTimed, SpentBy
<1> QED BY <1>9, <1>10 DEF SignInInv

LEMMA SignInSteps == SignInInv /\ [SignInNext]_signInVars => SignInInv'
<1> SUFFICES ASSUME SignInInv, [SignInNext]_signInVars PROVE SignInInv'
  OBVIOUS
<1>0. FlowInv /\ SignInTypeOK /\ TransientIsOwn /\ CodesAreAnswered /\ ExchangeIsOwn /\ SessionIsOwn /\ FormIsOwn /\ SessionIsTimed
  BY DEF SignInInv, FlowInv
<1>1. CASE UNCHANGED signInVars
  <2>1. FlowInv'
    BY <1>0, <1>1 DEF signInVars, FlowInv, SignInTypeOK, TransientIsOwn, CodesAreAnswered, ExchangeIsOwn, SessionIsOwn,
       FormIsOwn, SessionIsTimed, SpentBy
  <2>2. ActsAsShown' /\ ActsInTime'
    BY <1>1 DEF signInVars, SignInInv, ActsAsShown, ActsInTime
  <2> QED BY <2>1, <2>2 DEF SignInInv
<1>2. ASSUME NEW b \in Browsers, NEW r \in Servers, NEW renew \in BOOLEAN, Signin(b, r, renew) PROVE SignInInv'
  <2>1. acted' = NoAct
    BY <1>2 DEF Signin
  <2> QED BY <1>0, <1>2, <2>1, SigninKeeps, NothingActed DEF SignInInv
<1>3. ASSUME NEW b \in Browsers, NEW r \in Servers, NEW f \in SignIns, Callback(b, f, r) PROVE SignInInv'
  <2>1. acted' = NoAct
    BY <1>3 DEF Callback
  <2> QED BY <1>0, <1>3, <2>1, CallbackKeeps, NothingActed DEF SignInInv
<1>4. ASSUME NEW f \in SignIns, IdpAnswers(f) PROVE SignInInv'
  <2>1. acted' = NoAct
    BY <1>4 DEF IdpAnswers
  <2> QED BY <1>0, <1>4, <2>1, IdpAnswersKeeps, NothingActed DEF SignInInv
<1>5. ASSUME NEW f \in SignIns, MintSession(f) PROVE SignInInv'
  <2>1. acted' = NoAct
    BY <1>5 DEF MintSession
  <2> QED BY <1>0, <1>5, <2>1, MintSessionKeeps, NothingActed DEF SignInInv
<1>6. ASSUME NEW b \in Browsers, NEW r \in Servers, Page(b, r) PROVE SignInInv'
  <2>1. /\ session[b] # NoSession /\ acted' = NoAct /\ UNCHANGED <<clock, flows, transient, session, exchange>>
        /\ form' = [form EXCEPT ![b] = [user |-> session[b].user, csrf |-> session[b].csrf]]
    BY <1>6 DEF Page, DecodesCookie, NoSession
  <2>2. SignInTypeOK'
    BY <1>0, <2>1 DEF SignInTypeOK, NoAct
  <2>3. \A c \in Browsers : form'[c] = IF c = b THEN [user |-> session[b].user, csrf |-> session[b].csrf] ELSE form[c]
    BY <1>0, <2>1 DEF SignInTypeOK
  <2>4. FormIsOwn'
    BY <1>0, <2>1, <2>3 DEF FormIsOwn, SessionIsOwn, SpentBy
  <2>5. TransientIsOwn' /\ CodesAreAnswered' /\ ExchangeIsOwn' /\ SessionIsOwn' /\ SessionIsTimed'
    BY <1>0, <2>1 DEF TransientIsOwn, CodesAreAnswered, ExchangeIsOwn, SessionIsOwn, SessionIsTimed, SpentBy
  <2> QED BY <2>1, <2>2, <2>4, <2>5, NothingActed DEF SignInInv, FlowInv
<1>7. ASSUME NEW b \in Browsers, NEW r \in Servers, SubmitForm(b, r) PROVE SignInInv'
  BY <1>0, <1>7, ActsRightly DEF SubmitForm
<1>8. ASSUME NEW b \in Browsers, NEW r \in Servers, SubmitAcceptance(b, r) PROVE SignInInv'
  BY <1>0, <1>8, ActsRightly DEF SubmitAcceptance
<1>9. ASSUME NEW b \in Browsers, NEW r \in Servers, Signout(b, r) PROVE SignInInv'
  <2>1. /\ session' = [session EXCEPT ![b] = NoSession] /\ acted' = NoAct
        /\ UNCHANGED <<clock, flows, transient, form, exchange>>
    BY <1>9 DEF Signout
  <2>2. SignInTypeOK'
    BY <1>0, <2>1 DEF SignInTypeOK, NoAct, NoSession
  <2>3. \A c \in Browsers : session'[c] = IF c = b THEN NoSession ELSE session[c]
    BY <1>0, <2>1 DEF SignInTypeOK
  <2>4. SessionIsOwn' /\ SessionIsTimed'
    BY <1>0, <2>1, <2>3 DEF SessionIsOwn, SessionIsTimed, SpentBy
  <2>5. TransientIsOwn' /\ CodesAreAnswered' /\ ExchangeIsOwn' /\ FormIsOwn'
    BY <1>0, <2>1 DEF TransientIsOwn, CodesAreAnswered, ExchangeIsOwn, FormIsOwn, SpentBy
  <2> QED BY <2>1, <2>2, <2>4, <2>5, NothingActed DEF SignInInv, FlowInv
<1>10. CASE ClockTicks
  <2>1. clock' = clock + 1 /\ acted' = NoAct /\ UNCHANGED <<flows, transient, session, form, exchange>>
    BY <1>10 DEF ClockTicks
  <2>2. SignInTypeOK'
    BY <1>0, <2>1 DEF SignInTypeOK, NoAct
  <2>3. TransientIsOwn' /\ CodesAreAnswered' /\ ExchangeIsOwn' /\ SessionIsOwn' /\ FormIsOwn' /\ SessionIsTimed'
    BY <1>0, <2>1 DEF TransientIsOwn, CodesAreAnswered, ExchangeIsOwn, SessionIsOwn, FormIsOwn, SessionIsTimed, SpentBy
  <2> QED BY <2>1, <2>2, <2>3, NothingActed DEF SignInInv, FlowInv
<1> QED BY <1>1, <1>2, <1>3, <1>4, <1>5, <1>6, <1>7, <1>8, <1>9, <1>10 DEF SignInNext

(* However tabs, browsers and replicas interleave: a browser is signed in only as
   whoever answered a sign-in it began, a form acts only as the person it was
   rendered for, and a session acts only in its time, give or take the clocks. *)
THEOREM SignedInAsOneself == SignInSpec => [](SessionIsOwnFlow /\ ActsAsShown /\ ActsInTime)
<1>1. SignInInv => SessionIsOwnFlow /\ ActsAsShown /\ ActsInTime
  BY DEF SignInInv, FlowInv, SessionIsOwn, SessionIsOwnFlow, SpentBy
<1> QED BY <1>1, SignInStarts, SignInSteps, PTL DEF SignInSpec

-----------------------------------------------------------------------------
(***************************************************************************)
(* CliSession.  Of every command: what it holds is of the hub it talks to  *)
(* (HubIsOwn).  Of a command that runs alone: what it knows of the file at *)
(* each of its stages (StageHolds), that a token nobody can use any more   *)
(* belongs to a session that has ended, was told of or is a stray (CutOff),*)
(* and where each open session is (Located).                               *)
(***************************************************************************)
CommandStages == {"idle", "request", "renew", "send", "sent", "signIn", "me", "renewMe", "sendMe", "meSent", "abandon",
                  "saved", "leaving", "left"}
CommandRecords ==
  [at : CommandStages, hub : Hubs \cup {"none"}, session : Credentials, previous : Credentials, fresh : BOOLEAN]

\* Credentials that name a realm session and a token issued so far; without a
\* token, none or a stray.
IssuedBy(s, n, m, said) ==
  s \in Credentials /\ s.sid <= n /\ s.tok <= m /\ (s.tok = 0 => s.sid = 0 \/ <<"stray", s.sid>> \in said)
HubIsOwn(k) == k.at \notin {"leaving", "left"} => k.session = NoCredentials \/ k.session.hub = k.hub

KeptInv ==
  /\ CliTypeOK
  /\ IssuedBy(file, sessions, tokens, fate)
  /\ \A c \in Commands : /\ IssuedBy(command[c].session, sessions, tokens, fate) /\ IssuedBy(command[c].previous, sessions, tokens, fate)
                         /\ HubIsOwn(command[c])
                         /\ command[c].at = "idle" => command[c] = IdleCommand
  /\ \A s \in sent : s[1] = s[2]
  /\ ~undone
  /\ \A tok \in Nat : <<"revoked", tok>> \in fate => tok \in unusable

ToldOf(sid, said) == <<"told", sid>> \in said \/ <<"unnamed", sid>> \in said \/ <<"stray", sid>> \in said
CutOff(s, open, spent, said) == s.tok # 0 /\ s.tok \in spent => s.sid \notin open \/ ToldOf(s.sid, said)
StageHolds(k, f, open, spent, said) ==
  /\ k.at = "idle" => k = IdleCommand
  /\ k.at \in {"request", "renew", "send", "sent"} =>
       k.previous = NoCredentials /\ k.fresh = FALSE /\ k.session \in {NoCredentials, f}
  /\ k.at = "renew" => k.session.tok # 0
  /\ k.at = "signIn" => k.session = NoCredentials
  /\ k.at \in {"signIn", "me", "meSent", "abandon"} => k.previous = f
  /\ k.at = "me" => k.fresh = TRUE
  /\ k.at \in {"me", "meSent", "abandon", "saved"} => (k.session.tok # 0 => k.session.tok # k.previous.tok)
  /\ k.at = "saved" => f = k.session
  /\ k.at \in {"leaving", "left"} => k.session = f /\ k.previous = NoCredentials
  /\ k.at = "left" => f.sid \notin open \/ ToldOf(f.sid, said)
  /\ k.at \notin {"renewMe", "sendMe"}
  /\ CutOff(k.session, open, spent, said)
Located(k, f, open, said) ==
  \A sid \in open : sid \in {f.sid, k.session.sid, k.previous.sid} \/ ToldOf(sid, said)

Separate == ~overlapped /\ EndsSessions /\ ~ShortLived
AloneInv ==
  Separate =>
    /\ CutOff(file, live, unusable, fate)
    /\ \A c \in Commands : StageHolds(command[c], file, live, unusable, fate)
    /\ \A c, d \in Commands : Running(c) /\ Running(d) => c = d
    /\ \A sid \in live : Held(sid) \/ ToldOf(sid, fate)

CliInv == KeptInv /\ AloneInv

LEMMA CliStarts == CliInit => CliInv
<1> SUFFICES ASSUME CliInit PROVE CliInv
  OBVIOUS
<1>1. NoCredentials \in Credentials /\ IdleCommand \in CommandRecords
  BY DEF NoCredentials, IdleCommand, Holding, Credentials, CommandRecords, CommandStages
<1>2. CliTypeOK
  BY <1>1 DEF CliInit, CliTypeOK, CommandRecords, CommandStages
<1>3. KeptInv
  <2>1. IssuedBy(NoCredentials, 0, 0, {}) /\ HubIsOwn(IdleCommand)
    BY <1>1 DEF IssuedBy, HubIsOwn, NoCredentials, IdleCommand, Holding
  <2>2. IdleCommand.session = NoCredentials /\ IdleCommand.previous = NoCredentials
    BY DEF IdleCommand, Holding
  <2> QED BY <1>2, <2>1, <2>2 DEF CliInit, KeptInv
<1>4. AloneInv
  BY DEF CliInit, AloneInv, CutOff, StageHolds, Running, IdleCommand, Holding, NoCredentials
<1> QED BY <1>3, <1>4 DEF CliInv

\* What is said only grows.
LEMMA IssuedOn ==
  ASSUME NEW said, NEW more, said \subseteq more, NEW s, NEW n, NEW m, IssuedBy(s, n, m, said)
  PROVE  IssuedBy(s, n, m, more)
  BY DEF IssuedBy

\* What a step of one command leaves: unconditionally,
LEMMA KeptStep ==
  ASSUME KeptInv, NEW c \in Commands, NEW k \in CommandRecords, command' = [command EXCEPT ![c] = k],
         IssuedBy(file', sessions', tokens', fate'), IssuedBy(k.session, sessions', tokens', fate'), IssuedBy(k.previous, sessions', tokens', fate'),
         HubIsOwn(k), k.at = "idle" => k = IdleCommand,
         sessions' \in Nat, sessions <= sessions', tokens' \in Nat, tokens <= tokens', issued' \in Nat,
         live' \subseteq 1..sessions', unusable' \subseteq 0..tokens', overlapped' \in BOOLEAN, undone' \in BOOLEAN, ~undone',
         \A s \in sent' : s \in sent \/ s[1] = s[2],
         unusable \subseteq unusable', fate \subseteq fate',
         \A tok \in Nat : <<"revoked", tok>> \in fate' => <<"revoked", tok>> \in fate \/ tok \in unusable'
  PROVE  KeptInv'
<1>1. \A d \in Commands : command'[d] = IF d = c THEN k ELSE command[d]
  BY DEF KeptInv, CliTypeOK
<1>2. command' \in [Commands -> CommandRecords]
  BY DEF KeptInv, CliTypeOK, CommandRecords, CommandStages
<1>3. CliTypeOK'
  BY <1>2 DEF CliTypeOK, CommandRecords, CommandStages, IssuedBy
<1>4. \A s : IssuedBy(s, sessions, tokens, fate) => IssuedBy(s, sessions', tokens', fate')
  BY DEF IssuedBy, KeptInv, CliTypeOK, Credentials
<1>5. \A d \in Commands : /\ IssuedBy(command'[d].session, sessions', tokens', fate') /\ IssuedBy(command'[d].previous, sessions', tokens', fate')
                          /\ HubIsOwn(command'[d]) /\ (command'[d].at = "idle" => command'[d] = IdleCommand)
  BY <1>1, <1>4 DEF KeptInv
<1> QED BY <1>3, <1>5 DEF KeptInv, HubIsOwn

\* and, as long as no two have overlapped, of where the sessions are.
LEMMA SoloStep ==
  ASSUME CliTypeOK', NEW c \in Commands, NEW k \in CommandRecords, command' = [command EXCEPT ![c] = k],
         command \in [Commands -> CommandRecords],
         \A d \in Commands : d # c => command[d] = IdleCommand,
         CutOff(file', live', unusable', fate'), StageHolds(k, file', live', unusable', fate'),
         Located(k, file', live', fate')
  PROVE  AloneInv'
<1>1. \A d \in Commands : command'[d] = IF d = c THEN k ELSE IdleCommand
  OBVIOUS
<1>2. StageHolds(IdleCommand, file', live', unusable', fate') /\ IdleCommand.at = "idle"
  BY DEF StageHolds, CutOff, IdleCommand, Holding, NoCredentials
<1>3. \A d \in Commands : StageHolds(command'[d], file', live', unusable', fate')
  BY <1>1, <1>2
<1>4. \A d \in Commands : Running(d)' => d = c
  BY <1>1, <1>2 DEF Running
<1>5. ASSUME NEW sid \in live' PROVE Held(sid)' \/ ToldOf(sid, fate')
  <2>1. sid # 0
    BY DEF CliTypeOK
  <2>2. k.at = "idle" => sid \notin {k.session.sid, k.previous.sid}
    BY <2>1 DEF StageHolds, IdleCommand, Holding, NoCredentials
  <2>3. k.at # "idle" => Running(c)'
    BY <1>1 DEF Running
  <2> QED BY <1>1, <2>2, <2>3 DEF Located, Held
<1> QED BY <1>3, <1>4, <1>5 DEF AloneInv

\* What a command that runs alone knows.
LEMMA Solo ==
  ASSUME KeptInv, AloneInv, Separate, NEW c \in Commands, Running(c) \/ \A d \in Commands : ~Running(d)
  PROVE  /\ \A d \in Commands : d # c => command[d] = IdleCommand
         /\ CutOff(file, live, unusable, fate)
         /\ StageHolds(command[c], file, live, unusable, fate)
         /\ Located(command[c], file, live, fate)
<1>1. \A d \in Commands : d # c => ~Running(d)
  BY DEF AloneInv
<1>2. \A d \in Commands : d # c => command[d] = IdleCommand
  BY <1>1 DEF Running, KeptInv
<1>3. \A sid \in live : Held(sid) \/ ToldOf(sid, fate)
  BY DEF AloneInv
<1>4. Located(command[c], file, live, fate)
  BY <1>1, <1>3 DEF Located, Held, Running
<1> QED BY <1>2, <1>4 DEF AloneInv

LEMMA IdleIsRight ==
  /\ IdleCommand \in CommandRecords /\ NoCredentials \in Credentials
  /\ IdleCommand.session = NoCredentials /\ IdleCommand.previous = NoCredentials /\ IdleCommand.at = "idle"
  /\ IdleCommand.fresh = FALSE /\ HubIsOwn(IdleCommand)
  /\ NoCredentials.sid = 0 /\ NoCredentials.tok = 0 /\ NoCredentials.by = "none"
  /\ \A said : \A n, m \in Nat : IssuedBy(NoCredentials, n, m, said)
<1>1. NoCredentials \in Credentials /\ NoCredentials.sid = 0 /\ NoCredentials.tok = 0 /\ NoCredentials.by = "none"
  BY DEF NoCredentials, Credentials
<1>2. /\ IdleCommand.session = NoCredentials /\ IdleCommand.previous = NoCredentials /\ IdleCommand.at = "idle"
      /\ IdleCommand.fresh = FALSE /\ IdleCommand \in CommandRecords
  BY <1>1 DEF IdleCommand, Holding, CommandRecords, CommandStages
<1> QED BY <1>1, <1>2 DEF HubIsOwn, IssuedBy

LEMMA AtStage ==
  ASSUME NEW x \in CommandRecords, NEW stage \in CommandStages
  PROVE  /\ [x EXCEPT !.at = stage] \in CommandRecords
         /\ [x EXCEPT !.at = stage].at = stage /\ [x EXCEPT !.at = stage].hub = x.hub
         /\ [x EXCEPT !.at = stage].session = x.session /\ [x EXCEPT !.at = stage].previous = x.previous
         /\ [x EXCEPT !.at = stage].fresh = x.fresh
  BY DEF CommandRecords

\* A step that leaves the realm, and what was sent and said, as they were.
LEMMA QuietCommandStep ==
  ASSUME CliInv, NEW c \in Commands, Running(c), NEW k \in CommandRecords, command' = [command EXCEPT ![c] = k],
         UNCHANGED Quiet,
         IssuedBy(file', sessions, tokens, fate), IssuedBy(k.session, sessions, tokens, fate), IssuedBy(k.previous, sessions, tokens, fate),
         HubIsOwn(k), k.at = "idle" => k = IdleCommand,
         Separate => /\ CutOff(file', live, unusable, fate)
                     /\ StageHolds(k, file', live, unusable, fate)
                     /\ Located(k, file', live, fate)
  PROVE  CliInv'
<1>1. /\ KeptInv /\ CliTypeOK /\ UNCHANGED <<live, unusable, sessions, tokens, sent, fate, overlapped, undone, issued>>
      /\ command \in [Commands -> CommandRecords]
  BY DEF CliInv, KeptInv, Quiet, CliTypeOK, CommandRecords, CommandStages
<1>2. KeptInv'
  <2>1. /\ IssuedBy(file', sessions', tokens', fate') /\ IssuedBy(k.session, sessions', tokens', fate')
        /\ IssuedBy(k.previous, sessions', tokens', fate')
    BY <1>1
  <2>2. /\ sessions' \in Nat /\ sessions <= sessions' /\ tokens' \in Nat /\ tokens <= tokens' /\ issued' \in Nat
        /\ live' \subseteq 1..sessions' /\ unusable' \subseteq 0..tokens'
    BY <1>1 DEF CliTypeOK
  <2>3. overlapped' \in BOOLEAN /\ undone' \in BOOLEAN /\ ~undone'
    BY <1>1 DEF CliTypeOK, KeptInv
  <2> QED BY <1>1, <2>1, <2>2, <2>3, KeptStep
<1>3. CASE Separate
  BY <1>1, <1>2, <1>3, Solo, SoloStep DEF CliInv, KeptInv
<1>4. CASE ~Separate
  <2>1. ~Separate'
    BY <1>1, <1>4 DEF Separate
  <2> QED BY <1>2, <2>1 DEF AloneInv, CliInv
<1> QED BY <1>2, <1>3, <1>4 DEF CliInv

\* The same for a command that is done.
LEMMA QuietEnd ==
  ASSUME CliInv, NEW c \in Commands, Running(c), Done(c), UNCHANGED Quiet, IssuedBy(file', sessions, tokens, fate),
         Separate => CutOff(file', live, unusable, fate) /\ Located(IdleCommand, file', live, fate)
  PROVE  CliInv'
<1>1. StageHolds(IdleCommand, file', live, unusable, fate)
  BY IdleIsRight DEF StageHolds, CutOff
<1>2. sessions \in Nat /\ tokens \in Nat
  BY DEF CliInv, KeptInv, CliTypeOK
<1>3. command' = [command EXCEPT ![c] = IdleCommand]
  BY DEF Done, Set
<1> QED BY <1>1, <1>2, <1>3, IdleIsRight, QuietCommandStep

\* A command that holds nothing the file does not hold leaves nothing behind.
LEMMA HeldByFile ==
  ASSUME NEW k, NEW f, NEW open, NEW said, Located(k, f, open, said), 0 \notin open,
         k.session.sid \notin open \/ k.session.sid = f.sid \/ ToldOf(k.session.sid, said),
         k.previous.sid \notin open \/ k.previous.sid = f.sid \/ ToldOf(k.previous.sid, said)
  PROVE  Located(IdleCommand, f, open, said)
  BY IdleIsRight DEF Located

LEMMA QuietActions ==
  ASSUME CliInv, NEW c \in Commands,
         \/ Due(c) \/ Expired(c) \/ GrantRefused(c) \/ RealmFails(c) \/ CallAnswered(c) \/ SignInFails(c) \/ WithToken(c)
         \/ Accepted(c) \/ NotAccepted(c) \/ Delete(c)
  PROVE  CliInv'
<1>0. /\ KeptInv /\ CliTypeOK /\ AloneInv /\ command[c] \in CommandRecords /\ sessions \in Nat /\ tokens \in Nat
      /\ IssuedBy(file, sessions, tokens, fate) /\ IssuedBy(command[c].session, sessions, tokens, fate)
      /\ IssuedBy(command[c].previous, sessions, tokens, fate) /\ HubIsOwn(command[c]) /\ 0 \notin live
  BY DEF CliInv, KeptInv, CliTypeOK, CommandRecords, CommandStages
<1>1. Running(c) /\ UNCHANGED Quiet
  BY DEF Due, Expired, GrantRefused, RealmFails, CallAnswered, SignInFails, WithToken, Accepted, NotAccepted, Delete,
     Renewing, Running
<1>2. Separate => /\ CutOff(file, live, unusable, fate)
                  /\ StageHolds(command[c], file, live, unusable, fate)
                  /\ Located(command[c], file, live, fate)
  BY <1>0, <1>1, Solo
<1>3. ASSUME NEW stage \in CommandStages \ {"idle", "leaving", "left"}, command' = [command EXCEPT ![c] = [command[c] EXCEPT !.at = stage]],
             UNCHANGED file, command[c].at \notin {"leaving", "left"},
             Separate => \A x \in CommandRecords :
               x = [command[c] EXCEPT !.at = stage] => StageHolds(x, file, live, unusable, fate)
      PROVE  CliInv'
  <2>1. PICK k \in CommandRecords : k = [command[c] EXCEPT !.at = stage]
    BY <1>0, AtStage
  <2>2. k.at = stage /\ k.hub = command[c].hub /\ k.session = command[c].session /\ k.previous = command[c].previous
    BY <1>0, <2>1, AtStage
  <2>3. HubIsOwn(k) /\ k.at # "idle"
    BY <1>0, <1>3, <2>2 DEF HubIsOwn
  <2>4. Separate => Located(k, file, live, fate)
    BY <1>2, <2>2 DEF Located
  <2> QED BY <1>0, <1>1, <1>2, <1>3, <2>1, <2>2, <2>3, <2>4, QuietCommandStep
<1>4. CASE Due(c)
  <2>1. PICK stage \in {"renew", "renewMe"} :
          /\ command' = [command EXCEPT ![c] = [command[c] EXCEPT !.at = stage]] /\ UNCHANGED file
          /\ stage = (IF command[c].at = "me" THEN "renewMe" ELSE "renew")
    BY <1>4 DEF Due, Set
  <2>2. command[c].at \in {"request", "me"} /\ (command[c].fresh => ShortLived)
    BY <1>4 DEF Due
  <2>3. ASSUME Separate, NEW x \in CommandRecords, x = [command[c] EXCEPT !.at = stage]
        PROVE  StageHolds(x, file, live, unusable, fate)
    <3>1. command[c].at = "request" /\ stage = "renew"
      BY <1>2, <2>1, <2>2, <2>3 DEF StageHolds, Separate
    <3>2. command[c].session.tok # 0
      BY <1>4 DEF Due, Renewable
    <3>3. /\ x.at = "renew" /\ x.session = command[c].session /\ x.previous = command[c].previous
          /\ x.fresh = command[c].fresh
      BY <1>0, <2>3, <3>1, AtStage DEF CommandStages
    <3>4. /\ command[c].previous = NoCredentials /\ command[c].fresh = FALSE
          /\ command[c].session \in {NoCredentials, file}
          /\ CutOff(command[c].session, live, unusable, fate)
      BY <1>2, <2>3, <3>1 DEF StageHolds
    <3> QED BY <3>2, <3>3, <3>4 DEF StageHolds
  <2> QED BY <1>3, <2>1, <2>2, <2>3 DEF CommandStages
<1>5. CASE Expired(c)
  <2>1. Done(c) /\ UNCHANGED file /\ command[c].session.tok = 0 /\ command[c].at \in {"request", "me"}
    BY <1>5 DEF Expired, Renewable
  <2>2. command[c].session.sid = 0 \/ ToldOf(command[c].session.sid, fate)
    BY <1>0, <2>1 DEF IssuedBy, ToldOf
  <2>3. Separate => Located(IdleCommand, file, live, fate)
    BY <1>0, <1>2, <2>1, <2>2, HeldByFile, IdleIsRight DEF StageHolds
  <2> QED BY <1>0, <1>1, <1>2, <2>1, <2>3, QuietEnd
<1>6. CASE GrantRefused(c)
  <2>1. file' = NoCredentials /\ Renewing(c) /\ ~Usable(command[c].session)
    BY <1>6 DEF GrantRefused
  <2>2. CutOff(file', live, unusable, fate) /\ IssuedBy(file', sessions, tokens, fate)
    BY <1>0, <2>1, IdleIsRight DEF CutOff
  <2>3. CASE command[c].at = "renewMe"
    <3>1. PICK k \in CommandRecords : k = [command[c] EXCEPT !.at = "abandon"]
      BY <1>0, AtStage DEF CommandStages
    <3>2. k.at = "abandon" /\ k.hub = command[c].hub /\ k.session = command[c].session /\ k.previous = command[c].previous
      BY <1>0, <3>1, AtStage DEF CommandStages
    <3>3. ~Separate
      BY <1>2, <2>3 DEF StageHolds
    <3>4. command' = [command EXCEPT ![c] = k] /\ HubIsOwn(k)
      BY <1>0, <1>6, <2>3, <3>1, <3>2 DEF GrantRefused, Set, HubIsOwn
    <3> QED BY <1>0, <1>1, <2>2, <3>2, <3>3, <3>4, QuietCommandStep
  <2>4. CASE command[c].at = "renew"
    <3>1. Done(c)
      BY <1>6, <2>4 DEF GrantRefused
    <3>2. ASSUME Separate PROVE Located(IdleCommand, NoCredentials, live, fate)
      <4>1. /\ command[c].session \in {NoCredentials, file} /\ command[c].previous = NoCredentials
            /\ CutOff(file, live, unusable, fate) /\ Located(command[c], file, live, fate)
        BY <1>2, <2>4, <3>2 DEF StageHolds
      <4>2. command[c].session = file /\ file.tok # 0
        <5>1. command[c].session.tok # 0
          BY <1>2, <2>4, <3>2 DEF StageHolds
        <5>2. command[c].session # NoCredentials
          BY <5>1, IdleIsRight
        <5> QED BY <4>1, <5>1, <5>2
      <4>3. file.sid \notin live \/ ToldOf(file.sid, fate)
        BY <2>1, <4>1, <4>2 DEF Usable, Renewable, CutOff
      <4> QED BY <1>0, <4>1, <4>2, <4>3, IdleIsRight DEF Located
    <3> QED BY <1>1, <2>1, <2>2, <3>1, <3>2, QuietEnd
  <2> QED BY <2>1, <2>3, <2>4 DEF Renewing
<1>7. CASE RealmFails(c)
  <2>1. UNCHANGED file /\ Renewing(c)
    BY <1>7 DEF RealmFails, KeepFile
  <2>2. CASE command[c].at = "renewMe"
    <3>1. command' = [command EXCEPT ![c] = [command[c] EXCEPT !.at = "abandon"]] /\ ~Separate
      BY <1>2, <1>7, <2>2 DEF RealmFails, Set, StageHolds
    <3> QED BY <1>3, <2>1, <2>2, <3>1 DEF CommandStages
  <2>3. CASE command[c].at = "renew"
    <3>1. Done(c)
      BY <1>7, <2>3 DEF RealmFails
    <3>2. Separate => Located(IdleCommand, file, live, fate)
      BY <1>0, <1>2, <2>3, HeldByFile, IdleIsRight DEF StageHolds
    <3> QED BY <1>0, <1>1, <1>2, <2>1, <3>1, <3>2, QuietEnd
  <2> QED BY <2>1, <2>2, <2>3 DEF Renewing
<1>8. CASE CallAnswered(c)
  <2>1. UNCHANGED file /\ command[c].at = "sent"
    BY <1>8 DEF CallAnswered
  <2>2. CASE Done(c)
    <3>1. Separate => Located(IdleCommand, file, live, fate)
      BY <1>0, <1>2, <2>1, HeldByFile, IdleIsRight DEF StageHolds
    <3> QED BY <1>0, <1>1, <1>2, <2>1, <2>2, <3>1, QuietEnd
  <2>3. CASE command' = [command EXCEPT ![c] = [command[c] EXCEPT !.at = "request"]]
    <3>1. ASSUME Separate, NEW x \in CommandRecords, x = [command[c] EXCEPT !.at = "request"]
          PROVE  StageHolds(x, file, live, unusable, fate)
      BY <1>0, <1>2, <2>1, <3>1, AtStage DEF StageHolds, CommandStages
    <3> QED BY <1>3, <2>1, <2>3, <3>1 DEF CommandStages
  <2> QED BY <1>8, <2>2, <2>3 DEF CallAnswered, Set
<1>9. CASE SignInFails(c)
  <2>1. UNCHANGED file /\ Done(c) /\ command[c].at = "signIn"
    BY <1>9 DEF SignInFails
  <2>2. Separate => Located(IdleCommand, file, live, fate)
    BY <1>0, <1>2, <2>1, HeldByFile, IdleIsRight DEF StageHolds
  <2> QED BY <1>0, <1>1, <1>2, <2>1, <2>2, QuietEnd
<1>10. CASE WithToken(c)
  <2>1. PICK k \in CommandRecords :
          /\ command' = [command EXCEPT ![c] = k] /\ k.at = "me" /\ k.hub = command[c].hub /\ k.previous = command[c].previous
          /\ k.fresh = TRUE /\ k.session.by = "token" /\ k.session.sid = 0 /\ k.session.tok = 0 /\ k.session.hub = k.hub
          /\ k.session \in Credentials
    <3>1. PICK x \in CommandRecords : x = command[c]
      BY <1>0
    <3>2. PICK g \in Credentials : g = Given(x.hub)
      BY DEF Given, Credentials, CommandRecords
    <3>3. g.hub = x.hub /\ g.by = "token" /\ g.sid = 0 /\ g.tok = 0
      BY <3>2 DEF Given
    <3>4. [at |-> "me", hub |-> x.hub, session |-> g, previous |-> x.previous, fresh |-> TRUE] \in CommandRecords
      BY DEF CommandRecords, CommandStages
    <3>5. command' = [command EXCEPT ![c] = [at |-> "me", hub |-> x.hub, session |-> g, previous |-> x.previous, fresh |-> TRUE]]
      BY <1>10, <3>1, <3>2 DEF WithToken, SignedIn, Set
    <3> QED BY <3>1, <3>3, <3>4, <3>5
  <2>2. UNCHANGED file /\ command[c].at = "signIn"
    BY <1>10 DEF WithToken
  <2>3. IssuedBy(k.session, sessions, tokens, fate) /\ IssuedBy(k.previous, sessions, tokens, fate) /\ HubIsOwn(k) /\ k.at # "idle"
    BY <1>0, <2>1 DEF IssuedBy, HubIsOwn
  <2>4. ASSUME Separate PROVE StageHolds(k, file, live, unusable, fate) /\ Located(k, file, live, fate)
    <3>1. command[c].session.sid = 0 /\ command[c].previous = file
      BY <1>2, <2>2, <2>4, IdleIsRight DEF StageHolds
    <3> QED BY <1>0, <1>2, <2>1, <2>4, <3>1 DEF StageHolds, Located, CutOff
  <2> QED BY <1>0, <1>1, <1>2, <2>1, <2>2, <2>3, <2>4, QuietCommandStep
<1>11. CASE Accepted(c)
  <2>1. file' = command[c].session /\ command' = [command EXCEPT ![c] = [command[c] EXCEPT !.at = "saved"]] /\ command[c].at = "meSent"
    BY <1>11 DEF Accepted, Set
  <2>2. PICK k \in CommandRecords : k = [command[c] EXCEPT !.at = "saved"]
    BY <1>0, AtStage DEF CommandStages
  <2>3. k.at = "saved" /\ k.hub = command[c].hub /\ k.session = command[c].session /\ k.previous = command[c].previous
    BY <1>0, <2>2, AtStage DEF CommandStages
  <2>4. HubIsOwn(k)
    BY <1>0, <2>1, <2>3 DEF HubIsOwn
  <2>5. ASSUME Separate
        PROVE  /\ StageHolds(k, file', live, unusable, fate) /\ Located(k, file', live, fate)
               /\ CutOff(file', live, unusable, fate)
    BY <1>0, <1>2, <2>1, <2>3, <2>5 DEF StageHolds, Located
  <2> QED BY <1>0, <1>1, <2>1, <2>2, <2>3, <2>4, <2>5, QuietCommandStep
<1>12. CASE NotAccepted(c)
  <2>1. UNCHANGED file /\ command' = [command EXCEPT ![c] = [command[c] EXCEPT !.at = "abandon"]] /\ command[c].at = "meSent"
    BY <1>12 DEF NotAccepted, Set
  <2>2. ASSUME Separate, NEW x \in CommandRecords, x = [command[c] EXCEPT !.at = "abandon"]
        PROVE  StageHolds(x, file, live, unusable, fate)
    BY <1>0, <1>2, <2>1, <2>2, AtStage DEF StageHolds, CommandStages
  <2> QED BY <1>3, <2>1, <2>2 DEF CommandStages
<1>13. CASE Delete(c)
  <2>1. file' = NoCredentials /\ Done(c) /\ command[c].at = "left"
    BY <1>13 DEF Delete
  <2>2. CutOff(file', live, unusable, fate) /\ IssuedBy(file', sessions, tokens, fate)
    BY <1>0, <2>1, IdleIsRight DEF CutOff
  <2>3. Separate => Located(IdleCommand, file', live, fate)
    BY <1>0, <1>2, <2>1, IdleIsRight DEF StageHolds, Located
  <2> QED BY <1>1, <2>1, <2>2, <2>3, QuietEnd
<1> QED BY <1>4, <1>5, <1>6, <1>7, <1>8, <1>9, <1>10, <1>11, <1>12, <1>13

\* A step that starts a command, or that the realm or a person learns of.
LEMMA LoudStep ==
  ASSUME CliInv, NEW c \in Commands, NEW k \in CommandRecords, command' = [command EXCEPT ![c] = k],
         IssuedBy(file', sessions', tokens', fate'), IssuedBy(k.session, sessions', tokens', fate'), IssuedBy(k.previous, sessions', tokens', fate'),
         HubIsOwn(k), k.at = "idle" => k = IdleCommand,
         sessions' \in Nat, sessions <= sessions', tokens' \in Nat, tokens <= tokens', issued' \in Nat,
         live' \subseteq 1..sessions', unusable' \subseteq 0..tokens', overlapped' \in BOOLEAN, undone' \in BOOLEAN, ~undone',
         \A s \in sent' : s \in sent \/ s[1] = s[2],
         unusable \subseteq unusable', fate \subseteq fate',
         \A tok \in Nat : <<"revoked", tok>> \in fate' => <<"revoked", tok>> \in fate \/ tok \in unusable',
         Separate' => Separate /\ (Running(c) \/ \A d \in Commands : ~Running(d)),
         Separate' => /\ CutOff(file', live', unusable', fate')
                      /\ StageHolds(k, file', live', unusable', fate')
                      /\ Located(k, file', live', fate')
  PROVE  CliInv'
<1>1. KeptInv /\ AloneInv /\ command \in [Commands -> CommandRecords]
  BY DEF CliInv, KeptInv, CliTypeOK, CommandRecords, CommandStages
<1>2. KeptInv'
  BY <1>1, KeptStep
<1>3. CASE Separate'
  BY <1>1, <1>2, <1>3, Solo, SoloStep DEF CliInv, KeptInv
<1>4. CASE ~Separate'
  BY <1>2, <1>4 DEF AloneInv, CliInv
<1> QED BY <1>3, <1>4

\* A command begins.
LEMMA StartingKeeps ==
  ASSUME CliInv, NEW c \in Commands, NEW hub \in Hubs \cup {"none"}, Call(c, hub) \/ Login(c, hub) \/ Logout(c)
  PROVE  CliInv'
<1>0. /\ KeptInv /\ CliTypeOK /\ AloneInv /\ sessions \in Nat /\ tokens \in Nat /\ IssuedBy(file, sessions, tokens, fate)
      /\ 0 \notin live /\ \A said : \A n, m \in Nat : IssuedBy(NoCredentials, n, m, said)
      /\ file \in Credentials /\ NoCredentials \in Credentials /\ NoCredentials.sid = 0 /\ NoCredentials.by = "none"
  BY IdleIsRight DEF CliInv, KeptInv, CliTypeOK
<1>1. /\ ~Running(c) /\ UNCHANGED <<file, live, unusable, sessions, tokens, sent, fate, undone>>
      /\ overlapped' = (overlapped \/ \E d \in Commands : Running(d)) /\ issued' = issued + 1
  BY DEF Call, Login, Logout, CommandStarts
<1>2. PICK k \in CommandRecords :
        /\ command' = [command EXCEPT ![c] = k] /\ k.fresh = FALSE
        /\ \/ k.at = "request" /\ k.hub = hub /\ k.session = StoredFor(hub) /\ k.previous = NoCredentials
           \/ k.at = "signIn" /\ k.hub = hub /\ k.session = NoCredentials /\ k.previous = file
           \/ k.at = "leaving" /\ k.hub = "none" /\ k.session = file /\ k.previous = NoCredentials
  <2>1. PICK st \in Credentials, f \in Credentials : st = StoredFor(hub) /\ f = file
    BY <1>0 DEF StoredFor
  <2>2. /\ Holding("request", hub, st, NoCredentials) \in CommandRecords
        /\ Holding("signIn", hub, NoCredentials, f) \in CommandRecords
        /\ Holding("leaving", "none", f, NoCredentials) \in CommandRecords
    BY <1>0 DEF Holding, CommandRecords, CommandStages
  <2>3. CASE Call(c, hub)
    <3>1. command' = [command EXCEPT ![c] = Holding("request", hub, st, NoCredentials)]
      BY <2>1, <2>3 DEF Call, Set
    <3> QED BY <2>1, <2>2, <3>1 DEF Holding
  <2>4. CASE Login(c, hub)
    <3>1. command' = [command EXCEPT ![c] = Holding("signIn", hub, NoCredentials, f)]
      BY <2>1, <2>4 DEF Login, Set
    <3> QED BY <2>1, <2>2, <3>1 DEF Holding
  <2>5. CASE Logout(c)
    <3>1. command' = [command EXCEPT ![c] = Holding("leaving", "none", f, NoCredentials)]
      BY <2>1, <2>5 DEF Logout, Set
    <3> QED BY <2>1, <2>2, <3>1 DEF Holding
  <2> QED BY <2>3, <2>4, <2>5
<1>3. HubIsOwn(k) /\ k.at # "idle" /\ k.session \in {NoCredentials, file} /\ k.previous \in {NoCredentials, file}
  BY <1>2 DEF HubIsOwn, StoredFor
<1>4. ASSUME Separate' PROVE Separate /\ \A d \in Commands : ~Running(d)
  BY <1>0, <1>1, <1>4 DEF Separate, CliTypeOK
<1>5. ASSUME Separate'
      PROVE  /\ CutOff(file', live', unusable', fate') /\ StageHolds(k, file', live', unusable', fate')
             /\ Located(k, file', live', fate')
  <2>1. /\ CutOff(file, live, unusable, fate)
        /\ \A sid \in live : sid = file.sid \/ ToldOf(sid, fate)
    BY <1>0, <1>4, <1>5 DEF AloneInv, Held
  <2>2. CutOff(k.session, live, unusable, fate)
    BY <1>0, <1>3, <2>1 DEF CutOff
  <2>3. StageHolds(k, file, live, unusable, fate)
    BY <1>0, <1>2, <1>3, <2>2 DEF StageHolds
  <2> QED BY <1>1, <2>1, <2>3 DEF Located
<1>6. issued' \in Nat /\ overlapped' \in BOOLEAN /\ undone' \in BOOLEAN /\ ~undone'
  BY <1>0, <1>1 DEF CliTypeOK, KeptInv
<1>7. /\ IssuedBy(file', sessions', tokens', fate') /\ IssuedBy(k.session, sessions', tokens', fate') /\ IssuedBy(k.previous, sessions', tokens', fate')
      /\ sessions' \in Nat /\ sessions <= sessions' /\ tokens' \in Nat /\ tokens <= tokens'
      /\ live' \subseteq 1..sessions' /\ unusable' \subseteq 0..tokens' /\ unusable \subseteq unusable'
  BY <1>0, <1>1, <1>3 DEF CliTypeOK
<1> QED BY <1>1, <1>2, <1>3, <1>4, <1>5, <1>6, <1>7, LoudStep

LEMMA RenewedKeeps ==
  ASSUME CliInv, NEW c \in Commands, Renewed(c)
  PROVE  CliInv'
<1>0. /\ KeptInv /\ CliTypeOK /\ AloneInv /\ command[c] \in CommandRecords /\ sessions \in Nat /\ tokens \in Nat
      /\ IssuedBy(command[c].session, sessions, tokens, fate) /\ IssuedBy(command[c].previous, sessions, tokens, fate)
      /\ HubIsOwn(command[c]) /\ 0 \notin live
  BY DEF CliInv, KeptInv, CliTypeOK, CommandRecords, CommandStages
<1>1. /\ Renewing(c) /\ Renewable(command[c].session) /\ Running(c)
      /\ UNCHANGED <<live, sessions, sent, fate, overlapped, undone, issued>>
  BY DEF Renewed, Usable, Renewing, Running
<1>2. PICK s \in Credentials, m \in Nat :
        /\ s = [command[c].session EXCEPT !.tok = m] /\ s.tok = m /\ s.hub = command[c].session.hub
        /\ s.sid = command[c].session.sid
        /\ m = tokens + 1 \/ (m = command[c].session.tok /\ ~Rotates)
        /\ tokens' = IF m > tokens THEN m ELSE tokens
        /\ unusable' = unusable \cup (IF Rotates THEN {command[c].session.tok} ELSE {})
        /\ file' = s
        /\ Set(c, [command[c] EXCEPT !.at = IF command[c].at = "renewMe" THEN "sendMe" ELSE "send", !.session = s])
  <2>1. PICK x \in Credentials : x = command[c].session /\ x.tok <= tokens
    BY <1>0, <1>1 DEF IssuedBy
  <2>2. PICK m \in {tokens + 1} \cup (IF Rotates THEN {} ELSE {x.tok}) :
          /\ tokens' = IF m > tokens THEN m ELSE tokens
          /\ unusable' = unusable \cup (IF Rotates THEN {x.tok} ELSE {})
          /\ file' = [x EXCEPT !.tok = m]
          /\ Set(c, [command[c] EXCEPT !.at = IF command[c].at = "renewMe" THEN "sendMe" ELSE "send",
                                       !.session = [x EXCEPT !.tok = m]])
    BY <2>1 DEF Renewed
  <2>3. m \in Nat /\ (m = tokens + 1 \/ (m = x.tok /\ ~Rotates))
    BY <1>0, <2>1, <2>2 DEF Credentials
  <2>4. /\ [x EXCEPT !.tok = m] \in Credentials /\ [x EXCEPT !.tok = m].tok = m /\ [x EXCEPT !.tok = m].hub = x.hub
        /\ [x EXCEPT !.tok = m].sid = x.sid
    BY <2>3 DEF Credentials
  <2> QED BY <2>1, <2>2, <2>3, <2>4
<1>3. PICK stage \in {"send", "sendMe"} :
        /\ stage = (IF command[c].at = "renewMe" THEN "sendMe" ELSE "send")
        /\ command' = [command EXCEPT ![c] = [command[c] EXCEPT !.at = stage, !.session = s]] /\ file' = s
  BY <1>2 DEF Set
<1>4. PICK k \in CommandRecords :
        /\ k = [command[c] EXCEPT !.at = stage, !.session = s] /\ k.at = stage /\ k.session = s
        /\ k.hub = command[c].hub /\ k.previous = command[c].previous /\ k.fresh = command[c].fresh
  <2>1. PICK x \in CommandRecords : x = command[c]
    BY <1>0
  <2>2. /\ [x EXCEPT !.at = stage, !.session = s] \in CommandRecords
        /\ [x EXCEPT !.at = stage, !.session = s].at = stage /\ [x EXCEPT !.at = stage, !.session = s].session = s
        /\ [x EXCEPT !.at = stage, !.session = s].hub = x.hub /\ [x EXCEPT !.at = stage, !.session = s].previous = x.previous
        /\ [x EXCEPT !.at = stage, !.session = s].fresh = x.fresh
    BY DEF CommandRecords, CommandStages
  <2> QED BY <2>1, <2>2
<1>5. HubIsOwn(k) /\ k.at # "idle" /\ command' = [command EXCEPT ![c] = k]
  <2>1. command[c].session.hub = command[c].hub
    <3>1. command[c].session # NoCredentials
      BY <1>1, IdleIsRight DEF Renewable
    <3> QED BY <1>0, <1>1, <3>1 DEF HubIsOwn, Renewing
  <2> QED BY <1>2, <1>3, <1>4, <2>1 DEF HubIsOwn
<1>6. /\ sessions' \in Nat /\ sessions <= sessions' /\ tokens' \in Nat /\ tokens <= tokens' /\ m <= tokens'
      /\ m # 0 /\ command[c].session.tok \in 1..tokens
  BY <1>0, <1>1, <1>2 DEF IssuedBy, Credentials, Renewable
<1>61. IssuedBy(s, sessions', tokens', fate') /\ IssuedBy(k.previous, sessions', tokens', fate')
  BY <1>0, <1>1, <1>2, <1>4, <1>6 DEF IssuedBy, Credentials
<1>7. /\ live' \subseteq 1..sessions' /\ unusable' \subseteq 0..tokens' /\ unusable \subseteq unusable'
      /\ m \in unusable' => m = command[c].session.tok /\ m \in unusable
  <2>1. unusable' \subseteq 0..tokens /\ unusable \subseteq unusable'
    BY <1>0, <1>2, <1>6 DEF CliTypeOK
  <2>2. \A i \in 0..tokens : i \in 0..tokens' /\ i # tokens + 1
    BY <1>0, <1>6
  <2>3. m \in unusable' => m = command[c].session.tok /\ m \in unusable
    BY <1>2, <2>1, <2>2
  <2> QED BY <1>0, <1>1, <2>1, <2>2, <2>3 DEF CliTypeOK
<1>8. issued' \in Nat /\ overlapped' \in BOOLEAN /\ undone' \in BOOLEAN /\ ~undone'
  BY <1>0, <1>1 DEF CliTypeOK, KeptInv
<1>9. ASSUME Separate'
      PROVE  /\ Separate /\ CutOff(file', live', unusable', fate') /\ StageHolds(k, file', live', unusable', fate')
             /\ Located(k, file', live', fate')
  <2>1. Separate
    BY <1>1, <1>9 DEF Separate
  <2>2. StageHolds(command[c], file, live, unusable, fate) /\ Located(command[c], file, live, fate)
    BY <1>0, <1>1, <2>1, Solo
  <2>3. command[c].at = "renew" /\ command[c].session = file /\ stage = "send"
    <3>1. command[c].session # NoCredentials
      BY <1>1, IdleIsRight DEF Renewable
    <3> QED BY <1>1, <1>3, <2>2, <3>1 DEF Renewing, StageHolds
  <2>4. CutOff(s, live', unusable', fate')
    <3>1. CutOff(command[c].session, live, unusable, fate)
      BY <2>2 DEF StageHolds
    <3> QED BY <1>1, <1>2, <1>6, <1>7, <3>1 DEF CutOff
  <2>5. StageHolds(k, s, live', unusable', fate')
    BY <1>4, <2>2, <2>3, <2>4 DEF StageHolds
  <2>6. Located(k, s, live', fate')
    BY <1>1, <1>2, <1>4, <2>2, <2>3 DEF Located
  <2> QED BY <1>3, <2>1, <2>4, <2>5, <2>6
<1> QED BY <1>1, <1>3, <1>4, <1>5, <1>6, <1>61, <1>7, <1>8, <1>9, LoudStep

LEMMA SendKeeps ==
  ASSUME CliInv, NEW c \in Commands, Send(c)
  PROVE  CliInv'
<1>0. /\ KeptInv /\ CliTypeOK /\ AloneInv /\ command[c] \in CommandRecords /\ sessions \in Nat /\ tokens \in Nat
      /\ IssuedBy(file, sessions, tokens, fate)
      /\ IssuedBy(command[c].session, sessions, tokens, fate) /\ IssuedBy(command[c].previous, sessions, tokens, fate)
      /\ HubIsOwn(command[c])
  BY DEF CliInv, KeptInv, CliTypeOK, CommandRecords, CommandStages
<1>1. PICK stage \in {"sent", "meSent"} :
        /\ stage = (IF command[c].at \in {"me", "sendMe"} THEN "meSent" ELSE "sent")
        /\ command' = [command EXCEPT ![c] = [command[c] EXCEPT !.at = stage]]
  BY DEF Send, Set
<1>2. PICK k \in CommandRecords :
        /\ k = [command[c] EXCEPT !.at = stage] /\ k.at = stage /\ k.session = command[c].session
        /\ k.hub = command[c].hub /\ k.previous = command[c].previous /\ k.fresh = command[c].fresh
  <2>1. PICK k \in CommandRecords : k = [command[c] EXCEPT !.at = stage]
    BY <1>0, AtStage DEF CommandStages
  <2>2. /\ k.at = stage /\ k.session = command[c].session
        /\ k.hub = command[c].hub /\ k.previous = command[c].previous /\ k.fresh = command[c].fresh
    BY <1>0, <2>1, AtStage DEF CommandStages
  <2> QED BY <2>1, <2>2
<1>3. /\ command[c].at \in {"request", "me", "send", "sendMe"} /\ Running(c)
      /\ UNCHANGED <<file, live, unusable, sessions, tokens, fate, overlapped, undone, issued>>
      /\ sent' \in {sent, sent \cup {<<command[c].hub, command[c].session.hub>>}}
      /\ command[c].session = NoCredentials => sent' = sent
  BY DEF Send, Running
<1>4. \A s \in sent' : s \in sent \/ s[1] = s[2]
  BY <1>0, <1>3 DEF HubIsOwn
<1>5. HubIsOwn(k) /\ k.at # "idle" /\ command' = [command EXCEPT ![c] = k]
  BY <1>0, <1>1, <1>2, <1>3 DEF HubIsOwn
<1>6. /\ IssuedBy(file', sessions', tokens', fate') /\ IssuedBy(k.session, sessions', tokens', fate') /\ IssuedBy(k.previous, sessions', tokens', fate')
      /\ sessions' \in Nat /\ sessions <= sessions' /\ tokens' \in Nat /\ tokens <= tokens'
      /\ live' \subseteq 1..sessions' /\ unusable' \subseteq 0..tokens' /\ unusable \subseteq unusable'
  BY <1>0, <1>2, <1>3 DEF CliTypeOK
<1>7. issued' \in Nat /\ overlapped' \in BOOLEAN /\ undone' \in BOOLEAN /\ ~undone'
  BY <1>0, <1>3 DEF CliTypeOK, KeptInv
<1>8. ASSUME Separate'
      PROVE  /\ Separate /\ CutOff(file', live', unusable', fate') /\ StageHolds(k, file', live', unusable', fate')
             /\ Located(k, file', live', fate')
  <2>1. Separate
    BY <1>3, <1>8 DEF Separate
  <2>2. /\ StageHolds(command[c], file, live, unusable, fate) /\ Located(command[c], file, live, fate)
        /\ CutOff(file, live, unusable, fate)
    BY <1>0, <1>3, <2>1, Solo
  <2>3. StageHolds(k, file, live, unusable, fate)
    BY <1>1, <1>2, <1>3, <2>2 DEF StageHolds
  <2>4. Located(k, file, live, fate)
    BY <1>2, <2>2 DEF Located
  <2> QED BY <1>3, <2>1, <2>2, <2>3, <2>4
<1> QED BY <1>3, <1>4, <1>5, <1>6, <1>7, <1>8, LoudStep

LEMMA BrowserLoginKeeps ==
  ASSUME CliInv, NEW c \in Commands, BrowserLogin(c)
  PROVE  CliInv'
<1>0. /\ KeptInv /\ CliTypeOK /\ AloneInv /\ command[c] \in CommandRecords /\ sessions \in Nat /\ tokens \in Nat
      /\ IssuedBy(file, sessions, tokens, fate) /\ IssuedBy(command[c].previous, sessions, tokens, fate)
      /\ live \subseteq 1..sessions /\ unusable \subseteq 0..tokens
  BY DEF CliInv, KeptInv, CliTypeOK, CommandRecords, CommandStages
<1>1. /\ command[c].at = "signIn" /\ Running(c)
      /\ UNCHANGED <<file, unusable, sent, overlapped, undone, issued>>
  BY DEF BrowserLogin, Running
<1>2. PICK known \in BOOLEAN, sid \in Nat, m \in Nat :
        /\ SignedIn(c, Browser(command[c].hub, sid, m, known))
        /\ m = 0 \/ m = tokens + 1
        /\ tokens' = IF m = 0 THEN tokens ELSE m
        /\ fate' = IF m = 0 THEN fate \cup {<<"stray", sid>>} ELSE fate
        /\ \/ sid = sessions + 1 /\ sessions' = sessions + 1 /\ live' = live \cup {sessions + 1}
           \/ sid \in live /\ UNCHANGED <<sessions, live>>
  <2>1. PICK known \in BOOLEAN, m \in {0, tokens + 1}, sid \in live \cup {sessions + 1} :
          /\ SignedIn(c, Browser(command[c].hub, sid, m, known))
          /\ tokens' = IF m = 0 THEN tokens ELSE m
          /\ fate' = IF m = 0 THEN fate \cup {<<"stray", sid>>} ELSE fate
          /\ sessions' = IF sid \in live THEN sessions ELSE sid
          /\ live' = live \cup {sid}
    BY DEF BrowserLogin
  <2>2. sid \in Nat /\ m \in Nat
    BY <1>0, <2>1
  <2>3. \/ sid = sessions + 1 /\ sessions' = sessions + 1 /\ live' = live \cup {sessions + 1}
        \/ sid \in live /\ UNCHANGED <<sessions, live>>
    <3>1. sessions + 1 \notin live
      BY <1>0
    <3> QED BY <2>1, <3>1
  <2> QED BY <2>1, <2>2, <2>3
<1>3. PICK x \in CommandRecords : x = command[c]
  BY <1>0
<1> DEFINE s == [hub |-> x.hub, sid |-> sid, tok |-> m, known |-> known, by |-> "browser"]
           k == [at |-> "me", hub |-> x.hub, session |-> s, previous |-> x.previous, fresh |-> TRUE]
<1>4. s \in Credentials /\ k \in CommandRecords
  BY DEF Credentials, CommandRecords, CommandStages
<1>5. command' = [command EXCEPT ![c] = k]
  BY <1>2, <1>3 DEF SignedIn, Set, Browser
<1>6. /\ k.at = "me" /\ k.hub = x.hub /\ k.session = s /\ k.previous = x.previous /\ k.fresh = TRUE
      /\ s.hub = x.hub /\ s.sid = sid /\ s.tok = m /\ s.by = "browser"
  OBVIOUS
<1> HIDE DEF s, k
<1>7. HubIsOwn(k) /\ k.at # "idle"
  BY <1>6 DEF HubIsOwn
<1>8. sid \in 1..sessions' /\ sessions' \in Nat /\ sessions <= sessions' /\ tokens' \in Nat /\ tokens <= tokens' /\ live' \subseteq 1..sessions'
  <2>1. sessions' \in Nat /\ sessions <= sessions' /\ tokens' \in Nat /\ tokens <= tokens'
    BY <1>0, <1>2
  <2>2. \A i \in 1..sessions : i \in 1..sessions'
    BY <1>0, <2>1
  <2>3. sid \in 1..sessions' /\ live' \subseteq 1..sessions'
    <3>1. CASE sid = sessions + 1 /\ sessions' = sessions + 1 /\ live' = live \cup {sessions + 1}
      <4>1. sessions + 1 \in 1..(sessions + 1)
        BY <1>0
      <4> QED BY <1>0, <2>2, <3>1, <4>1
    <3>2. CASE sid \in live /\ UNCHANGED <<sessions, live>>
      BY <1>0, <3>2
    <3> QED BY <1>2, <3>1, <3>2
  <2> QED BY <2>1, <2>3
<1>9. /\ IssuedBy(file', sessions', tokens', fate') /\ IssuedBy(k.session, sessions', tokens', fate') /\ IssuedBy(k.previous, sessions', tokens', fate')
      /\ unusable' \subseteq 0..tokens' /\ unusable \subseteq unusable' /\ fate \subseteq fate'
      /\ \A tok \in Nat : <<"revoked", tok>> \in fate' => <<"revoked", tok>> \in fate
  <2>1. /\ fate \subseteq fate' /\ (m = 0 => <<"stray", sid>> \in fate')
        /\ \A tok \in Nat : <<"revoked", tok>> \in fate' => <<"revoked", tok>> \in fate
    BY <1>2
  <2>2. IssuedBy(file', sessions', tokens', fate') /\ IssuedBy(k.previous, sessions', tokens', fate')
    BY <1>0, <1>1, <1>3, <1>6, <1>8, <2>1 DEF IssuedBy, Credentials
  <2>3. IssuedBy(s, sessions', tokens', fate')
    BY <1>0, <1>2, <1>4, <1>6, <1>8, <2>1 DEF IssuedBy, Credentials
  <2>4. unusable' \subseteq 0..tokens'
    BY <1>0, <1>1, <1>8
  <2> QED BY <1>1, <1>6, <2>1, <2>2, <2>3, <2>4
<1>10. issued' \in Nat /\ overlapped' \in BOOLEAN /\ undone' \in BOOLEAN /\ ~undone'
  BY <1>0, <1>1 DEF CliTypeOK, KeptInv
<1>11. ASSUME Separate'
      PROVE  /\ Separate /\ CutOff(file', live', unusable', fate') /\ StageHolds(k, file', live', unusable', fate')
             /\ Located(k, file', live', fate')
  <2>1. Separate
    BY <1>1, <1>11 DEF Separate
  <2>2. /\ StageHolds(command[c], file, live, unusable, fate) /\ Located(command[c], file, live, fate)
        /\ CutOff(file, live, unusable, fate)
    BY <1>0, <1>1, <2>1, Solo
  <2>3. \A i : ToldOf(i, fate) => ToldOf(i, fate')
    BY <1>9 DEF ToldOf
  <2>4. CutOff(file, live', unusable, fate')
    BY <1>0, <1>2, <2>2, <2>3 DEF CutOff, IssuedBy, Credentials
  <2>5. s.tok # 0 => s.tok \notin unusable /\ s.tok # x.previous.tok
    BY <1>0, <1>2, <1>3, <1>6 DEF IssuedBy, Credentials
  <2>6. x.session.sid = 0 /\ x.previous = file
    BY <1>1, <1>3, <2>2, IdleIsRight DEF StageHolds
  <2>7. StageHolds(k, file, live', unusable, fate')
    BY <1>6, <2>5, <2>6 DEF StageHolds, CutOff
  <2>8. Located(k, file, live', fate')
    <3>1. \A i \in live : i \in {file.sid, x.previous.sid} \/ ToldOf(i, fate')
      <4>1. 0 \notin live
        BY <1>0
      <4> QED BY <1>3, <2>2, <2>3, <2>6, <4>1 DEF Located
    <3>2. live' \subseteq live \cup {sid}
      BY <1>2
    <3> QED BY <1>6, <3>1, <3>2 DEF Located
  <2> QED BY <1>1, <2>1, <2>4, <2>7, <2>8
<1> QED BY <1>1, <1>4, <1>5, <1>7, <1>8, <1>9, <1>10, <1>11, LoudStep

\* What an end of session s leaves of the realm.
LEMMA EndSessionLeaves ==
  ASSUME KeptInv, NEW s \in Credentials, s.tok <= tokens, NEW ok \in {"failed", "done", "late", "half"}, EndSession(s, ok)
  PROVE  /\ live' \subseteq live /\ unusable \subseteq unusable' /\ unusable' \subseteq unusable \cup {s.tok}
         /\ unusable' \subseteq 0..tokens
         /\ ok = "done" => s.tok \in unusable'
         /\ ok # "failed" /\ EndsSessions => s.sid \notin live'
<1>1. s.tok \in 0..tokens /\ unusable \subseteq 0..tokens
  BY DEF KeptInv, CliTypeOK, Credentials
<1> QED BY <1>1 DEF EndSession

LEMMA AbandonKeeps ==
  ASSUME CliInv, NEW c \in Commands, Abandon(c)
  PROVE  CliInv'
<1>0. /\ KeptInv /\ CliTypeOK /\ AloneInv /\ sessions \in Nat /\ tokens \in Nat /\ IssuedBy(file, sessions, tokens, fate)
      /\ IssuedBy(command[c].session, sessions, tokens, fate) /\ live \subseteq 1..sessions /\ unusable \subseteq 0..tokens
  BY DEF CliInv, KeptInv, CliTypeOK
<1>1. /\ command[c].at = "abandon" /\ Running(c) /\ command' = [command EXCEPT ![c] = IdleCommand]
      /\ UNCHANGED <<file, sessions, tokens, sent, overlapped, undone, issued>>
  BY DEF Abandon, Running, Done, Set
<1>2. PICK s \in Credentials : s = command[c].session /\ s.tok <= tokens /\ (s.tok = 0 => s.sid = 0 \/ <<"stray", s.sid>> \in fate)
  BY <1>0 DEF IssuedBy
<1>3. /\ live' \subseteq live /\ unusable \subseteq unusable' /\ unusable' \subseteq 0..tokens
      /\ unusable' \subseteq unusable \cup {s.tok} /\ (s.tok = 0 => unusable' = unusable)
      /\ fate \subseteq fate' /\ fate' \subseteq fate \cup {<<"stray", s.sid>>}
      /\ EndsSessions => s.sid \notin live' \/ s.sid = 0 \/ ToldOf(s.sid, fate')
  <2>1. CASE Renewable(s)
    <3>1. PICK ok \in {"failed", "done", "late", "half"} :
            /\ EndSession(s, ok)
            /\ fate' = IF ok = "failed" THEN fate \cup {<<"stray", s.sid>>} ELSE fate
      BY <1>2, <2>1 DEF Abandon, EndOutcomes
    <3> QED BY <1>0, <1>2, <2>1, <3>1, EndSessionLeaves DEF Renewable, ToldOf
  <2>2. CASE ~Renewable(s)
    <3>1. UNCHANGED <<live, unusable, fate>>
      BY <1>2, <2>2 DEF Abandon
    <3> QED BY <1>0, <1>2, <2>2, <3>1 DEF Renewable, ToldOf
  <2> QED BY <2>1, <2>2
<1>4. issued' \in Nat /\ overlapped' \in BOOLEAN /\ undone' \in BOOLEAN /\ ~undone'
  BY <1>0, <1>1 DEF CliTypeOK, KeptInv
<1>5. /\ IssuedBy(file', sessions', tokens', fate') /\ IssuedBy(NoCredentials, sessions', tokens', fate')
      /\ sessions' \in Nat /\ sessions <= sessions' /\ tokens' \in Nat /\ tokens <= tokens'
      /\ live' \subseteq 1..sessions' /\ unusable' \subseteq 0..tokens'
  <2>1. IssuedBy(file, sessions, tokens, fate')
    BY <1>0, <1>3, IssuedOn
  <2> QED BY <1>0, <1>1, <1>3, <2>1, IdleIsRight
<1>6. \A tok \in Nat : <<"revoked", tok>> \in fate' => <<"revoked", tok>> \in fate
  BY <1>3
<1>7. ASSUME Separate'
      PROVE  /\ Separate /\ CutOff(file', live', unusable', fate')
             /\ StageHolds(IdleCommand, file', live', unusable', fate') /\ Located(IdleCommand, file', live', fate')
  <2>1. Separate
    BY <1>1, <1>7 DEF Separate
  <2>2. /\ StageHolds(command[c], file, live, unusable, fate) /\ Located(command[c], file, live, fate)
        /\ CutOff(file, live, unusable, fate)
    BY <1>0, <1>1, <2>1, Solo
  <2>3. command[c].previous = file /\ (s.tok # 0 => s.tok # file.tok)
    BY <1>1, <1>2, <2>2 DEF StageHolds
  <2>4. \A i : ToldOf(i, fate) => ToldOf(i, fate')
    BY <1>3 DEF ToldOf
  <2>5. s.sid \notin live' \/ ToldOf(s.sid, fate')
    <3>1. EndsSessions /\ 0 \notin live'
      BY <1>0, <1>3, <2>1 DEF Separate
    <3> QED BY <1>3, <3>1
  <2>6. CutOff(file, live', unusable', fate')
    BY <1>3, <2>2, <2>3, <2>4 DEF CutOff
  <2>7. StageHolds(IdleCommand, file', live', unusable', fate')
    BY IdleIsRight DEF StageHolds, CutOff
  <2>8. Located(IdleCommand, file, live', fate')
    BY <1>2, <1>3, <2>2, <2>3, <2>4, <2>5 DEF Located
  <2> QED BY <1>1, <2>1, <2>6, <2>7, <2>8
<1> QED BY <1>1, <1>3, <1>4, <1>5, <1>6, <1>7, IdleIsRight, LoudStep

\* An answer of the realm is lost: a renewal's, or a sign-in's.
LEMMA LostKeeps ==
  ASSUME CliInv, NEW c \in Commands, RenewalLost(c) \/ SignInLost(c)
  PROVE  CliInv'
<1>0. /\ KeptInv /\ CliTypeOK /\ AloneInv /\ sessions \in Nat /\ tokens \in Nat /\ IssuedBy(file, sessions, tokens, fate)
      /\ IssuedBy(command[c].session, sessions, tokens, fate) /\ IssuedBy(command[c].previous, sessions, tokens, fate)
      /\ live \subseteq 1..sessions /\ unusable \subseteq 0..tokens /\ command[c] \in CommandRecords /\ HubIsOwn(command[c])
  BY DEF CliInv, KeptInv, CliTypeOK, CommandRecords, CommandStages
<1>1. /\ Running(c) /\ UNCHANGED <<file, tokens, sent, overlapped, undone, issued>>
      /\ command[c].at \in {"renew", "renewMe", "signIn"}
  BY DEF RenewalLost, SignInLost, Renewing, Running, KeepFile
<1>2. /\ unusable \subseteq unusable' /\ unusable' \subseteq 0..tokens
      /\ unusable' \subseteq unusable \cup {command[c].session.tok}
      /\ unusable' # unusable => ToldOf(command[c].session.sid, fate')
      /\ fate \subseteq fate' /\ \A tok \in Nat : <<"revoked", tok>> \in fate' => <<"revoked", tok>> \in fate
      /\ sessions' \in Nat /\ sessions <= sessions' /\ live' \subseteq 1..sessions'
      /\ live \subseteq live' /\ \A i \in live' : i \in live \/ (ToldOf(i, fate') /\ i = sessions + 1)
  <2>1. CASE RenewalLost(c)
    <3>1. command[c].session.tok \in 0..tokens
      BY <1>0 DEF IssuedBy, Credentials
    <3>2. /\ unusable' = unusable \cup {command[c].session.tok} /\ UNCHANGED <<live, sessions>>
          /\ fate' = fate \cup {<<"stray", command[c].session.sid>>}
      BY <2>1 DEF RenewalLost
    <3>3. /\ unusable \subseteq unusable' /\ unusable' \subseteq 0..tokens
          /\ ToldOf(command[c].session.sid, fate') /\ fate \subseteq fate'
      BY <1>0, <3>1, <3>2 DEF ToldOf
    <3>4. \A tok \in Nat : <<"revoked", tok>> \in fate' => <<"revoked", tok>> \in fate
      BY <3>2
    <3> QED BY <1>0, <3>2, <3>3, <3>4
  <2>2. CASE SignInLost(c)
    <3>1. /\ sessions' = sessions + 1 /\ live' = live \cup {sessions + 1} /\ UNCHANGED unusable
          /\ fate' = fate \cup {<<"stray", sessions + 1>>}
      BY <2>2 DEF SignInLost
    <3>2. \A i \in 1..sessions : i \in 1..sessions'
      BY <1>0, <3>1
    <3>3. sessions' \in Nat /\ sessions <= sessions' /\ sessions + 1 \in 1..sessions'
      BY <1>0, <3>1
    <3> QED BY <1>0, <3>1, <3>2, <3>3 DEF ToldOf
  <2> QED BY <2>1, <2>2
<1>3. PICK k \in CommandRecords :
        /\ command' = [command EXCEPT ![c] = k]
        /\ k = IdleCommand \/ (k.at = "abandon" /\ k.hub = command[c].hub /\ k.session = command[c].session
                               /\ k.previous = command[c].previous /\ command[c].at = "renewMe")
  <2>1. CASE Done(c)
    BY <2>1, IdleIsRight DEF Done, Set
  <2>2. CASE command[c].at = "renewMe" /\ Set(c, [command[c] EXCEPT !.at = "abandon"])
    <3>1. PICK k \in CommandRecords : k = [command[c] EXCEPT !.at = "abandon"]
      BY <1>0, AtStage DEF CommandStages
    <3>2. k.at = "abandon" /\ k.hub = command[c].hub /\ k.session = command[c].session /\ k.previous = command[c].previous
      BY <1>0, <3>1, AtStage DEF CommandStages
    <3> QED BY <2>2, <3>1, <3>2 DEF Set
  <2> QED BY <2>1, <2>2 DEF RenewalLost, SignInLost
<1>4. HubIsOwn(k) /\ (k.at = "idle" => k = IdleCommand)
  BY <1>0, <1>1, <1>3, IdleIsRight DEF HubIsOwn
<1>5. \A s : IssuedBy(s, sessions, tokens, fate) => IssuedBy(s, sessions', tokens', fate')
  BY <1>0, <1>1, <1>2 DEF IssuedBy, Credentials
<1>6. /\ IssuedBy(file', sessions', tokens', fate') /\ IssuedBy(k.session, sessions', tokens', fate')
      /\ IssuedBy(k.previous, sessions', tokens', fate')
  BY <1>0, <1>1, <1>3, <1>5, IdleIsRight
<1>7. issued' \in Nat /\ overlapped' \in BOOLEAN /\ undone' \in BOOLEAN /\ ~undone'
  BY <1>0, <1>1 DEF CliTypeOK, KeptInv
<1>8. ASSUME Separate'
      PROVE  /\ Separate /\ CutOff(file', live', unusable', fate') /\ StageHolds(k, file', live', unusable', fate')
             /\ Located(k, file', live', fate')
  <2>1. Separate
    BY <1>1, <1>8 DEF Separate
  <2>2. /\ StageHolds(command[c], file, live, unusable, fate) /\ Located(command[c], file, live, fate)
        /\ CutOff(file, live, unusable, fate)
    BY <1>0, <1>1, <2>1, Solo
  <2>3. k = IdleCommand /\ command[c].at \in {"renew", "signIn"}
    BY <1>1, <1>3, <2>2 DEF StageHolds
  <2>4. \A i : ToldOf(i, fate) => ToldOf(i, fate')
    BY <1>2 DEF ToldOf
  <2>5. command[c].session \in {NoCredentials, file} /\ command[c].previous \in {NoCredentials, file}
    BY <2>2, <2>3 DEF StageHolds
  <2>6. file.sid <= sessions /\ file.sid \in Nat /\ file.tok \in Nat
    BY <1>0 DEF IssuedBy, Credentials
  <2>7. file.tok # 0 /\ file.tok \in unusable' => file.sid \notin live' \/ ToldOf(file.sid, fate')
    <3>1. ASSUME file.tok # 0, file.tok \in unusable' PROVE file.sid \notin live' \/ ToldOf(file.sid, fate')
      <4>1. CASE file.tok \in unusable
        BY <1>0, <1>2, <2>2, <2>4, <2>6, <3>1, <4>1 DEF CutOff
      <4>2. CASE file.tok \notin unusable
        <5>1. file.tok = command[c].session.tok /\ unusable' # unusable
          BY <1>2, <3>1, <4>2
        <5> QED BY <1>2, <2>5, <3>1, <5>1, IdleIsRight
      <4> QED BY <4>1, <4>2
    <3> QED BY <3>1
  <2>8. StageHolds(IdleCommand, file', live', unusable', fate')
    BY IdleIsRight DEF StageHolds, CutOff
  <2>9. Located(IdleCommand, file, live', fate')
    <3>1. 0 \notin live
      BY <1>0
    <3> QED BY <1>2, <2>2, <2>4, <2>5, <3>1, IdleIsRight DEF Located
  <2>10. CutOff(file', live', unusable', fate') /\ StageHolds(k, file', live', unusable', fate')
    BY <1>1, <2>3, <2>7, <2>8 DEF CutOff
  <2>11. Located(k, file', live', fate')
    BY <1>1, <2>3, <2>9
  <2> QED BY <2>1, <2>10, <2>11
<1>9. tokens' \in Nat /\ tokens <= tokens' /\ unusable' \subseteq 0..tokens' /\ \A s \in sent' : s \in sent
  BY <1>0, <1>1, <1>2
<1> QED BY <1>1, <1>2, <1>3, <1>4, <1>6, <1>7, <1>8, <1>9, LoudStep

LEMMA ReplacedKeeps ==
  ASSUME CliInv, NEW c \in Commands, Replaced(c)
  PROVE  CliInv'
<1>0. /\ KeptInv /\ CliTypeOK /\ AloneInv /\ sessions \in Nat /\ tokens \in Nat /\ IssuedBy(file, sessions, tokens, fate)
      /\ IssuedBy(command[c].previous, sessions, tokens, fate) /\ live \subseteq 1..sessions /\ unusable \subseteq 0..tokens
  BY DEF CliInv, KeptInv, CliTypeOK
<1>1. /\ command[c].at = "saved" /\ Running(c) /\ command' = [command EXCEPT ![c] = IdleCommand]
      /\ UNCHANGED <<file, sessions, tokens, sent, overlapped, issued>>
  BY DEF Replaced, Running, Done, Set
<1>2. PICK before \in Credentials : before = command[c].previous /\ before.tok <= tokens
          /\ (before.tok = 0 => before.sid = 0 \/ <<"stray", before.sid>> \in fate)
  BY <1>0 DEF IssuedBy
<1>3. /\ live' \subseteq live /\ unusable \subseteq unusable' /\ unusable' \subseteq 0..tokens
      /\ undone' = undone /\ fate \subseteq fate'
      /\ fate' \subseteq fate \cup {<<"told", before.sid>>, <<"unnamed", before.sid>>}
      /\ unusable' \subseteq unusable \cup {before.tok} /\ (before.tok = 0 => unusable' = unusable)
      /\ EndsSessions => before.sid \notin live' \/ before.sid = 0 \/ ToldOf(before.sid, fate')
      /\ unusable' # unusable => before.sid # command[c].session.sid
  <2>1. CASE Renewable(before) /\ ~SameRealmSession(before, command[c].session)
    <3>1. PICK ok \in {"failed", "done", "late", "half"} :
            /\ EndSession(before, ok)
            /\ fate' = IF ok = "done" THEN fate ELSE fate \cup {<<"told", before.sid>>}
            /\ undone' = (undone \/ (ok # "failed" /\ before.sid = command[c].session.sid))
      BY <1>2, <2>1 DEF Replaced, EndOutcomes
    <3>2. before.sid # command[c].session.sid
      BY <2>1 DEF SameRealmSession
    <3>3. undone' = undone
      BY <1>0, <3>1, <3>2 DEF CliTypeOK
    <3>4. before.tok # 0
      BY <2>1 DEF Renewable
    <3> QED BY <1>0, <1>2, <3>1, <3>2, <3>3, <3>4, EndSessionLeaves DEF ToldOf
  <2>2. CASE ~(Renewable(before) /\ ~SameRealmSession(before, command[c].session))
    <3>1. /\ fate' = IF Renewable(before) THEN fate \cup {<<"unnamed", before.sid>>} ELSE fate
          /\ UNCHANGED <<live, unusable, undone>>
      BY <1>2, <2>2 DEF Replaced
    <3> QED BY <1>0, <1>2, <3>1 DEF Renewable, ToldOf
  <2> QED BY <2>1, <2>2
<1>4. issued' \in Nat /\ overlapped' \in BOOLEAN /\ undone' \in BOOLEAN /\ ~undone'
  BY <1>0, <1>1, <1>3 DEF CliTypeOK, KeptInv
<1>5. /\ IssuedBy(file', sessions', tokens', fate') /\ IssuedBy(NoCredentials, sessions', tokens', fate')
      /\ sessions' \in Nat /\ sessions <= sessions' /\ tokens' \in Nat /\ tokens <= tokens'
      /\ live' \subseteq 1..sessions' /\ unusable' \subseteq 0..tokens'
  <2>1. IssuedBy(file, sessions, tokens, fate')
    BY <1>0, <1>3, IssuedOn
  <2> QED BY <1>0, <1>1, <1>3, <2>1, IdleIsRight
<1>6. \A tok \in Nat : <<"revoked", tok>> \in fate' => <<"revoked", tok>> \in fate
  BY <1>3
<1>7. ASSUME Separate'
      PROVE  /\ Separate /\ CutOff(file', live', unusable', fate')
             /\ StageHolds(IdleCommand, file', live', unusable', fate') /\ Located(IdleCommand, file', live', fate')
  <2>1. Separate
    BY <1>1, <1>7 DEF Separate
  <2>2. /\ StageHolds(command[c], file, live, unusable, fate) /\ Located(command[c], file, live, fate)
        /\ CutOff(file, live, unusable, fate)
    BY <1>0, <1>1, <2>1, Solo
  <2>3. command[c].session = file /\ (file.tok # 0 => file.tok # before.tok)
    BY <1>1, <1>2, <2>2 DEF StageHolds
  <2>4. \A i : ToldOf(i, fate) => ToldOf(i, fate')
    BY <1>3 DEF ToldOf
  <2>5. CutOff(file, live', unusable', fate')
    BY <1>3, <2>2, <2>3, <2>4 DEF CutOff
  <2>6. StageHolds(IdleCommand, file', live', unusable', fate')
    BY IdleIsRight DEF StageHolds, CutOff
  <2>7. Located(IdleCommand, file, live', fate')
    <3>1. EndsSessions /\ 0 \notin live'
      BY <1>0, <1>3, <2>1 DEF Separate
    <3> QED BY <1>2, <1>3, <2>2, <2>3, <2>4, <3>1 DEF Located
  <2> QED BY <1>1, <2>1, <2>5, <2>6, <2>7
<1> QED BY <1>1, <1>3, <1>4, <1>5, <1>6, <1>7, IdleIsRight, LoudStep

LEMMA LeaveKeeps ==
  ASSUME CliInv, NEW c \in Commands, Leave(c)
  PROVE  CliInv'
<1>0. /\ KeptInv /\ CliTypeOK /\ AloneInv /\ sessions \in Nat /\ tokens \in Nat /\ IssuedBy(file, sessions, tokens, fate)
      /\ IssuedBy(command[c].session, sessions, tokens, fate) /\ IssuedBy(command[c].previous, sessions, tokens, fate)
      /\ live \subseteq 1..sessions /\ unusable \subseteq 0..tokens /\ command[c] \in CommandRecords
  BY DEF CliInv, KeptInv, CliTypeOK, CommandRecords, CommandStages
<1>1. /\ command[c].at = "leaving" /\ Running(c) /\ command' = [command EXCEPT ![c] = [command[c] EXCEPT !.at = "left"]]
      /\ UNCHANGED <<file, sessions, tokens, sent, overlapped, undone, issued>>
  BY DEF Leave, Running, Set
<1>2. PICK k \in CommandRecords : k = [command[c] EXCEPT !.at = "left"]
  BY <1>0, AtStage DEF CommandStages
<1>3. k.at = "left" /\ k.hub = command[c].hub /\ k.session = command[c].session /\ k.previous = command[c].previous
  BY <1>0, <1>2, AtStage DEF CommandStages
<1>4. PICK s \in Credentials : s = command[c].session /\ s.tok <= tokens /\ (s.tok = 0 => s.sid = 0 \/ <<"stray", s.sid>> \in fate)
  BY <1>0 DEF IssuedBy
<1>5. /\ live' \subseteq live /\ unusable \subseteq unusable' /\ unusable' \subseteq 0..tokens
      /\ fate \subseteq fate'
      /\ fate' \subseteq fate \cup {<<"told", s.sid>>, <<"revoked", s.tok>>}
      /\ <<"revoked", s.tok>> \in fate' => <<"revoked", s.tok>> \in fate \/ s.tok \in unusable'
      /\ EndsSessions => s.sid \notin live' \/ s.sid = 0 \/ ToldOf(s.sid, fate')
      /\ unusable' \subseteq unusable \cup {s.tok}
  <2>1. CASE Renewable(s)
    <3>1. PICK ok \in {"failed", "done", "late", "half"} : EndSession(s, ok) /\ fate' = fate \cup Warned(s, ok)
      BY <1>4, <2>1 DEF Leave, EndOutcomes
    <3> QED BY <1>0, <1>4, <3>1, EndSessionLeaves DEF ToldOf, Warned
  <2>2. CASE ~Renewable(s)
    <3>1. UNCHANGED <<live, unusable, fate>>
      BY <1>4, <2>2 DEF Leave
    <3> QED BY <1>0, <1>4, <2>2, <3>1 DEF Renewable, ToldOf
  <2> QED BY <2>1, <2>2
<1>6. issued' \in Nat /\ overlapped' \in BOOLEAN /\ undone' \in BOOLEAN /\ ~undone'
  BY <1>0, <1>1 DEF CliTypeOK, KeptInv
<1>7. /\ IssuedBy(file', sessions', tokens', fate') /\ IssuedBy(k.session, sessions', tokens', fate') /\ IssuedBy(k.previous, sessions', tokens', fate')
      /\ sessions' \in Nat /\ sessions <= sessions' /\ tokens' \in Nat /\ tokens <= tokens'
      /\ live' \subseteq 1..sessions' /\ unusable' \subseteq 0..tokens'
  <2>1. /\ IssuedBy(file, sessions, tokens, fate') /\ IssuedBy(command[c].session, sessions, tokens, fate')
        /\ IssuedBy(command[c].previous, sessions, tokens, fate')
    BY <1>0, <1>5, IssuedOn
  <2> QED BY <1>0, <1>1, <1>3, <1>5, <2>1
<1>8. \A tok \in Nat : <<"revoked", tok>> \in fate' => <<"revoked", tok>> \in fate \/ tok \in unusable'
  BY <1>5
<1>9. HubIsOwn(k) /\ k.at # "idle" /\ command' = [command EXCEPT ![c] = k]
  BY <1>1, <1>2, <1>3 DEF HubIsOwn
<1>10. ASSUME Separate'
      PROVE  /\ Separate /\ CutOff(file', live', unusable', fate') /\ StageHolds(k, file', live', unusable', fate')
             /\ Located(k, file', live', fate')
  <2>1. Separate
    BY <1>1, <1>10 DEF Separate
  <2>2. /\ StageHolds(command[c], file, live, unusable, fate) /\ Located(command[c], file, live, fate)
        /\ CutOff(file, live, unusable, fate)
    BY <1>0, <1>1, <2>1, Solo
  <2>3. s = file /\ k.session = file /\ k.previous = NoCredentials
    BY <1>1, <1>3, <1>4, <2>2 DEF StageHolds
  <2>4. \A i : ToldOf(i, fate) => ToldOf(i, fate')
    BY <1>5 DEF ToldOf
  <2>5. file.sid \notin live' \/ ToldOf(file.sid, fate')
    <3>1. EndsSessions /\ 0 \notin live'
      BY <1>0, <1>5, <2>1 DEF Separate
    <3> QED BY <1>5, <2>3, <3>1
  <2>6. CutOff(file, live', unusable', fate')
    BY <2>5 DEF CutOff
  <2>7. StageHolds(k, file, live', unusable', fate')
    BY <1>3, <2>3, <2>5, <2>6 DEF StageHolds
  <2>8. Located(k, file, live', fate')
    BY <1>3, <1>5, <2>2, <2>4 DEF Located
  <2> QED BY <1>1, <2>1, <2>6, <2>7, <2>8
<1> QED BY <1>1, <1>5, <1>6, <1>7, <1>8, <1>9, <1>10, LoudStep

LEMMA SessionEndsKeeps ==
  ASSUME CliInv, SessionEnds
  PROVE  CliInv'
<1>0. KeptInv /\ CliTypeOK /\ AloneInv
  BY DEF CliInv, KeptInv
<1>1. /\ live' \subseteq live
      /\ UNCHANGED <<file, command, unusable, sessions, tokens, sent, fate, overlapped, undone, issued>>
  BY DEF SessionEnds
<1>2. CliTypeOK'
  BY <1>0, <1>1 DEF CliTypeOK
<1>3. KeptInv'
  BY <1>0, <1>1, <1>2 DEF KeptInv
<1>4. ASSUME Separate' PROVE AloneInv'
  <2>1. Separate
    BY <1>1, <1>4 DEF Separate
  <2>2. \A s : CutOff(s, live, unusable, fate) => CutOff(s, live', unusable', fate')
    BY <1>1 DEF CutOff
  <2>3. \A k : StageHolds(k, file, live, unusable, fate) => StageHolds(k, file', live', unusable', fate')
    BY <1>1, <2>2 DEF StageHolds
  <2>4. CutOff(file', live', unusable', fate') /\ \A c \in Commands : StageHolds(command'[c], file', live', unusable', fate')
    BY <1>0, <1>1, <2>1, <2>2, <2>3 DEF AloneInv
  <2>5. \A sid \in live' : Held(sid)' \/ ToldOf(sid, fate')
    BY <1>0, <1>1, <2>1 DEF AloneInv, Held, Running
  <2>6. \A c, d \in Commands : Running(c)' /\ Running(d)' => c = d
    BY <1>0, <1>1, <2>1 DEF AloneInv, Running
  <2> QED BY <2>4, <2>5, <2>6 DEF AloneInv
<1>5. ~Separate' => AloneInv'
  BY DEF AloneInv
<1> QED BY <1>3, <1>4, <1>5 DEF CliInv

LEMMA CliSteps == CliInv /\ [CliNext]_cliVars => CliInv'
<1> SUFFICES ASSUME CliInv, [CliNext]_cliVars PROVE CliInv'
  OBVIOUS
<1>1. CASE UNCHANGED cliVars
  <2>1. KeptInv'
    BY <1>1 DEF cliVars, CliInv, KeptInv, CliTypeOK
  <2>2. AloneInv'
    BY <1>1 DEF cliVars, CliInv, AloneInv, Separate, Held, Running
  <2> QED BY <2>1, <2>2 DEF CliInv
<1>2. ASSUME NEW c \in Commands, NEW hub \in Hubs, Call(c, hub) \/ Login(c, hub) PROVE CliInv'
  BY <1>2, StartingKeeps
<1>3. ASSUME NEW c \in Commands, Logout(c) PROVE CliInv'
  <2>1. "none" \in Hubs \cup {"none"}
    OBVIOUS
  <2> QED BY <1>3, <2>1, StartingKeeps
<1>4. CASE SessionEnds
  BY <1>4, SessionEndsKeeps
<1> QED BY <1>1, <1>2, <1>3, <1>4, QuietActions, RenewedKeeps, SendKeeps, BrowserLoginKeeps, AbandonKeeps, LostKeeps, ReplacedKeeps,
           LeaveKeeps DEF CliNext

(* Whatever commands overlap, a session is sent to no hub but its own, a login never
   ends the session it has just signed in, and a refresh token said to be revoked
   renews nothing; and as long as none do, every open realm session is held or was
   told of, unless it could not be told from its successor or is a stray, which no
   command can end and none speaks of. *)
THEOREM CliSessionsAreKept == CliSpec => [](SessionsAreKept /\ SessionsAreAccounted)
<1>1. CliInv => SessionsAreKept
  <2>1. CliInv => \A tok \in 1..tokens : tok \in Nat
    OBVIOUS
  <2> QED BY <2>1 DEF CliInv, KeptInv, SessionsAreKept
<1>2. CliInv => SessionsAreAccounted
  BY DEF CliInv, AloneInv, Separate, SessionsAreAccounted, ToldOf
<1> QED BY <1>1, <1>2, CliStarts, CliSteps, PTL DEF CliSpec

-----------------------------------------------------------------------------
(* SessionsAreOwn, of browsers and commands at once: whoever acts is the person
   shown, and a command's credentials are its hub's and are not lost
   (routers/web.py, web/session.py, cli main.py). *)
THEOREM SessionsBelong == SignInSpec /\ CliSpec => []SessionsAreOwn
<1>1. (SessionIsOwnFlow /\ ActsAsShown /\ ActsInTime) /\ (SessionsAreKept /\ SessionsAreAccounted) => SessionsAreOwn
  BY DEF SessionsAreOwn
<1> QED BY <1>1, SignedInAsOneself, CliSessionsAreKept, PTL

(* ServedAsDeclared, of requests and replicas at once: no handler runs without
   its route's checks, and no replica serves on a schema that is not its own
   (core.py, frames/collab_schema.py). *)
THEOREM ServesAsDeclared == GateSpec /\ StartupSpec => []ServedAsDeclared
<1>1. HandlersProtected /\ (MigratedOnce /\ ServingFitsSchema) => ServedAsDeclared
  BY DEF ServedAsDeclared
<1> QED BY <1>1, RoutesAreProtected, SchemaIsMigratedOnce, PTL

---------------------------------------------------------------------------
(***************************************************************************)
(* KeycloakClient.  A retry never carries the token that was refused, and  *)
(* what is granted is the group configured (RealmCallsRight), for any      *)
(* number of threads, tokens, pages and groups.                            *)
(***************************************************************************)
\* A token is stored once, by the thread it was minted for, so one that was
\* refused never comes back into the cache.
TokenShape == minted \in Nat /\ (token = NoToken \/ token.value \in 1..minted)
IsCall(c) ==
  c = [at |-> c.at, walk |-> c.walk, now |-> c.now, value |-> c.value, try |-> c.try, refused |-> c.refused,
       first |-> c.first, got |-> c.got]
CallShape(c) ==
  \/ c = Ready
  \/ /\ IsCall(c)
     /\ c.value \in 0..minted /\ c.refused \in 0..minted
     /\ c.at \in {"send", "store"} => c.value # 0
     /\ c.try = 2 => c.refused # 0
StoredOnce(t) ==
  calls[t].at = "store" =>
    /\ token.value # calls[t].value
    /\ \A u \in Threads \ {t} : calls[u] # Ready => calls[u].value # calls[t].value /\ calls[u].refused # calls[t].value
NeverBack(t) ==
  calls[t] # Ready /\ calls[t].try = 2 =>
    /\ token.value # calls[t].refused
    /\ calls[t].at \in {"store", "send"} => calls[t].value # calls[t].refused
TokenInv ==
  /\ TokenShape
  /\ calls = [t \in Threads |-> calls[t]]
  /\ \A t \in Threads : CallShape(calls[t]) /\ StoredOnce(t) /\ NeverBack(t)

LEMMA TokensAtFirst == KeycloakInit => TokenInv
  BY DEF KeycloakInit, TokenInv, TokenShape, CallShape, StoredOnce, NeverBack, NoToken, Ready

\* A step that moves one thread's call and leaves the tokens alone: the thread
\* comes to hold nothing but what it held or what is cached.
LEMMA OneCallMoves ==
  ASSUME TokenInv, NEW t \in Threads, NEW c,
         calls' = [calls EXCEPT ![t] = c], minted' = minted, token' = token,
         CallShape(c), c # Ready, c.at # "store",
         c.value \in {0, token.value} \/ (calls[t] # Ready /\ c.value = calls[t].value),
         c.refused = 0 \/ (calls[t] # Ready /\ c.refused = calls[t].refused),
         c.try = 2 => calls[t] # Ready /\ calls[t].try = 2 /\ c.refused = calls[t].refused,
         c.try = 2 /\ c.at = "send" => c.value # c.refused
  PROVE  TokenInv'
<1>1. TokenShape'
  BY DEF TokenInv, TokenShape
<1>2. calls' = [u \in Threads |-> calls'[u]] /\ calls'[t] = c /\ \A u \in Threads \ {t} : calls'[u] = calls[u]
  BY DEF TokenInv
<1>3. ASSUME NEW u \in Threads PROVE CallShape(calls[u])'
  BY <1>2 DEF TokenInv, CallShape
<1>4. ASSUME NEW u \in Threads PROVE StoredOnce(u)'
  <2>1. CASE u = t
    BY <2>1, <1>2 DEF StoredOnce
  <2>2. CASE u # t /\ calls[u].at = "store"
    <3>1. calls[u] # Ready /\ calls[u].value # 0
      BY <2>2 DEF TokenInv, CallShape, Ready
    <3>2. token.value # calls[u].value /\ c.value # calls[u].value /\ c.refused # calls[u].value
      BY <2>2, <3>1 DEF TokenInv, StoredOnce
    <3> QED BY <2>2, <3>2, <1>2 DEF TokenInv, StoredOnce
  <2>3. CASE u # t /\ calls[u].at # "store"
    BY <2>3, <1>2 DEF StoredOnce
  <2> QED BY <2>1, <2>2, <2>3
<1>5. ASSUME NEW u \in Threads PROVE NeverBack(u)'
  <2>1. CASE u = t
    BY <2>1, <1>2 DEF NeverBack, TokenInv
  <2>2. CASE u # t
    BY <2>2, <1>2 DEF NeverBack, TokenInv
  <2> QED BY <2>1, <2>2
<1> QED BY <1>1, <1>2, <1>3, <1>4, <1>5 DEF TokenInv

\* A call with one of its fields set.
Like(d, c) == IsCall(d) /\ d.value = c.value /\ d.refused = c.refused /\ d.try = c.try
LEMMA SetAt ==
  ASSUME NEW c, IsCall(c), NEW x PROVE LET d == [c EXCEPT !.at = x] IN d.at = x /\ Like(d, c)
  BY SMT DEF IsCall, Like
LEMMA SetNow ==
  ASSUME NEW c, IsCall(c), NEW x PROVE LET d == [c EXCEPT !.now = x] IN d.at = c.at /\ Like(d, c)
  BY SMT DEF IsCall, Like
LEMMA SetFirst ==
  ASSUME NEW c, IsCall(c), NEW x PROVE LET d == [c EXCEPT !.first = x] IN d.at = c.at /\ Like(d, c)
  BY SMT DEF IsCall, Like
LEMMA SetGot ==
  ASSUME NEW c, IsCall(c), NEW x PROVE LET d == [c EXCEPT !.got = x] IN d.at = c.at /\ Like(d, c)
  BY SMT DEF IsCall, Like
LEMMA SetValue ==
  ASSUME NEW c, IsCall(c), NEW x
  PROVE  LET d == [c EXCEPT !.value = x]
         IN IsCall(d) /\ d.at = c.at /\ d.value = x /\ d.try = c.try /\ d.refused = c.refused
  BY SMT DEF IsCall
LEMMA SetTry ==
  ASSUME NEW c, IsCall(c), NEW x
  PROVE  LET d == [c EXCEPT !.try = x]
         IN IsCall(d) /\ d.at = c.at /\ d.value = c.value /\ d.try = x /\ d.refused = c.refused
  BY SMT DEF IsCall
LEMMA SetRefused ==
  ASSUME NEW c, IsCall(c), NEW x
  PROVE  LET d == [c EXCEPT !.refused = x]
         IN IsCall(d) /\ d.at = c.at /\ d.value = c.value /\ d.try = c.try /\ d.refused = x
  BY SMT DEF IsCall

\* The moves of a call that leave its value and its attempt alone.
LEMMA CallGoesOn ==
  ASSUME TokenInv, NEW t \in Threads, calls[t] # Ready, calls[t].at # "store", NEW d, Like(d, calls[t]), d.at \notin {"send", "store"},
         calls' = [calls EXCEPT ![t] = d], minted' = minted, token' = token
  PROVE  TokenInv'
<1>1. CallShape(d) /\ d # Ready
  <2>1. d # Ready
    BY SMT DEF Like, IsCall, Ready
  <2> QED BY <2>1 DEF TokenInv, CallShape, Like
<1>2. d.value = calls[t].value /\ d.refused = calls[t].refused /\ d.try = calls[t].try
  BY DEF Like
<1> QED BY <1>1, <1>2, OneCallMoves DEF TokenInv, NeverBack

LEMMA ReadTokenKeeps == ASSUME TokenInv, NEW t \in Threads, ReadToken(t) PROVE TokenInv'
<1>1. calls[t] # Ready /\ IsCall(calls[t]) /\ calls[t].at = "check"
  BY DEF ReadToken, TokenInv, CallShape, Ready
<1>2. PICK c : c = [calls[t] EXCEPT !.now = now]
  OBVIOUS
<1>3. PICK d : d = [c EXCEPT !.at = IF token = NoToken THEN "mint" ELSE "expiry"]
  OBVIOUS
<1>4. c.at = calls[t].at /\ Like(c, calls[t])
  BY <1>1, <1>2, SetNow, Zenon
<1>5. d.at \in {"mint", "expiry"} /\ Like(d, c)
  <2>1. d.at = (IF token = NoToken THEN "mint" ELSE "expiry") /\ Like(d, c)
    <3>1. IsCall(c)
      BY <1>4 DEF Like
    <3> QED BY <1>3, <3>1, SetAt, Zenon
  <2> QED BY <2>1, Zenon
<1>6. Like(d, calls[t])
  BY <1>4, <1>5, Zenon DEF Like
<1>7. calls' = [calls EXCEPT ![t] = d] /\ minted' = minted /\ token' = token
  BY <1>2, <1>3, Zenon DEF ReadToken, SetCall, KeepKeycloak
<1> QED BY <1>1, <1>5, <1>6, <1>7, CallGoesOn

LEMMA EndedKeeps ==
  ASSUME TokenInv, NEW t \in Threads, calls[t] # Ready, calls[t].at # "store", NEW ending, ending \notin {"send", "store"},
         calls' = [calls EXCEPT ![t] = Ended(calls[t], ending)], minted' = minted, token' = token
  PROVE  TokenInv'
<1>1. IsCall(calls[t])
  BY DEF TokenInv, CallShape
<1>2. PICK d : d = Ended(calls[t], ending)
  OBVIOUS
<1>3. d.at = ending /\ Like(d, calls[t])
  BY <1>1, <1>2, SetAt, Zenon DEF Ended
<1>4. calls' = [calls EXCEPT ![t] = d]
  BY <1>2, Zenon
<1> HIDE <1>2
<1> QED BY <1>3, <1>4, CallGoesOn

LEMMA ReadExpiryKeeps == ASSUME TokenInv, NEW t \in Threads, ReadExpiry(t) PROVE TokenInv'
<1>1. calls[t] # Ready /\ IsCall(calls[t]) /\ calls[t].at = "expiry"
  BY DEF ReadExpiry, TokenInv, CallShape, Ready
<1>2. minted' = minted /\ token' = token
  BY DEF ReadExpiry, KeepKeycloak
<1>3. CASE token = NoToken
  <2>1. calls' = [calls EXCEPT ![t] = Ended(calls[t], "escaped")]
    BY <1>3, Zenon DEF ReadExpiry, SetCall
  <2>2. "escaped" \notin {"send", "store"} /\ calls[t].at # "store"
    BY <1>1
  <2> QED BY <1>1, <1>2, <2>1, <2>2, EndedKeeps, Zenon
<1>4. CASE token # NoToken
  <2>1. PICK d : d = [calls[t] EXCEPT !.at = IF token.expires > calls[t].now THEN "value" ELSE "mint"]
    OBVIOUS
  <2>2. d.at = (IF token.expires > calls[t].now THEN "value" ELSE "mint") /\ Like(d, calls[t])
    BY <1>1, <2>1, SetAt, Zenon
  <2>3. d.at \in {"value", "mint"}
    BY <2>2, Zenon
  <2>4. calls' = [calls EXCEPT ![t] = d]
    BY <1>4, <2>1, Zenon DEF ReadExpiry, SetCall
  <2> HIDE <2>1
  <2> QED BY <1>1, <1>2, <2>2, <2>3, <2>4, CallGoesOn
<1> QED BY <1>3, <1>4

LEMMA ReadValueKeeps == ASSUME TokenInv, NEW t \in Threads, ReadValue(t) PROVE TokenInv'
<1>1. calls[t] # Ready /\ IsCall(calls[t]) /\ calls[t].at = "value"
  BY DEF ReadValue, TokenInv, CallShape, Ready
<1>2. minted' = minted /\ token' = token
  BY DEF ReadValue, KeepKeycloak
<1>3. CASE token = NoToken
  <2>1. calls' = [calls EXCEPT ![t] = Ended(calls[t], "escaped")]
    BY <1>3, Zenon DEF ReadValue, SetCall
  <2>2. "escaped" \notin {"send", "store"} /\ calls[t].at # "store"
    BY <1>1
  <2> QED BY <1>1, <1>2, <2>1, <2>2, EndedKeeps, Zenon
<1>4. CASE token # NoToken
  <2>1. PICK c : c = [calls[t] EXCEPT !.value = token.value]
    OBVIOUS
  <2>2. PICK d : d = [c EXCEPT !.at = "send"]
    OBVIOUS
  <2>3. IsCall(c) /\ c.value = token.value /\ c.try = calls[t].try /\ c.refused = calls[t].refused
    <3> DEFINE v == token.value
    <3>1. c = [calls[t] EXCEPT !.value = v]
      BY <2>1
    <3> HIDE DEF v
    <3>2. IsCall(c) /\ c.value = v /\ c.try = calls[t].try /\ c.refused = calls[t].refused
      BY <1>1, <3>1, SetValue, Zenon
    <3> QED BY <3>2 DEF v
  <2>4. d.at = "send" /\ Like(d, c)
    BY <2>2, <2>3, SetAt, Zenon
  <2>5. calls' = [calls EXCEPT ![t] = d]
    BY <1>4, <2>1, <2>2, Zenon DEF ReadValue, SetCall
  <2>6. IsCall(d) /\ d.at = "send" /\ d.value = token.value /\ d.try = calls[t].try /\ d.refused = calls[t].refused
    BY <2>3, <2>4 DEF Like
  <2> HIDE <2>1, <2>2
  <2>7. token.value \in 1..minted
    BY <1>4 DEF TokenInv, TokenShape
  <2>8. CallShape(d) /\ d # Ready
    <3>1. d # Ready
      BY <2>6, SMT DEF IsCall, Ready
    <3> QED BY <1>1, <2>6, <2>7, <3>1 DEF TokenInv, TokenShape, CallShape
  <2>9. calls[t].try = 2 => token.value # calls[t].refused
    BY <1>1 DEF TokenInv, NeverBack
  <2> QED BY <1>1, <1>2, <2>5, <2>6, <2>8, <2>9, OneCallMoves
<1> QED BY <1>3, <1>4

LEMMA MintKeeps == ASSUME TokenInv, NEW t \in Threads, Mint(t) PROVE TokenInv'
<1>1. calls[t] # Ready /\ IsCall(calls[t]) /\ calls[t].at = "mint"
  BY DEF Mint, TokenInv, CallShape, Ready
<1>2. minted \in Nat /\ minted' = minted + 1 /\ token' = token
  BY DEF Mint, TokenInv, TokenShape
<1>3. PICK c : c = [calls[t] EXCEPT !.value = minted + 1]
  OBVIOUS
<1>4. PICK d : d = [c EXCEPT !.at = "store"]
  OBVIOUS
<1>5. IsCall(c) /\ c.value = minted + 1 /\ c.try = calls[t].try /\ c.refused = calls[t].refused
  <2> DEFINE v == minted + 1
  <2>1. c = [calls[t] EXCEPT !.value = v]
    BY <1>3
  <2> HIDE DEF v
  <2>2. IsCall(c) /\ c.value = v /\ c.try = calls[t].try /\ c.refused = calls[t].refused
    BY <1>1, <2>1, SetValue, Zenon
  <2> QED BY <2>2 DEF v
<1>6. d.at = "store" /\ Like(d, c)
  BY <1>4, <1>5, SetAt, Zenon
<1>7. calls' = [calls EXCEPT ![t] = d]
  BY <1>3, <1>4, Zenon DEF Mint, SetCall
<1>8. IsCall(d) /\ d.at = "store" /\ d.value = minted + 1 /\ d.try = calls[t].try /\ d.refused = calls[t].refused
  BY <1>5, <1>6 DEF Like
<1> HIDE <1>3, <1>4
<1>9. calls' = [u \in Threads |-> calls'[u]] /\ calls'[t] = d /\ \A u \in Threads \ {t} : calls'[u] = calls[u]
  BY <1>7 DEF TokenInv
<1>10. token = NoToken \/ token.value \in 1..minted
  BY DEF TokenInv, TokenShape
<1>11. token.value \in 0..minted
  BY <1>2, <1>10 DEF NoToken
<1>12. \A u \in Threads : calls[u] # Ready => calls[u].value \in 0..minted /\ calls[u].refused \in 0..minted
  BY DEF TokenInv, CallShape
<1>13. TokenShape'
  BY <1>2, <1>10 DEF TokenShape, NoToken
<1>14. ASSUME NEW u \in Threads PROVE CallShape(calls[u])'
  <2>1. CASE u = t
    BY <2>1, <1>1, <1>2, <1>8, <1>9, <1>12 DEF TokenInv, CallShape, IsCall
  <2>2. CASE u # t
    BY <2>2, <1>2, <1>9 DEF TokenInv, CallShape
  <2> QED BY <2>1, <2>2
<1>15. ASSUME NEW u \in Threads PROVE StoredOnce(u)'
  <2>1. CASE u = t
    BY <2>1, <1>2, <1>8, <1>9, <1>11, <1>12 DEF StoredOnce
  <2>2. CASE u # t /\ calls[u].at = "store"
    <3>1. calls[u] # Ready /\ d.value # calls[u].value
      BY <2>2, <1>2, <1>8, <1>12 DEF Ready
    <3>2. d.refused # calls[u].value /\ token.value # calls[u].value
      BY <2>2, <1>1, <1>8 DEF TokenInv, StoredOnce
    <3> QED BY <2>2, <3>1, <3>2, <1>2, <1>9 DEF TokenInv, StoredOnce
  <2>3. CASE u # t /\ calls[u].at # "store"
    BY <2>3, <1>9 DEF StoredOnce
  <2> QED BY <2>1, <2>2, <2>3
<1>16. ASSUME NEW u \in Threads PROVE NeverBack(u)'
  <2>1. CASE u = t
    BY <2>1, <1>1, <1>2, <1>8, <1>9, <1>12 DEF NeverBack, TokenInv
  <2>2. CASE u # t
    BY <2>2, <1>2, <1>9 DEF NeverBack, TokenInv
  <2> QED BY <2>1, <2>2
<1> QED BY <1>9, <1>13, <1>14, <1>15, <1>16 DEF TokenInv

LEMMA StoreKeeps == ASSUME TokenInv, NEW t \in Threads, Store(t) PROVE TokenInv'
<1>1. calls[t] # Ready /\ IsCall(calls[t]) /\ calls[t].at = "store" /\ calls[t].value \in 1..minted
  BY DEF Store, TokenInv, TokenShape, CallShape, Ready
<1>2. minted \in Nat /\ minted' = minted /\ token'.value = calls[t].value
  BY DEF Store, KeepKeycloak, TokenInv, TokenShape
<1>3. PICK d : d = [calls[t] EXCEPT !.at = "send"]
  OBVIOUS
<1>4. d.at = "send" /\ Like(d, calls[t])
  BY <1>1, <1>3, SetAt, Zenon
<1>5. calls' = [calls EXCEPT ![t] = d]
  BY <1>3, Zenon DEF Store, SetCall
<1> HIDE <1>3
<1>6. IsCall(d) /\ d.at = "send" /\ d.value = calls[t].value /\ d.try = calls[t].try /\ d.refused = calls[t].refused
  BY <1>4 DEF Like
<1>7. calls' = [u \in Threads |-> calls'[u]] /\ calls'[t] = d /\ \A u \in Threads \ {t} : calls'[u] = calls[u]
  BY <1>5 DEF TokenInv
<1>8. TokenShape'
  BY <1>1, <1>2 DEF TokenShape
<1>9. ASSUME NEW u \in Threads PROVE CallShape(calls[u])'
  <2>1. CASE u = t
    BY <2>1, <1>1, <1>2, <1>6, <1>7 DEF TokenInv, CallShape, IsCall
  <2>2. CASE u # t
    BY <2>2, <1>2, <1>7 DEF TokenInv, CallShape
  <2> QED BY <2>1, <2>2
<1>10. ASSUME NEW u \in Threads PROVE StoredOnce(u)'
  <2>1. CASE u = t
    BY <2>1, <1>6, <1>7 DEF StoredOnce
  <2>2. CASE u # t /\ calls[u].at = "store"
    <3>1. calls[u] # Ready
      BY <2>2 DEF Ready
    <3>2. calls[t].value # calls[u].value /\ calls[t].refused # calls[u].value
      BY <2>2, <1>1 DEF TokenInv, StoredOnce
    <3> QED BY <2>2, <3>1, <3>2, <1>2, <1>6, <1>7 DEF TokenInv, StoredOnce
  <2>3. CASE u # t /\ calls[u].at # "store"
    BY <2>3, <1>7 DEF StoredOnce
  <2> QED BY <2>1, <2>2, <2>3
<1>11. ASSUME NEW u \in Threads PROVE NeverBack(u)'
  <2>1. CASE u = t
    BY <2>1, <1>1, <1>2, <1>6, <1>7 DEF NeverBack, TokenInv
  <2>2. CASE u # t
    BY <2>2, <1>1, <1>2, <1>7 DEF NeverBack, StoredOnce, TokenInv
  <2> QED BY <2>1, <2>2
<1> QED BY <1>7, <1>8, <1>9, <1>10, <1>11 DEF TokenInv

\* A 401 and a second attempt: what was refused is forgotten, and nobody is
\* about to store it.
LEMMA UnauthorizedKeeps == ASSUME TokenInv, NEW t \in Threads, Unauthorized(t) PROVE TokenInv'
<1>1. calls[t] # Ready /\ IsCall(calls[t]) /\ calls[t].at = "send" /\ calls[t].value \in 1..minted
  BY DEF Unauthorized, TokenInv, TokenShape, CallShape, Ready
<1>2. minted \in Nat /\ minted' = minted
  BY DEF Unauthorized, KeepKeycloak, TokenInv, TokenShape
<1>3. CASE ~(Retrying /\ calls[t].try = 1)
  <2>1. token' = token /\ calls' = [calls EXCEPT ![t] = Ended(calls[t], "error")]
    BY <1>3, Zenon DEF Unauthorized, SetCall
  <2>2. "error" \notin {"send", "store"} /\ calls[t].at # "store"
    BY <1>1
  <2> QED BY <1>1, <1>2, <2>1, <2>2, EndedKeeps, Zenon
<1>4. CASE Retrying /\ calls[t].try = 1
  <2>1. PICK b : b = [calls[t] EXCEPT !.try = 2]
    OBVIOUS
  <2>2. PICK v : v = calls[t].value
    OBVIOUS
  <2>3. PICK c : c = [b EXCEPT !.refused = v]
    OBVIOUS
  <2>4. PICK d : d = [c EXCEPT !.at = "check"]
    OBVIOUS
  <2>5. IsCall(b) /\ b.value = calls[t].value /\ b.try = 2
    BY <1>1, <2>1, SetTry, Zenon
  <2>6. IsCall(c) /\ c.value = b.value /\ c.try = b.try /\ c.refused = v
    BY <2>3, <2>5, SetRefused, Zenon
  <2>7. d.at = "check" /\ Like(d, c)
    BY <2>4, <2>6, SetAt, Zenon
  <2>8. calls' = [calls EXCEPT ![t] = d] /\ token' = NoToken
    BY <1>4, <2>1, <2>2, <2>3, <2>4, Zenon DEF Unauthorized, SetCall, ForgetToken
  <2>9. IsCall(d) /\ d.at = "check" /\ d.value = calls[t].value /\ d.try = 2 /\ d.refused = calls[t].value
    BY <2>2, <2>5, <2>6, <2>7 DEF Like
  <2> HIDE <2>1, <2>3, <2>4
  <2>10. calls' = [u \in Threads |-> calls'[u]] /\ calls'[t] = d /\ \A u \in Threads \ {t} : calls'[u] = calls[u]
    BY <2>8 DEF TokenInv
  <2>11. TokenShape' /\ token'.value = 0
    BY <1>2, <2>8 DEF TokenShape, NoToken
  <2>12. ASSUME NEW u \in Threads PROVE CallShape(calls[u])'
    <3>1. CASE u = t
      BY <3>1, <1>1, <1>2, <2>9, <2>10 DEF TokenInv, CallShape, IsCall
    <3>2. CASE u # t
      BY <3>2, <1>2, <2>10 DEF TokenInv, CallShape
    <3> QED BY <3>1, <3>2
  <2>13. ASSUME NEW u \in Threads PROVE StoredOnce(u)'
    <3>1. CASE u = t
      BY <3>1, <2>9, <2>10 DEF StoredOnce
    <3>2. CASE u # t /\ calls[u].at = "store"
      <4>1. calls[u] # Ready /\ calls[u].value # 0
        BY <3>2 DEF Ready, TokenInv, CallShape
      <4>2. calls[t].value # calls[u].value
        BY <3>2, <1>1 DEF TokenInv, StoredOnce
      <4> QED BY <3>2, <4>1, <4>2, <2>9, <2>10, <2>11 DEF TokenInv, StoredOnce
    <3>3. CASE u # t /\ calls[u].at # "store"
      BY <3>3, <2>10 DEF StoredOnce
    <3> QED BY <3>1, <3>2, <3>3
  <2>14. ASSUME NEW u \in Threads PROVE NeverBack(u)'
    <3>1. CASE u = t
      BY <3>1, <1>1, <2>9, <2>10, <2>11 DEF NeverBack, TokenInv
    <3>2. CASE u # t
      BY <3>2, <2>10, <2>11 DEF NeverBack, TokenInv, CallShape
    <3> QED BY <3>1, <3>2
  <2> QED BY <2>10, <2>11, <2>12, <2>13, <2>14 DEF TokenInv
<1> QED BY <1>3, <1>4

LEMMA AnsweredKeeps == ASSUME TokenInv, NEW t \in Threads, Answered(t) PROVE TokenInv'
<1> DEFINE page == PageFrom(calls[t].first, IF calls[t].walk = "users" THEN PageSize + 1 ELSE PageSize)
           kept == SubSeq(page, 1, IF Len(page) < PageSize THEN Len(page) ELSE PageSize)
<1>1. calls[t] # Ready /\ IsCall(calls[t]) /\ calls[t].at = "send"
  BY DEF Answered, TokenInv, CallShape, Ready
<1>2. minted' = minted /\ token' = token
  BY DEF Answered, KeepKeycloak
<1>3. "done" \notin {"send", "store"} /\ calls[t].at # "store"
  BY <1>1
<1>4. CASE calls[t].walk = "one"
  <2>1. calls' = [calls EXCEPT ![t] = Ended(calls[t], "done")]
    BY <1>4, Zenon DEF Answered, SetCall
  <2> QED BY <1>1, <1>2, <1>3, <2>1, EndedKeeps, Zenon
<1>5. CASE calls[t].walk # "one"
  <2>1. PICK got : got = calls[t].got \o kept
    OBVIOUS
  <2>2. PICK a : a = [calls[t] EXCEPT !.got = got]
    OBVIOUS
  <2>3. Like(a, calls[t])
    BY <1>1, <2>2, SetGot, Zenon
  <2>4. CASE IsLast(calls[t].walk, page)
    <3>1. PICK d : d = Ended(a, "done")
      OBVIOUS
    <3>2. IsCall(a)
      BY <2>3, Zenon DEF Like
    <3>3. d.at = "done" /\ Like(d, a)
      BY <3>1, <3>2, SetAt, Zenon DEF Ended
    <3>4. calls' = [calls EXCEPT ![t] = d]
      BY <1>5, <2>1, <2>2, <2>4, <3>1, Zenon DEF Answered, SetCall
    <3>5. Like(d, calls[t])
      BY <2>3, <3>3, Zenon DEF Like
    <3> HIDE <2>1, <2>2, <3>1
    <3> HIDE DEF page, kept
    <3> QED BY <1>1, <1>2, <3>3, <3>4, <3>5, CallGoesOn
  <2>5. CASE ~IsLast(calls[t].walk, page)
    <3>1. PICK first : first = a.first + PageSize
      OBVIOUS
    <3>2. PICK b : b = [a EXCEPT !.first = first]
      OBVIOUS
    <3>3. PICK c : c = [b EXCEPT !.at = "check"]
      OBVIOUS
    <3>4. PICK e : e = [c EXCEPT !.try = 1]
      OBVIOUS
    <3>5. PICK d : d = [e EXCEPT !.refused = 0]
      OBVIOUS
    <3>6. IsCall(a) /\ a.value = calls[t].value
      BY <2>3, Zenon DEF Like
    <3>7. IsCall(b) /\ b.value = a.value
      BY <3>2, <3>6, SetFirst, Zenon DEF Like
    <3>8. IsCall(c) /\ c.at = "check" /\ c.value = b.value
      BY <3>3, <3>7, SetAt, Zenon DEF Like
    <3>9. IsCall(e) /\ e.at = c.at /\ e.value = c.value /\ e.try = 1
      BY <3>4, <3>8, SetTry, Zenon
    <3>10. IsCall(d) /\ d.at = e.at /\ d.value = e.value /\ d.try = e.try /\ d.refused = 0
      BY <3>5, <3>9, SetRefused, Zenon
    <3>11. calls' = [calls EXCEPT ![t] = d]
      BY <1>5, <2>1, <2>2, <2>5, <3>1, <3>2, <3>3, <3>4, <3>5, Zenon DEF Answered, SetCall
    <3> HIDE <2>1, <2>2, <3>1, <3>2, <3>3, <3>4, <3>5
    <3> HIDE DEF page, kept
    <3>12. d.at = "check" /\ d.value = calls[t].value /\ d.try = 1 /\ d.refused = 0
      BY <3>6, <3>7, <3>8, <3>9, <3>10
    <3>13. CallShape(d) /\ d # Ready
      <4>1. d # Ready
        BY <3>12 DEF Ready
      <4> QED BY <4>1, <1>1, <3>10, <3>12 DEF TokenInv, TokenShape, CallShape
    <3>14. d.at # "store" /\ d.try # 2
      BY <3>12
    <3> QED BY <1>1, <1>2, <3>11, <3>12, <3>13, <3>14, OneCallMoves, Zenon
  <2> QED BY <2>4, <2>5
<1> QED BY <1>4, <1>5

LEMMA TokenStep == TokenInv /\ [KeycloakNext]_keycloakVars => TokenInv'
<1> SUFFICES ASSUME TokenInv, [KeycloakNext]_keycloakVars PROVE TokenInv'
  OBVIOUS
<1>1. ASSUME UNCHANGED <<token, minted, calls>> PROVE TokenInv'
  BY <1>1 DEF TokenInv, TokenShape, CallShape, StoredOnce, NeverBack
<1>2. CASE resolve_groups \/ Revoke \/ PersonComesOrGoes \/ Tick \/ UNCHANGED keycloakVars
  <2>1. UNCHANGED <<token, minted, calls>>
    BY <1>2 DEF resolve_groups, Revoke, PersonComesOrGoes, Tick, keycloakVars
  <2> QED BY <2>1, <1>1
<1>3. ASSUME NEW t \in Threads, NEW walk \in Walks, Begin(t, walk) PROVE TokenInv'
  <2>1. PICK c : c = Opened(walk)
    OBVIOUS
  <2>2. CallShape(c) /\ c # Ready /\ c.at = "check" /\ c.value = 0 /\ c.refused = 0 /\ c.try = 1
    BY <2>1 DEF CallShape, IsCall, Opened, Ready, TokenInv, TokenShape
  <2>3. calls' = [calls EXCEPT ![t] = c] /\ minted' = minted /\ token' = token
    BY <1>3, <2>1, Zenon DEF Begin, SetCall, KeepKeycloak
  <2> HIDE <2>1
  <2>4. c.at # "store" /\ c.try # 2 /\ c.value \in {0, token.value}
    BY <2>2
  <2> QED BY <2>2, <2>3, <2>4, OneCallMoves, Zenon
<1>4. ASSUME NEW t \in Threads, MintFails(t) \/ OtherError(t) PROVE TokenInv'
  <2>1. calls[t].at \in {"mint", "send"} /\ minted' = minted /\ token' = token
    BY <1>4 DEF MintFails, OtherError, KeepKeycloak
  <2>2. calls' = [calls EXCEPT ![t] = Ended(calls[t], "error")]
    BY <1>4, Zenon DEF MintFails, OtherError, SetCall
  <2>3. "error" \notin {"send", "store"} /\ calls[t] # Ready /\ calls[t].at # "store"
    BY <2>1 DEF Ready
  <2> QED BY <2>1, <2>2, <2>3, EndedKeeps, Zenon
<1> QED
  BY <1>2, <1>3, <1>4, ReadTokenKeeps, ReadExpiryKeeps, ReadValueKeeps, MintKeeps, StoreKeeps, UnauthorizedKeeps,
     AnsweredKeeps, Zenon DEF KeycloakNext

LEMMA RetriesAreNew == KeycloakSpec => []RetryIsNew
<1>1. TokenInv => RetryIsNew
  BY DEF TokenInv, NeverBack, RetryIsNew, Ready
<1> QED BY <1>1, TokensAtFirst, TokenStep, PTL DEF KeycloakSpec

\* What is granted is the group at the configured path, whatever other groups
\* share its name.
LEMMA GrantsTheNamedGroup == KeycloakSpec => []GrantsNamedGroup
<1>1. KeycloakInit => GrantsNamedGroup
  BY DEF KeycloakInit, GrantsNamedGroup
<1>2. GrantsNamedGroup /\ [KeycloakNext]_keycloakVars => GrantsNamedGroup'
  <2> SUFFICES ASSUME GrantsNamedGroup, [KeycloakNext]_keycloakVars PROVE GrantsNamedGroup'
    OBVIOUS
  <2>1. CASE resolve_groups
    <3>0. GivenId = 0
      BY <2>1 DEF resolve_groups, GrantsNamedGroup
    <3>1. PICK g \in Groups : g.path = Configured
      BY <2>1 DEF resolve_groups
    <3> DEFINE me == CHOOSE h \in Groups : h.path = Configured
    <3>2. me \in Groups /\ me.path = Configured
      BY <3>1, Zenon
    <3>3. me \in ByName(Configured)
      BY <3>2, Zenon DEF ByName
    <3>4. Resolved(Configured) \in ByName(Configured) /\ Resolved(Configured).path = Configured
      BY <3>2, <3>3, Zenon DEF Resolved
    <3>5. Resolved(Configured) \in Groups
      BY <3>4, Zenon DEF ByName
    <3> QED BY <2>1, <3>0, <3>4, <3>5, Zenon DEF resolve_groups, GrantsNamedGroup
  <2>2. CASE UNCHANGED groupId
    BY <2>2 DEF GrantsNamedGroup
  <2>3. resolve_groups \/ UNCHANGED groupId
    <3>1. ASSUME NEW t \in Threads, Answered(t) PROVE UNCHANGED groupId
      BY <3>1, Zenon DEF Answered, KeepKeycloak
    <3>2. ASSUME NEW t \in Threads, Unauthorized(t) \/ OtherError(t) \/ MintFails(t) \/ Mint(t) \/ Store(t)
          PROVE  UNCHANGED groupId
      BY <3>2, Zenon DEF Unauthorized, OtherError, MintFails, Mint, Store, KeepKeycloak
    <3>3. ASSUME NEW t \in Threads, ReadToken(t) \/ ReadExpiry(t) \/ ReadValue(t) PROVE UNCHANGED groupId
      BY <3>3, Zenon DEF ReadToken, ReadExpiry, ReadValue, KeepKeycloak
    <3>4. ASSUME NEW t \in Threads, NEW walk \in Walks, Begin(t, walk) PROVE UNCHANGED groupId
      BY <3>4, Zenon DEF Begin, KeepKeycloak
    <3>5. ASSUME Revoke \/ PersonComesOrGoes \/ Tick \/ UNCHANGED keycloakVars PROVE UNCHANGED groupId
      BY <3>5, Zenon DEF Revoke, PersonComesOrGoes, Tick, keycloakVars
    <3> QED BY <3>1, <3>2, <3>3, <3>4, <3>5, Zenon DEF KeycloakNext
  <2> QED BY <2>1, <2>2, <2>3
<1> QED BY <1>1, <1>2, PTL DEF KeycloakSpec

\* The clients of the realm (_request, _admin_get, _lookup_group_id), whatever
\* other threads mint, store and forget meanwhile: the retry after a 401 carries
\* another token, because a token goes into the cache once and is forgotten when
\* it is refused; and a grant is to the group configured.
THEOREM RealmCallsAreRight == KeycloakSpec => []RealmCallsRight
  BY RetriesAreNew, GrantsTheNamedGroup, PTL DEF RealmCallsRight
=============================================================================
