--------------------------- MODULE KeycloakClient ---------------------------
(***************************************************************************)
(* The three clients of Keycloak's admin API: the user directory           *)
(* (user_directory.py), the granter of service groups                      *)
(* (keycloak_service_access.py) and the group membership of the admin      *)
(* panel (group_membership.py).  Each is one object used by the threads    *)
(* that serve requests; the cached token is an attribute that none of them *)
(* locks, read again at each mention.                                      *)
(*                                                                         *)
(* Keycloak (external) mints tokens, which end or are revoked, and lists   *)
(* people by offset while they come and go.                                *)
(***************************************************************************)
EXTENDS Integers, Sequences, FiniteSets, SequencesExt

CONSTANTS
  Threads,
  Retrying,      \* the directory and the granter retry a 401; the panel's client does not
  Groups,        \* the realm's groups: [path, name, id]
  Configured,    \* the path granted
  GivenId,       \* the id the configuration gives that path, 0 for none
  RealmUsers,    \* 1..n, in the order Keycloak lists them
  PageSize,
  Lifetime,      \* of a token, less the margin the clients keep
  MaxMinted, MaxTime, MaxRevocations, MaxChanges   \* bounds

VARIABLES
  token,      \* self._token
  minted,     \* tokens minted so far; the latest is its number
  ends,       \* when each minted token ends, at Keycloak
  revoked,
  now,
  groupId,    \* _group_ids[Configured]: the id configured, or resolved at startup, 0 before
  people,     \* who is there
  changes,
  began,      \* who was there when each thread's walk began, and
  left,       \* whether anybody has left since (history)
  calls       \* what each thread is doing
keycloakVars == <<token, minted, ends, revoked, now, groupId, people, changes, began, left, calls>>

NoToken == [value |-> 0]
Ready == [at |-> "ready"]
\* walk: "one" is a single request; "members" (a group's, or the whole realm for
\* the inventory) and "users" list page by page.
Walks == {"one", "members", "users"}

Opened(walk) ==
  [at |-> "check", walk |-> walk, now |-> 0, value |-> 0, try |-> 1, refused |-> 0, first |-> 0, got |-> <<>>]
Ended(c, outcome) == [c EXCEPT !.at = outcome]
SetCall(t, c) == calls' = [calls EXCEPT ![t] = c]
KeepKeycloak == UNCHANGED <<minted, ends, revoked, now, groupId, people, changes>>

---------------------------------------------------------------------------
(* The startup of the granter *)

\* _lookup_group_id: a search by name, all levels of it, then the exact path.
ByName(path) == LET me == CHOOSE g \in Groups : g.path = path IN {g \in Groups : g.name = me.name}
FirstByName(path) == CHOOSE g \in ByName(path) : \A h \in ByName(path) : g.id <= h.id
Resolved(path) == CHOOSE g \in ByName(path) : g.path = path

\* A path whose id is configured is not looked up; a group that is not in the
\* realm stops the start.
resolve_groups ==
  /\ groupId = 0 /\ \E g \in Groups : g.path = Configured
  /\ groupId' = Resolved(Configured).id
  /\ UNCHANGED <<token, minted, ends, revoked, now, people, changes, began, left, calls>>

---------------------------------------------------------------------------
(* A call *)

\* grant, find_provisioned_account, search_groups, add_member; list_members,
\* the panel's pages of users, the inventory's walk of the realm.
Begin(t, walk) ==
  /\ calls[t].at = "ready" /\ groupId # 0
  /\ SetCall(t, Opened(walk))
  /\ began' = [began EXCEPT ![t] = people] /\ left' = [left EXCEPT ![t] = FALSE]
  /\ UNCHANGED token /\ KeepKeycloak

\* _access_token: self._token is read, then its expiry, then its value.
ReadToken(t) ==
  /\ calls[t].at = "check"
  /\ SetCall(t, [calls[t] EXCEPT !.now = now, !.at = IF token = NoToken THEN "mint" ELSE "expiry"])
  /\ UNCHANGED <<token, began, left>> /\ KeepKeycloak

ReadExpiry(t) ==
  /\ calls[t].at = "expiry"
  /\ SetCall(t, IF token = NoToken THEN Ended(calls[t], "escaped")
            ELSE [calls[t] EXCEPT !.at = IF token.expires > calls[t].now THEN "value" ELSE "mint"])
  /\ UNCHANGED <<token, began, left>> /\ KeepKeycloak

ReadValue(t) ==
  /\ calls[t].at = "value"
  /\ SetCall(t, IF token = NoToken THEN Ended(calls[t], "escaped") ELSE [calls[t] EXCEPT !.value = token.value, !.at = "send"])
  /\ UNCHANGED <<token, began, left>> /\ KeepKeycloak

Mint(t) ==
  /\ calls[t].at = "mint" /\ minted < MaxMinted
  /\ minted' = minted + 1
  /\ ends' = Append(ends, now + Lifetime)
  /\ SetCall(t, [calls[t] EXCEPT !.value = minted + 1, !.at = "store"])
  /\ UNCHANGED <<token, revoked, now, groupId, people, changes, began, left>>

\* The expiry counts from before the request for the token.
Store(t) ==
  /\ calls[t].at = "store"
  /\ token' = [value |-> calls[t].value, expires |-> calls[t].now + Lifetime]
  /\ SetCall(t, [calls[t] EXCEPT !.at = "send"])
  /\ UNCHANGED <<began, left>> /\ KeepKeycloak

MintFails(t) ==
  /\ calls[t].at = "mint"
  /\ SetCall(t, Ended(calls[t], "error"))
  /\ UNCHANGED <<token, began, left>> /\ KeepKeycloak

Valid(value) == value \notin revoked /\ now < ends[value]

\* A 401: the token is forgotten and the request sent once more.
KeepToken == UNCHANGED token
ForgetToken == token' = NoToken

Unauthorized(t) ==
  /\ calls[t].at = "send" /\ ~Valid(calls[t].value)
  /\ IF Retrying /\ calls[t].try = 1
     THEN /\ ForgetToken
          /\ SetCall(t, [calls[t] EXCEPT !.try = 2, !.refused = calls[t].value, !.at = "check"])
     ELSE /\ UNCHANGED token
          /\ SetCall(t, Ended(calls[t], "error"))
  /\ UNCHANGED <<began, left>> /\ KeepKeycloak

OtherError(t) ==
  /\ calls[t].at = "send"
  /\ SetCall(t, Ended(calls[t], "error"))
  /\ UNCHANGED <<token, began, left>> /\ KeepKeycloak

InOrder(S) == SetToSortSeq(S, <)
PageFrom(first, n) == LET all == InOrder(people) IN
  SubSeq(all, first + 1, IF first + n < Len(all) THEN first + n ELSE Len(all))

StopsWhenFull(walk, page) == Len(page) <= PageSize

\* A short page is the last; the panel asks for one more than it shows.
IsLast(walk, page) ==
  IF walk = "users" THEN Len(page) <= PageSize ELSE Len(page) < PageSize

Answered(t) ==
  LET c    == calls[t]
      page == PageFrom(c.first, IF c.walk = "users" THEN PageSize + 1 ELSE PageSize)
      kept == SubSeq(page, 1, IF Len(page) < PageSize THEN Len(page) ELSE PageSize)
      all  == [c EXCEPT !.got = @ \o kept]
  IN
  /\ c.at = "send" /\ Valid(c.value)
  /\ SetCall(t, IF c.walk = "one" THEN Ended(c, "done")
            ELSE IF IsLast(c.walk, page) THEN Ended(all, "done")
            ELSE [all EXCEPT !.first = @ + PageSize, !.at = "check", !.try = 1, !.refused = 0])
  /\ UNCHANGED <<token, began, left>> /\ KeepKeycloak

---------------------------------------------------------------------------
(* Keycloak *)

Revoke ==
  /\ minted > 0 /\ Cardinality(revoked) < MaxRevocations
  /\ \E v \in 1..minted : revoked' = revoked \cup {v}
  /\ UNCHANGED <<token, minted, ends, now, groupId, people, changes, began, left, calls>>

PersonComesOrGoes ==
  /\ changes < MaxChanges
  /\ \E p \in RealmUsers :
       IF p \in people
       THEN people' = people \ {p} /\ left' = [t \in Threads |-> TRUE]
       ELSE people' = people \cup {p} /\ UNCHANGED left
  /\ changes' = changes + 1
  /\ UNCHANGED <<token, minted, ends, revoked, now, groupId, began, calls>>

Tick ==
  /\ now < MaxTime
  /\ now' = now + 1
  /\ UNCHANGED <<token, minted, ends, revoked, groupId, people, changes, began, left, calls>>

KeycloakInit ==
  /\ token = NoToken /\ minted = 0 /\ ends = <<>> /\ revoked = {} /\ now = 0 /\ groupId = GivenId
  /\ people \in SUBSET RealmUsers
  /\ changes = 0 /\ began = [t \in Threads |-> {}] /\ left = [t \in Threads |-> FALSE] /\ calls = [t \in Threads |-> Ready]

KeycloakNext ==
  \/ resolve_groups \/ Revoke \/ PersonComesOrGoes \/ Tick
  \/ \E t \in Threads :
       \/ \E walk \in Walks : Begin(t, walk)
       \/ ReadToken(t) \/ ReadExpiry(t) \/ ReadValue(t) \/ Mint(t) \/ Store(t) \/ MintFails(t)
       \/ Unauthorized(t) \/ OtherError(t) \/ Answered(t)

KeycloakSpec == KeycloakInit /\ [][KeycloakNext]_keycloakVars

---------------------------------------------------------------------------
(* Properties *)

\* A request is never sent again with the token that was just refused, whatever
\* other threads put in the cache meanwhile (_request, _admin_get).
RetryIsNew == \A t \in Threads : calls[t].at = "send" /\ calls[t].try = 2 => calls[t].value # calls[t].refused

\* A listing by offset misses nobody who was there throughout when nobody left
\* while it was read, and is exact when nobody came either (list_members,
\* admin_users, load_directory_from_keycloak).
ListingComplete ==
  \A t \in Threads :
    calls[t].at = "done" /\ calls[t].walk # "one" /\ ~left[t] =>
      /\ began[t] \subseteq ToSet(calls[t].got)
      /\ began[t] = people => calls[t].got = InOrder(people)

\* The group granted is the one of the configured id or, where none is, the one
\* whose whole path is configured, not a namesake elsewhere in the tree
\* (resolve_groups, _lookup_group_id).
GrantsNamedGroup ==
  IF GivenId # 0 THEN groupId = GivenId
  ELSE groupId # 0 => \E g \in Groups : g.id = groupId /\ g.path = Configured

\* What the clients send to the realm: never a token that was just refused, and a
\* grant only to the group configured.
RealmCallsRight == RetryIsNew /\ GrantsNamedGroup

\* ServiceAccessGranter.grant, UserDirectoryClient: what goes wrong is an error of
\* the client's own, which its callers handle.
ErrorsAreItsOwn == \A t \in Threads : calls[t].at # "escaped"
=============================================================================
