------------------------------ MODULE JwksClient ------------------------------
(***************************************************************************)
(* The signing keys of the identity provider, as every request that        *)
(* verifies a token shares them (frames/auth.py, _SharedJWKClient): a      *)
(* cached key set, one fetch at a time whose outcome all waiters share, a   *)
(* forced refresh for an unknown key at most once per interval, and the     *)
(* last validated set as a fallback that expires.  The endpoint publishes   *)
(* and withdraws keys meanwhile, and may fail.  The code only compares      *)
(* differences of time.monotonic(), so the model keeps ages, not a clock.   *)
(***************************************************************************)
EXTENDS Naturals

CONSTANTS
  SteadyKids,      \* key ids the endpoint always serves
  RotatingKids,    \* key ids it publishes and withdraws
  Verifiers,       \* requests that verify a token
  ForcedInterval,  \* JWKS_FORCED_REFRESH_MIN_INTERVAL_SECONDS
  Lifespan,        \* JWKS_CACHE_LIFESPAN_SECONDS
  FetchTimeout     \* JWKS_FETCH_TIMEOUT_SECONDS

ASSUME JwksAssumption ==
  /\ ForcedInterval \in Nat /\ Lifespan \in Nat /\ FetchTimeout \in Nat
  /\ SteadyKids \cup RotatingKids # {} /\ SteadyKids \cap RotatingKids = {}

MaxStale == 2 * Lifespan
Kids == SteadyKids \cup RotatingKids
Old == MaxStale + FetchTimeout + ForcedInterval + 2   \* an age nothing tells from a greater one

VARIABLES
  served,      \* the rotating keys the endpoint serves
  keyAge,      \* how long ago each of them was published or withdrawn
  healthy,     \* the endpoint answers every request with its keys
  cache,       \* jwk_set_cache: a key set, its age, whether it is _validated_set
  validated,   \* _validated_set and the age of _validated_at
  forcedAge,   \* the age of _last_forced_refresh
  flight,      \* the fetch that is out: its progress, what it read, its age
  caller,      \* each request's progress in get_signing_key
  verdict      \* the answer the last step gave, with the age of its key

jwksVars == <<served, keyAge, healthy, cache, validated, forcedAge, flight, caller, verdict>>
endpoint == <<served, keyAge, healthy>>

NoSet == [keys |-> {}, age |-> Old, ours |-> FALSE]
NoFlight == [pc |-> "none", keys |-> {}, age |-> 0]
IdleCaller == [pc |-> "idle", kid |-> CHOOSE k \in Kids : TRUE, refresh |-> FALSE, got |-> {}]
NoVerdict == [ok |-> TRUE, served |-> TRUE, age |-> 0]

JwksInit ==
  /\ served = {} /\ keyAge = [k \in RotatingKids |-> Old] /\ healthy \in BOOLEAN
  /\ cache = NoSet /\ validated = NoSet
  /\ forcedAge = Old
  /\ flight = NoFlight
  /\ caller = [c \in Verifiers |-> IdleCaller]
  /\ verdict = NoVerdict

-----------------------------------------------------------------------------
(* No set is used long after the endpoint last confirmed it. *)
FreshEnough == validated.age <= MaxStale

(* _cached_jwk_set: the cache's own lifespan, the identity with the validated
   set, and the validated set's age. *)
HasCached == cache.keys # {} /\ cache.age < Lifespan /\ cache.ours /\ FreshEnough

AnswerVerifier(c, ok) ==
  LET k == caller[c].kid IN
  /\ verdict' = [ok |-> ok, served |-> k \in served \cup SteadyKids,
                 age |-> IF k \in RotatingKids THEN keyAge[k] ELSE Old]
  /\ caller' = [caller EXCEPT ![c] = IdleCaller]

Goes(c, pc) == caller' = [caller EXCEPT ![c].pc = pc] /\ verdict' = NoVerdict

Verify(c, k) ==
  /\ caller[c] = IdleCaller
  /\ caller' = [caller EXCEPT ![c] = [pc |-> "ask", kid |-> k, refresh |-> FALSE, got |-> {}]]
  /\ verdict' = NoVerdict
  /\ UNCHANGED <<endpoint, cache, validated, forcedAge, flight>>

(* _claim_forced_refresh *)
MayForce == forcedAge >= ForcedInterval

(* get_jwk_set, under the flight lock: the cached set, or the fetch that is
   out, or a fetch of one's own. *)
GetJwkSet(c) ==
  LET forced == caller[c].refresh /\ MayForce IN
  /\ caller[c].pc = "ask"
  /\ forcedAge' = IF forced THEN 0 ELSE forcedAge
  /\ \/ /\ ~forced /\ HasCached
        /\ caller' = [caller EXCEPT ![c].pc = "match", ![c].got = cache.keys]
        /\ verdict' = NoVerdict
        /\ UNCHANGED flight
     \/ /\ forced \/ ~HasCached
        /\ flight # NoFlight
        /\ Goes(c, "waiting")
        /\ UNCHANGED flight
     \/ /\ forced \/ ~HasCached
        /\ flight = NoFlight
        /\ flight' = [NoFlight EXCEPT !.pc = "out"]
        /\ Goes(c, "leading")
  /\ UNCHANGED <<endpoint, cache, validated>>

MatchLenient(c) ==
  LET q == caller[c] IN
  /\ q.pc = "match"
  /\ \/ q.kid \in q.got /\ AnswerVerifier(c, TRUE)
     \/ /\ q.kid \notin q.got /\ q.got # {} /\ ~q.refresh
        /\ caller' = [caller EXCEPT ![c] = [q EXCEPT !.pc = "ask", !.refresh = TRUE, !.got = {}]]
        /\ verdict' = NoVerdict
     \/ q.kid \notin q.got /\ (q.refresh \/ q.got = {}) /\ AnswerVerifier(c, q.got # {})
  /\ UNCHANGED <<endpoint, cache, validated, forcedAge, flight>>

(* get_signing_key looks the kid up in the set, and asks once more with
   refresh=True when it is not there; no set at all is an error. *)
Match(c) ==
  LET q == caller[c] IN
  /\ q.pc = "match"
  /\ \/ q.kid \in q.got /\ AnswerVerifier(c, TRUE)
     \/ /\ q.kid \notin q.got /\ q.got # {} /\ ~q.refresh
        /\ caller' = [caller EXCEPT ![c] = [q EXCEPT !.pc = "ask", !.refresh = TRUE, !.got = {}]]
        /\ verdict' = NoVerdict
     \/ q.kid \notin q.got /\ (q.refresh \/ q.got = {}) /\ AnswerVerifier(c, FALSE)
  /\ UNCHANGED <<endpoint, cache, validated, forcedAge, flight>>

(* The endpoint answers with the keys of that moment, or with none. *)
EndpointAnswers ==
  /\ flight.pc = "out"
  /\ \E read \in {served \cup SteadyKids, {}} :
       /\ healthy => read # {}
       /\ flight' = [flight EXCEPT !.pc = "answered", !.keys = read]
  /\ verdict' = NoVerdict
  /\ UNCHANGED <<endpoint, cache, validated, forcedAge, caller>>

(* The library's fetch_data caches what arrived before anybody has looked at it,
   and clears the cache when nothing did. *)
FetchData ==
  /\ flight.pc = "answered"
  /\ flight' = [flight EXCEPT !.pc = "read"]
  /\ cache' = [keys |-> flight.keys, age |-> 0, ours |-> FALSE]
  /\ verdict' = NoVerdict
  /\ UNCHANGED <<endpoint, validated, forcedAge, caller>>

(* _fetch_jwk_set and the end of _fly: a usable set is adopted, else the last
   one reinstated, unless it has gone stale; the flight is cleared and everybody
   who shares it goes on with its outcome. *)
Land ==
  LET outcome == IF flight.keys # {} THEN flight.keys
                 ELSE IF FreshEnough THEN validated.keys ELSE {} IN
  /\ flight.pc = "read"
  /\ validated' = IF flight.keys # {} THEN [keys |-> flight.keys, age |-> 0, ours |-> TRUE]
                  ELSE IF FreshEnough THEN validated ELSE NoSet
  /\ cache' = IF outcome # {} THEN [keys |-> outcome, age |-> 0, ours |-> TRUE]
              ELSE IF validated # NoSet THEN NoSet ELSE cache
  /\ flight' = NoFlight
  /\ caller' = [c \in Verifiers |-> IF caller[c].pc \in {"leading", "waiting"}
                  THEN [caller[c] EXCEPT !.pc = "match", !.got = outcome] ELSE caller[c]]
  /\ verdict' = NoVerdict
  /\ UNCHANGED <<endpoint, forcedAge>>

-----------------------------------------------------------------------------
Rotate(k) ==
  /\ served' = IF k \in served THEN served \ {k} ELSE served \cup {k}
  /\ keyAge' = [keyAge EXCEPT ![k] = 0]
  /\ verdict' = NoVerdict
  /\ UNCHANGED <<healthy, cache, validated, forcedAge, flight, caller>>

Older(age) == IF age < Old THEN age + 1 ELSE age

(* A fetch ends within its timeout; the requests' own steps take no time. *)
JwksTick ==
  /\ \A c \in Verifiers : caller[c].pc \in {"idle", "waiting", "leading"}
  /\ flight.pc = "none" \/ (flight.pc \in {"out", "answered"} /\ flight.age < FetchTimeout)
  /\ keyAge' = [k \in RotatingKids |-> Older(keyAge[k])]
  /\ cache' = [cache EXCEPT !.age = Older(@)]
  /\ validated' = [validated EXCEPT !.age = Older(@)]
  /\ forcedAge' = Older(forcedAge)
  /\ flight' = IF flight = NoFlight THEN flight ELSE [flight EXCEPT !.age = Older(@)]
  /\ verdict' = NoVerdict
  /\ UNCHANGED <<served, healthy, caller>>

JwksNext ==
  \/ \E c \in Verifiers : GetJwkSet(c) \/ Match(c) \/ \E k \in Kids : Verify(c, k)
  \/ EndpointAnswers \/ FetchData \/ Land \/ JwksTick
  \/ \E k \in RotatingKids : Rotate(k)

JwksSpec == JwksInit /\ [][JwksNext]_jwksVars

-----------------------------------------------------------------------------
Ages == 0..Old
KeyRecords == [keys : SUBSET Kids, age : Ages, ours : BOOLEAN]

\* The values the client's variables take.
JwksTypeOK ==
  /\ served \subseteq RotatingKids /\ keyAge \in [RotatingKids -> Ages] /\ healthy \in BOOLEAN
  /\ cache \in KeyRecords /\ validated \in KeyRecords /\ forcedAge \in Ages
  /\ flight \in [pc : {"none", "out", "answered", "read"}, keys : SUBSET Kids, age : 0..FetchTimeout]
  /\ caller \in [Verifiers -> [pc : {"idle", "ask", "match", "waiting", "leading"}, kid : Kids,
                              refresh : BOOLEAN, got : SUBSET Kids]]

(* A token is accepted only on a key the endpoint served within the last
   JWKS_MAX_STALE_SECONDS, plus the fetch that read it, whatever failed and
   whoever reinstated the set meanwhile (_stale_fallback, _cached_jwk_set). *)
AcceptedKeyConfirmed ==
  verdict.ok /\ ~verdict.served => verdict.age <= MaxStale + FetchTimeout

(* With an endpoint that answers, a token signed by a published key is refused
   no longer than a set read just before it was published can stay cached: the
   allowance may be spent by others again and again, the lifespan may not. *)
RejectionBounded ==
  healthy /\ ~verdict.ok /\ verdict.served => verdict.age <= Lifespan + FetchTimeout

(* A key is accepted only while the endpoint can have confirmed it, and a new
   one is refused only for a bounded time. *)
KeysAreCurrent == AcceptedKeyConfirmed /\ RejectionBounded

(* "Worst-case seconds a token signed by a freshly published key can be
   rejected": the interval and one fetch. *)
RejectionWindow ==
  healthy /\ ~verdict.ok /\ verdict.served => verdict.age <= ForcedInterval + FetchTimeout
=============================================================================
