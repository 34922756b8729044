------------------------------ MODULE OciClient -----------------------------
(***************************************************************************)
(* The client of the Cog registries (cogs/oci.py, OCIClient): coroutines   *)
(* of one event loop fetch manifests and blobs, answer the registry's      *)
(* challenges with tokens they share, and follow its redirects.            *)
(*                                                                         *)
(* The registry is external: it may refuse any credential it does not      *)
(* honour, revoke a token, redirect a blob and answer with other content.  *)
(***************************************************************************)
EXTENDS Integers, Sequences, FiniteSets, SequencesExt

CONSTANTS
  Calls,             \* coroutines
  Repos,             \* each with its scope hint
  Scopes,            \* what a challenge may name
  Bodies,            \* contents; a digest is the content it names
  Children,          \* [Bodies -> Seq(Bodies)]: an index's entries, or <<>>
  Carriers,          \* the bodies with a pixi.toml layer
  Tag,               \* a reference that is not a digest
  Refs,              \* the references callers ask for
  Basic, NoAuth,     \* the Authorization headers besides the tokens (1, 2, ...)
  HasCredentials, MaxCachedTokens, MaxBlobRedirects, MaxIndexChildren,
  MaxTokens, MaxCalls   \* bounds

VARIABLES
  tokens,     \* _tokens: <<[key, value]>>, oldest first
  aliases,    \* _scope_aliases, likewise
  locks,      \* _token_locks: the value is the lock's number
  holders,    \* <<the call that holds each lock, or NoCall>>
  useBasic,   \* _use_basic
  expired,    \* tokens whose time is over, by this client's clock
  honoured,   \* headers the registry accepts (external)
  minted,     \* tokens issued (bound)
  calls       \* [Calls -> the coroutine]

ociVars == <<tokens, aliases, locks, holders, useBasic, expired, honoured, minted, calls>>
cacheVars == <<tokens, aliases, locks, holders, useBasic, minted>>

NoCall == "no call"
IdleCall == [at |-> "idle", repo |-> NoCall, kind |-> "none", ref |-> Tag, want |-> Tag, queue |-> <<>>, index |-> Tag,
             presented |-> NoAuth, auth |-> NoAuth, sent |-> NoAuth, scope |-> NoCall, lock |-> 0,
             hops |-> 0, home |-> TRUE, got |-> Tag, count |-> 0]

\* A dict in insertion order, and _bound.
Get(dict, key) == {i \in DOMAIN dict : dict[i].key = key}
Value(dict, key) == dict[CHOOSE i \in Get(dict, key) : TRUE].value
Without(dict, key) == SelectSeq(dict, LAMBDA e : e.key # key)
Bounded(dict) == IF Len(dict) > MaxCachedTokens THEN Tail(dict) ELSE dict
Put(dict, key, value) ==
  IF Get(dict, key) # {} THEN [i \in DOMAIN dict |-> IF dict[i].key = key THEN [key |-> key, value |-> value] ELSE dict[i]]
  ELSE Bounded(Append(dict, [key |-> key, value |-> value]))

\* _proactive_auth: Basic once it was asked for, else the token last used for
\* the scope; an expired one is dropped.
Aliased(repo) == IF Get(aliases, repo) = {} THEN {} ELSE Get(tokens, Value(aliases, repo))
ProactiveAuth(repo) ==
  IF useBasic /\ HasCredentials THEN Basic
  ELSE IF Aliased(repo) = {} \/ Value(tokens, Value(aliases, repo)) \in expired THEN NoAuth
  ELSE Value(tokens, Value(aliases, repo))
DropExpired(repo) ==
  tokens' = IF ~(useBasic /\ HasCredentials) /\ Aliased(repo) # {} /\ Value(tokens, Value(aliases, repo)) \in expired
            THEN Without(tokens, Value(aliases, repo)) ELSE tokens

---------------------------------------------------------------------------
(* One exchange *)

OciInit ==
  /\ tokens = <<>> /\ aliases = <<>> /\ locks = <<>> /\ holders = <<>> /\ useBasic = FALSE
  /\ expired = {} /\ honoured = {} /\ minted = 0
  /\ calls = [c \in Calls |-> IdleCall]

\* _send: the first dispatch of a path.
Dispatched(call, want) ==
  [call EXCEPT !.at = "sent", !.want = want, !.presented = ProactiveAuth(call.repo), !.auth = ProactiveAuth(call.repo),
               !.sent = ProactiveAuth(call.repo), !.hops = 0, !.home = TRUE]

Begin(c, repo, kind, ref) ==
  /\ calls[c].at = "idle" /\ calls[c].count < MaxCalls
  /\ kind = "blob" => ref # Tag
  /\ calls' = [calls EXCEPT ![c] = Dispatched([@ EXCEPT !.repo = repo, !.kind = kind, !.ref = ref, !.count = @ + 1], ref)]
  /\ DropExpired(repo)
  /\ UNCHANGED <<aliases, locks, holders, useBasic, expired, honoured, minted>>

Ends(c, at, got) == calls' = [calls EXCEPT ![c] = [IdleCall EXCEPT !.at = at, !.got = got, !.count = calls[c].count,
                                                                    !.ref = IF at = "done" THEN calls[c].ref ELSE Tag]]

\* 401 for the first time: _answer_challenge, by the first Bearer challenge.
Challenged(c, scope) ==
  /\ calls[c].at = "sent" /\ calls[c].home /\ calls[c].hops = 0 /\ calls[c].auth \notin honoured
  /\ LET known == Get(locks, scope) # {} IN
     /\ locks' = IF known THEN locks ELSE Put(locks, scope, Len(holders) + 1)
     /\ holders' = IF known THEN holders ELSE Append(holders, NoCall)
     /\ calls' = [calls EXCEPT ![c].at = "locking", ![c].scope = scope, ![c].sent = NoAuth, ![c].auth = NoAuth,
                               ![c].lock = IF known THEN Value(locks, scope) ELSE Len(holders) + 1]
  /\ UNCHANGED <<tokens, aliases, useBasic, expired, honoured, minted>>

ChallengedBasic(c) ==
  /\ calls[c].at = "sent" /\ calls[c].home /\ calls[c].hops = 0 /\ calls[c].auth \notin honoured
  /\ IF HasCredentials
     THEN /\ useBasic' = TRUE
          /\ calls' = [calls EXCEPT ![c].at = "resent", ![c].auth = Basic, ![c].sent = Basic]
     ELSE useBasic' = useBasic /\ Ends(c, "error", Tag)
  /\ UNCHANGED <<tokens, aliases, locks, holders, expired, honoured, minted>>

\* async with lock: what is cached, unless it is what was just refused.
KeepRefused(c) == Get(tokens, calls[c].scope) # {}
NotRefused(c) == Get(tokens, calls[c].scope) # {} /\ Value(tokens, calls[c].scope) # calls[c].presented
Usable(c) == NotRefused(c) /\ Value(tokens, calls[c].scope) \notin expired

BearerToken(c) ==
  /\ calls[c].at = "locking" /\ holders[calls[c].lock] = NoCall
  /\ tokens' = IF NotRefused(c) THEN tokens ELSE Without(tokens, calls[c].scope)
  /\ IF Usable(c)
     THEN /\ aliases' = Put(aliases, calls[c].repo, calls[c].scope)
          /\ calls' = [calls EXCEPT ![c].at = "resent", ![c].auth = Value(tokens, calls[c].scope),
                                    ![c].sent = Value(tokens, calls[c].scope), ![c].lock = 0, ![c].scope = NoCall]
          /\ UNCHANGED holders
     ELSE /\ holders' = [holders EXCEPT ![calls[c].lock] = c]
          /\ calls' = [calls EXCEPT ![c].at = "minting"]
          /\ UNCHANGED aliases
  /\ UNCHANGED <<locks, useBasic, expired, honoured, minted>>

Released(c) == IF calls[c].at = "minting" THEN [holders EXCEPT ![calls[c].lock] = NoCall] ELSE holders

\* _mint_token and _store_token; a token too short-lived to keep is used once.
MintToken(c, lasting) ==
  /\ calls[c].at = "minting" /\ minted < MaxTokens
  /\ minted' = minted + 1
  /\ honoured' = honoured \cup {minted + 1}
  /\ IF lasting
     THEN /\ tokens' = Put(SelectSeq(tokens, LAMBDA e : e.value \notin expired), calls[c].scope, minted + 1)
          /\ aliases' = Put(aliases, calls[c].repo, calls[c].scope)
     ELSE UNCHANGED <<tokens, aliases>>
  /\ holders' = Released(c)
  /\ calls' = [calls EXCEPT ![c].at = "resent", ![c].auth = minted + 1, ![c].sent = minted + 1, ![c].lock = 0, ![c].scope = NoCall]
  /\ UNCHANGED <<locks, useBasic, expired>>

\* _follow_redirects: the header goes only to the registry's own origin.
HopHeadersKept(call, home) == call.auth
HopHeaders(call, home) == IF home THEN call.auth ELSE NoAuth

Redirected(c, home) ==
  /\ calls[c].at \in {"sent", "resent"} /\ calls[c].kind = "blob" /\ calls[c].hops < MaxBlobRedirects
  /\ calls[c].home => calls[c].auth \in honoured
  /\ calls' = [calls EXCEPT ![c].hops = @ + 1, ![c].home = home, ![c].sent = HopHeaders(calls[c], home)]
  /\ UNCHANGED <<cacheVars, expired, honoured>>

---------------------------------------------------------------------------
(* What an answer holds *)

MatchesHeader(call, body, asserted) == call.kind = "manifest" => asserted \in {Tag, body}

\* _verify_digest; _fetch_manifest: the body's own digest against the one asked
\* for and the one the registry asserts.
Matches(call, body, asserted) ==
  /\ call.want # Tag => body = call.want
  /\ call.kind = "manifest" => asserted \in {Tag, body}

IsIndex(body) == Children[body] # <<>>
FirstChildren(body) == SelectSeq(Children[body], LAMBDA b : \E i \in 1..MaxIndexChildren : i <= Len(Children[body]) /\ Children[body][i] = b)

\* get_manifest, _resolve_index: the first child that is no index and carries a
\* pixi.toml; the children are fetched one by one.
Answered(c, body, asserted) ==
  /\ calls[c].at \in {"sent", "resent"}
  /\ calls[c].home => calls[c].auth \in honoured
  /\ asserted \in {Tag, body} \cup (IF calls[c].want = Tag THEN {} ELSE {calls[c].want})
  /\ LET call == calls[c]
         queue == IF call.index = Tag THEN FirstChildren(body) ELSE call.queue
         next == [call EXCEPT !.queue = Tail(queue), !.index = IF call.index = Tag THEN body ELSE @]
         found == IF call.index = Tag THEN ~IsIndex(body) ELSE ~IsIndex(body) /\ body \in Carriers
     IN CASE ~Matches(call, body, asserted) -> Ends(c, "error", Tag) /\ UNCHANGED tokens
          [] Matches(call, body, asserted) /\ (call.kind = "blob" \/ found) ->
               Ends(c, "done", body) /\ UNCHANGED tokens
          [] OTHER ->
               IF queue = <<>> THEN Ends(c, "error", Tag) /\ UNCHANGED tokens
               ELSE calls' = [calls EXCEPT ![c] = Dispatched(next, Head(queue))] /\ DropExpired(call.repo)
  /\ UNCHANGED <<aliases, locks, holders, useBasic, expired, honoured, minted>>

\* Any other status, a transport error, too many bytes or redirects, a second
\* 401, or a cancellation at an await: the lock is released on the way out.
Fails(c) ==
  /\ calls[c].at \in {"sent", "resent", "locking", "minting"}
  /\ Ends(c, "error", Tag)
  /\ holders' = Released(c)
  /\ UNCHANGED <<tokens, aliases, locks, useBasic, expired, honoured, minted>>

Return(c) ==
  /\ calls[c].at \in {"done", "error"}
  /\ calls' = [calls EXCEPT ![c] = [IdleCall EXCEPT !.count = calls[c].count]]
  /\ UNCHANGED <<cacheVars, expired, honoured>>

\* The world: a token's time ends, the registry revokes one or takes Basic.
TokenExpires ==
  /\ \E t \in (1..minted) \ expired : expired' = expired \cup {t} /\ honoured' = honoured \ {t}
  /\ UNCHANGED <<cacheVars, calls>>

RegistryRevokes ==
  /\ \E h \in honoured : honoured' = honoured \ {h}
  /\ UNCHANGED <<cacheVars, expired, calls>>

RegistryTakesBasic ==
  /\ HasCredentials /\ Basic \notin honoured /\ honoured' = honoured \cup {Basic}
  /\ UNCHANGED <<cacheVars, expired, calls>>

CallStep(c) ==
  \/ \E repo \in Repos, kind \in {"blob", "manifest"}, ref \in Refs : Begin(c, repo, kind, ref)
  \/ \E scope \in Scopes : Challenged(c, scope)
  \/ ChallengedBasic(c) \/ BearerToken(c) \/ Fails(c) \/ Return(c)
  \/ \E lasting \in BOOLEAN : MintToken(c, lasting)
  \/ \E home \in BOOLEAN : Redirected(c, home)
  \/ \E body \in Bodies, asserted \in Bodies \cup {Tag} : Answered(c, body, asserted)

OciNext == (\E c \in Calls : CallStep(c)) \/ TokenExpires \/ RegistryRevokes \/ RegistryTakesBasic
OciSpec == OciInit /\ [][OciNext]_ociVars

---------------------------------------------------------------------------
(* Properties *)

\* The one retry after a 401 never presents the token that was just refused
\* (_bearer_token), however the other coroutines used, replaced, evicted or
\* stored it in the meantime, and no two of them mint under one lock.
RetryIsFresh ==
  /\ \A c \in Calls : calls[c].at = "resent" /\ calls[c].presented \notin {NoAuth, Basic}
                        => calls[c].auth # calls[c].presented
  /\ \A c, d \in Calls : calls[c].at = "minting" /\ calls[d].at = "minting" /\ calls[c].lock = calls[d].lock => c = d

\* What a caller gets is what it named, whatever the registry answers and
\* however it redirects: the content of the digest, or a child the index of that
\* digest lists that carries a pixi.toml; and no header leaves the origin.
ContentIsNamed ==
  \A c \in Calls :
    /\ calls[c].at = "done" /\ calls[c].ref # Tag =>
         calls[c].got = calls[c].ref \/ (calls[c].got \in ToSet(Children[calls[c].ref]) /\ calls[c].got \in Carriers)
    /\ ~calls[c].home => calls[c].sent = NoAuth
=============================================================================
