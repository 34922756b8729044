--------------------------- MODULE ConnectorCalls ---------------------------
(***************************************************************************)
(* The connector endpoints (routers/connectors.py): the administrators'    *)
(* switches, the token brokered for the caller, the calls to the provider, *)
(* and the generic GitHub read, which waits for one of a few permits and   *)
(* shares one time budget between the wait and the read.                   *)
(*                                                                         *)
(* Requests interleave at every await; a caller may go away at any of them.*)
(* A timer fires when it is due: time does not pass it by.                 *)
(***************************************************************************)
EXTENDS Integers, Sequences, FiniteSets, SequencesExt

CONSTANTS
  Requests,
  Permits,        \* api_get_max_concurrency
  Budget,         \* request_timeout_seconds
  MinReadBudget,  \* _API_GET_MIN_READ_BUDGET_SECONDS
  MaxRedirects,   \* _API_GET_MAX_REDIRECTS
  MaxTime, MaxSwitches   \* bounds

VARIABLES
  disabled,   \* the connectors switched off, as stored
  readable,   \* the store of the switches can be read
  now,
  permits,    \* the semaphore's value
  queue,      \* who waits for it, first come first served
  waiters,    \* app.state.github_api_get_waiters
  req,        \* each request: where it is and what it carries
  sent,       \* where GitHub tokens of generic reads went (history)
  switches
callVars == <<disabled, readable, now, permits, queue, waiters, req, sent, switches>>

Providers == {"google", "slack", "github", "notion"}
Switchable == {"google", "slack", "github"}    \* CONNECTOR_KEYS
Home == [home |-> TRUE, allowed |-> TRUE]
Urls == [home : BOOLEAN, allowed : BOOLEAN]

Fresh == [at |-> "new"]
Answered(status) == [at |-> "answered", status |-> status]
Reading == {r \in Requests : req[r].at = "reading"}
Queued == {r \in Requests : req[r].at = "queued"}
Least(m, n) == IF m < n THEN m ELSE n
Most(m, n) == IF m < n THEN n ELSE m

---------------------------------------------------------------------------
(* Switches *)

\* set_enabled
Switch(c) ==
  /\ switches < MaxSwitches
  /\ disabled' = IF c \in disabled THEN disabled \ {c} ELSE disabled \cup {c}
  /\ switches' = switches + 1
  /\ UNCHANGED <<readable, now, permits, queue, waiters, req, sent>>

StoreComesAndGoes ==
  /\ switches < MaxSwitches
  /\ readable' = ~readable
  /\ switches' = switches + 1
  /\ UNCHANGED <<disabled, now, permits, queue, waiters, req, sent>>

\* switched_off_connectors: a store that cannot be read switches nothing off.
SwitchedOff == IF readable THEN disabled ELSE {}

\* apply_disabled: the section loses its credentials.
HasCredentials(provider) == provider \notin SwitchedOff \cap Switchable

---------------------------------------------------------------------------
(* Handlers *)

Become(r, state) == req' = [req EXCEPT ![r] = state]
Quiet == UNCHANGED <<disabled, readable, now, permits, queue, waiters, sent, switches>>

\* access_token: without credentials there is no connection (409).
Enter(r, provider, calls) ==
  /\ req[r].at = "new"
  /\ Become(r, IF HasCredentials(provider) THEN [at |-> "broker", calls |-> calls, probe |-> FALSE] ELSE Answered(409))
  /\ Quiet

search_google_drive(r)       == Enter(r, "google", 1)
read_google_drive_file(r)    == Enter(r, "google", 2)
search_gmail(r)              == Enter(r, "google", 2)
read_gmail_message(r)        == Enter(r, "google", 1)
search_google_calendar(r)    == Enter(r, "google", 2)
read_google_calendar_event(r) == Enter(r, "google", 2)
list_slack_channels(r)       == Enter(r, "slack", 1)
list_slack_dms(r)            == Enter(r, "slack", 1)
search_slack(r)              == Enter(r, "slack", 1)
read_slack_conversation(r)   == Enter(r, "slack", 2)
read_slack_thread(r)         == Enter(r, "slack", 2)
search_github(r)             == Enter(r, "github", 1)
read_github_item(r)          == Enter(r, "github", 2)
read_github_file(r)          == Enter(r, "github", 1)
list_github_repos(r)         == Enter(r, "github", 1)
list_github_projects(r)      == Enter(r, "github", 1)
search_notion(r)             == Enter(r, "notion", 1)
read_notion_page(r)          == Enter(r, "notion", 2)
query_notion_database(r)     == Enter(r, "notion", 1)

\* The status endpoints say 404 when switched off; what fails later is a
\* status too (200).
Status(r, provider) ==
  /\ req[r].at = "new"
  /\ Become(r, IF provider \in SwitchedOff \cap Switchable THEN Answered(404)
               ELSE [at |-> "broker", calls |-> 1, probe |-> TRUE])
  /\ Quiet

\* github_api_get: the token is brokered before a permit is waited for.  The
\* path is validated and held to the allowed organizations by api_get.
github_api_get(r, url) ==
  /\ req[r].at = "new"
  /\ Become(r, IF HasCredentials("github") THEN [at |-> "broker", calls |-> 0, probe |-> FALSE, url |-> url]
               ELSE Answered(409))
  /\ Quiet

\* The broker: a token, or an account to be linked again (409), or trouble (503).
BrokerAnswers(r, status) ==
  /\ req[r].at = "broker"
  /\ CASE status = "token" /\ req[r].calls > 0 -> Become(r, [req[r] EXCEPT !.at = "provider"]) /\ Quiet
       [] status = "token" /\ req[r].calls = 0 ->
            /\ waiters' = waiters + 1
            /\ queue' = Append(queue, r)
            /\ Become(r, [at |-> "queued", url |-> req[r].url, start |-> now])
            /\ UNCHANGED <<disabled, readable, now, permits, sent, switches>>
       [] status # "token" ->
            Become(r, Answered(IF req[r].probe THEN 200 ELSE IF status = "relink" THEN 409 ELSE 503)) /\ Quiet

\* One call to the provider; the next, or the answer.  An upstream error is 502,
\* a rate limit stays 429, a missing item 404.
ProviderAnswers(r, status) ==
  /\ req[r].at = "provider"
  /\ Become(r, IF status = 200 /\ req[r].calls > 1 THEN [req[r] EXCEPT !.calls = @ - 1]
               ELSE Answered(IF req[r].probe THEN 200 ELSE status))
  /\ Quiet

---------------------------------------------------------------------------
(* The generic read *)

InScope(url) == url.home /\ url.allowed

\* The first request goes where the path, validated, says.
Acquire(r) ==
  /\ queue # <<>> /\ Head(queue) = r /\ permits > 0
  /\ queue' = Tail(queue) /\ waiters' = waiters - 1
  /\ LET deadline == now + Least(Budget, Most(Least(Budget, MinReadBudget), Budget - (now - req[r].start))) IN
     IF InScope(req[r].url)
     THEN /\ permits' = permits - 1
          /\ sent' = sent \cup {req[r].url}
          /\ Become(r, [at |-> "reading", url |-> req[r].url, start |-> req[r].start,
                        deadline |-> deadline, hops |-> 0])
     ELSE /\ permits' = permits
          /\ Become(r, Answered(422)) /\ UNCHANGED sent
  /\ UNCHANGED <<disabled, readable, now, switches>>

\* The wait has used up the budget: 429.
ShedLoad(r) ==
  /\ req[r].at = "queued" /\ now - req[r].start >= Budget
  /\ queue' = SelectSeq(queue, LAMBDA q : q # r) /\ waiters' = waiters - 1
  /\ Become(r, Answered(429))
  /\ UNCHANGED <<disabled, readable, now, permits, sent, switches>>

ReleaseOnSuccess(r, status) ==
  /\ permits' = IF status = 200 THEN permits + 1 ELSE permits
  /\ Become(r, Answered(status))

\* finally: the permit is given back, whatever happened.
Release(r, status) ==
  /\ permits' = permits + 1
  /\ Become(r, Answered(status))

OnTheBaseOnly(url) == url.home

\* _resolve_api_redirect, then the scope again: an absent or a foreign target
\* is refused (422).
FollowsTo(url) == url.home /\ url.allowed

Redirected(r, url) ==
  /\ req[r].at = "reading"
  /\ IF FollowsTo(url) /\ req[r].hops < MaxRedirects
     THEN /\ Become(r, [req[r] EXCEPT !.url = url, !.hops = @ + 1])
          /\ sent' = sent \cup {url}
          /\ UNCHANGED permits
     ELSE Release(r, 422) /\ UNCHANGED sent
  /\ UNCHANGED <<disabled, readable, now, queue, waiters, switches>>

\* _read_api_result: a body, a refusal of what it is (422), or upstream trouble.
ReadEnds(r, status) ==
  /\ req[r].at = "reading"
  /\ Release(r, status)
  /\ UNCHANGED <<disabled, readable, now, queue, waiters, sent, switches>>

ReadTimesOut(r) ==
  /\ req[r].at = "reading" /\ now >= req[r].deadline
  /\ Release(r, 502)
  /\ UNCHANGED <<disabled, readable, now, queue, waiters, sent, switches>>

\* The caller goes away: the handler is cancelled where it awaits.
Disconnect(r) ==
  /\ \/ req[r].at \in {"broker", "provider"} /\ Become(r, Answered(0)) /\ UNCHANGED <<queue, waiters, permits>>
     \/ /\ req[r].at = "queued"
        /\ queue' = SelectSeq(queue, LAMBDA q : q # r) /\ waiters' = waiters - 1
        /\ Become(r, Answered(0)) /\ UNCHANGED permits
     \/ req[r].at = "reading" /\ Release(r, 0) /\ UNCHANGED <<queue, waiters>>
  /\ UNCHANGED <<disabled, readable, now, sent, switches>>

Tick ==
  /\ now < MaxTime
  /\ \A r \in Queued : now - req[r].start < Budget
  /\ \A r \in Reading : now < req[r].deadline
  /\ now' = now + 1
  /\ UNCHANGED <<disabled, readable, permits, queue, waiters, req, sent, switches>>

---------------------------------------------------------------------------
CallInit ==
  /\ disabled = {} /\ readable = TRUE /\ now = 0
  /\ permits = Permits /\ queue = <<>> /\ waiters = 0
  /\ req = [r \in Requests |-> Fresh] /\ sent = {} /\ switches = 0

Begins(r) ==
  \/ search_google_drive(r) \/ read_google_drive_file(r) \/ search_gmail(r) \/ read_gmail_message(r)
  \/ search_google_calendar(r) \/ read_google_calendar_event(r)
  \/ list_slack_channels(r) \/ list_slack_dms(r) \/ search_slack(r) \/ read_slack_conversation(r) \/ read_slack_thread(r)
  \/ search_github(r) \/ read_github_item(r) \/ read_github_file(r) \/ list_github_repos(r) \/ list_github_projects(r)
  \/ search_notion(r) \/ read_notion_page(r) \/ query_notion_database(r)
  \/ \E provider \in Providers : Status(r, provider)
  \/ \E url \in Urls : github_api_get(r, url)

CallNext ==
  \/ \E r \in Requests :
       \/ Begins(r)
       \/ \E status \in {"token", "relink", "trouble"} : BrokerAnswers(r, status)
       \/ \E status \in {200, 404, 429, 502} : ProviderAnswers(r, status)
       \/ Acquire(r) \/ ShedLoad(r) \/ ReadTimesOut(r) \/ Disconnect(r)
       \/ \E url \in Urls : Redirected(r, url)
       \/ \E status \in {200, 404, 422, 429, 502} : ReadEnds(r, status)
  \/ \E c \in Switchable : Switch(c)
  \/ StoreComesAndGoes \/ Tick

CallSpec == CallInit /\ [][CallNext]_callVars

---------------------------------------------------------------------------
(* Properties *)

\* The bound on generic reads (github_api_get, core.py): no way out of the
\* handler loses or adds a permit or miscounts the waiters, and the wait and the
\* read together end within the budget and the little a read is always given.
ReadsStayBounded ==
  /\ permits + Cardinality(Reading) = Permits
  /\ waiters = Cardinality(Queued) /\ waiters = Len(queue)
  /\ \A r \in Reading \cup Queued : now - req[r].start <= Budget + Least(Budget, MinReadBudget)

\* The caller's GitHub token only ever goes to the configured API and, there,
\* to the allowed organizations, through every redirect (api_get).
TokenStaysInScope == sent \subseteq {Home}
=============================================================================
