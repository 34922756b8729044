------------------------- MODULE KubernetesWorkers -------------------------
(***************************************************************************)
(* The Kubernetes executor (kubernetes.py): a worker is a NetworkPolicy, a *)
(* Deployment and a Service of one name, applied one after the other,      *)
(* deleted one after the other, and called over HTTP.                      *)
(*                                                                         *)
(* Every request may fail before it takes effect or after it (a lost       *)
(* answer); the host may stop at any moment, with a worker in use or idle, *)
(* and materialize the same name again.  The cluster and the worker are    *)
(* external: a Deployment is deleted at once, its pod ends in the          *)
(* background, whether or not the name is in use again by then.            *)
(***************************************************************************)
EXTENDS Integers, Sequences, SequencesExt

CONSTANTS
  Isolated,     \* allow_ingress_from is given
  Attempts,     \* of a call that does not connect: attempts
  MaxCrashes, MaxMaterializations, MaxCalls   \* bounds

VARIABLES
  cluster,    \* the resources of the name that exist
  ready,      \* the Deployment has a ready replica
  ending,     \* a pod of a Deployment deleted before still runs
  executor,   \* what the executor is doing: [at, left, try]
  handle,     \* a worker was handed over and not torn down
  told,       \* the resources there whose removal was reported to have failed (history)
  orphaned,   \* the resources that were there when a host stopped (history)
  ran,        \* how often the worker ran the call under way
  crashes, made, calls
reports == <<told, orphaned>>
kubernetesVars == <<cluster, ready, ending, executor, handle, reports, ran, crashes, made, calls>>

Policy == "networkpolicies"
Deployment == "deployments"
Service == "services"

\* materialize applies the policy before the pod can serve.
ServeFirst == IF Isolated THEN <<Deployment, Service, Policy>> ELSE <<Deployment, Service>>
Applied == IF Isolated THEN <<Policy, Deployment, Service>> ELSE <<Deployment, Service>>

\* _resource_paths
ResourcePaths == IF Isolated THEN <<Deployment, Service, Policy>> ELSE <<Deployment, Service>>

AtRest == [at |-> "rest", left |-> <<>>, try |-> 0]
Doing(at, left) == [at |-> at, left |-> left, try |-> 0]

\* The resource is the executor's own again, or gone: no report stands for it.
ReportSettled(resource) == told' = told \ {resource} /\ orphaned' = orphaned \ {resource}

---------------------------------------------------------------------------
(* materialize *)

MaterializePod ==
  /\ executor.at = "rest" /\ ~handle /\ made < MaxMaterializations
  /\ made' = made + 1
  /\ executor' = Doing("applying", Applied)
  /\ UNCHANGED <<cluster, ready, ending, handle, reports, ran, crashes, calls>>

\* _apply: created, or there already (409) and patched or, for a Service, left.
Apply ==
  /\ executor.at = "applying"
  /\ cluster' = cluster \cup {Head(executor.left)}
  /\ ReportSettled(Head(executor.left))
  /\ executor' = IF Tail(executor.left) = <<>> THEN Doing("waiting", <<>>) ELSE Doing("applying", Tail(executor.left))
  /\ UNCHANGED <<ready, ending, handle, ran, crashes, made, calls>>

NothingToClean == Doing("raised", <<>>)
CleanUp == Doing("cleaning", ResourcePaths)

\* A request that fails, with or without its effect: everything is removed by name.
ApplyFails ==
  /\ executor.at = "applying"
  /\ cluster' \in {cluster, cluster \cup {Head(executor.left)}}
  /\ executor' = CleanUp
  /\ UNCHANGED <<ready, ending, handle, reports, ran, crashes, made, calls>>

\* _wait_ready
BecomesReady ==
  /\ executor.at = "waiting" /\ ready
  /\ handle' = TRUE /\ executor' = AtRest
  /\ UNCHANGED <<cluster, ready, ending, reports, ran, crashes, made, calls>>

WaitFails ==
  /\ executor.at = "waiting"
  /\ executor' = CleanUp
  /\ UNCHANGED <<cluster, ready, ending, handle, reports, ran, crashes, made, calls>>

---------------------------------------------------------------------------
(* _cleanup goes on past what it cannot delete and logs it; teardown stops  *)
(* there and raises, which its caller records of the run.                   *)

After(left) == IF left = <<>> THEN Doing("raised", <<>>) ELSE Doing("cleaning", left)

\* The request is accepted.  The pods of a Deployment, if it has any yet, go on
\* until the cluster has ended them.
Delete(resource) ==
  /\ cluster' = cluster \ {resource}
  /\ IF resource = Deployment /\ Deployment \in cluster
     THEN ready' = FALSE /\ ending' \in {ending, TRUE}
     ELSE UNCHANGED <<ready, ending>>

Deleted ==
  /\ executor.at \in {"cleaning", "removing"}
  /\ Delete(Head(executor.left)) /\ ReportSettled(Head(executor.left))
  /\ IF executor.at = "cleaning"
     THEN executor' = After(Tail(executor.left)) /\ UNCHANGED handle
     ELSE /\ executor' = IF Tail(executor.left) = <<>> THEN AtRest ELSE Doing("removing", Tail(executor.left))
          /\ handle' = (handle /\ Tail(executor.left) # <<>>)
  /\ UNCHANGED <<ran, crashes, made, calls>>

\* The answer of a request that fails may be all that is lost.
MayDelete(resource) == UNCHANGED <<cluster, ready, ending>> \/ Delete(resource)

CleanupFails ==
  /\ executor.at = "cleaning"
  /\ MayDelete(Head(executor.left))
  /\ told' = told \cup {Head(executor.left)}
  /\ executor' = After(Tail(executor.left))
  /\ UNCHANGED <<handle, orphaned, ran, crashes, made, calls>>

\* Whoever called teardown tries once more, or gives the worker up.
TeardownFails ==
  /\ executor.at = "removing"
  /\ MayDelete(Head(executor.left))
  /\ told' = told \cup Range(executor.left)
  /\ executor' = AtRest /\ handle' \in BOOLEAN
  /\ UNCHANGED <<orphaned, ran, crashes, made, calls>>

\* The original failure is raised to the caller, who has no worker.
Raised ==
  /\ executor.at = "raised"
  /\ executor' = AtRest
  /\ UNCHANGED <<cluster, ready, ending, handle, reports, ran, crashes, made, calls>>

TeardownPod ==
  /\ executor.at = "rest" /\ handle
  /\ executor' = Doing("removing", ResourcePaths)
  /\ UNCHANGED <<cluster, ready, ending, handle, reports, ran, crashes, made, calls>>

---------------------------------------------------------------------------
(* interact *)

Interact ==
  /\ executor.at = "rest" /\ handle /\ calls < MaxCalls
  /\ executor' = Doing("calling", <<>>) /\ ran' = 0 /\ calls' = calls + 1
  /\ UNCHANGED <<cluster, ready, ending, handle, reports, crashes, made>>

OutOfAttempts == executor.try + 1 >= Attempts
Again == executor' = IF OutOfAttempts THEN AtRest ELSE [executor EXCEPT !.try = @ + 1]
KeepTrying == Again
GiveUpCall == executor' = AtRest

\* A connection that is not made is tried again.
NoConnection ==
  /\ executor.at = "calling"
  /\ Again
  /\ UNCHANGED <<cluster, ready, ending, handle, reports, ran, crashes, made, calls>>

\* A pod behind the Service, which may be one that is ending.
Reachable == Service \in cluster /\ (ready \/ ending)

\* Connected: an answer, whatever its status, is the call's.
Answer ==
  /\ executor.at = "calling" /\ Reachable
  /\ ran' = ran + 1
  /\ executor' = AtRest
  /\ UNCHANGED <<cluster, ready, ending, handle, reports, crashes, made, calls>>

\* Connected, and then the answer is lost or late: the call fails.
NoAnswer ==
  /\ executor.at = "calling" /\ Reachable
  /\ ran' = ran + 1
  /\ GiveUpCall
  /\ UNCHANGED <<cluster, ready, ending, handle, reports, crashes, made, calls>>

---------------------------------------------------------------------------
(* The cluster, and the host's end *)

Readiness ==
  /\ Deployment \in cluster
  /\ ready' = ~ready
  /\ UNCHANGED <<cluster, ending, executor, handle, reports, ran, crashes, made, calls>>

PodEnds ==
  /\ ending /\ ending' = FALSE
  /\ UNCHANGED <<cluster, ready, executor, handle, reports, ran, crashes, made, calls>>

\* The host stops and tells nobody; what it left behind is the next
\* materialization's to find.
Crash ==
  /\ crashes < MaxCrashes /\ (handle \/ executor.at # "rest")
  /\ crashes' = crashes + 1
  /\ executor' = AtRest /\ handle' = FALSE /\ orphaned' = cluster
  /\ UNCHANGED <<cluster, ready, ending, told, ran, made, calls>>

KubernetesInit ==
  /\ cluster = {} /\ ready = FALSE /\ ending = FALSE /\ executor = AtRest /\ handle = FALSE
  /\ told = {} /\ orphaned = {}
  /\ ran = 0 /\ crashes = 0 /\ made = 0 /\ calls = 0

KubernetesNext ==
  \/ MaterializePod \/ Apply \/ ApplyFails \/ BecomesReady \/ WaitFails
  \/ Deleted \/ CleanupFails \/ TeardownFails \/ Raised \/ TeardownPod
  \/ Interact \/ NoConnection \/ Answer \/ NoAnswer
  \/ Readiness \/ PodEnds \/ Crash

KubernetesSpec == KubernetesInit /\ [][KubernetesNext]_kubernetesVars

---------------------------------------------------------------------------
(* Properties *)

\* The values the executor's variables take: what is left to apply or to delete
\* is a rest of the whole list.
KubernetesTypeOK ==
  /\ cluster \subseteq {Policy, Deployment, Service}
  /\ ready \in BOOLEAN /\ ending \in BOOLEAN /\ handle \in BOOLEAN /\ ran \in Nat
  /\ told \subseteq {Policy, Deployment, Service} /\ orphaned \subseteq {Policy, Deployment, Service}
  /\ executor.at \in {"rest", "applying", "waiting", "cleaning", "removing", "raised", "calling"}
  /\ executor.at = "applying" =>
       executor.left \in {<<Policy, Deployment, Service>>, <<Deployment, Service>>, <<Service>>}
  /\ executor.at \in {"cleaning", "removing"} =>
       executor.left \in IF Isolated THEN {<<Deployment, Service, Policy>>, <<Service, Policy>>, <<Policy>>}
                         ELSE {<<Deployment, Service>>, <<Service>>}

\* Whatever fails and whenever a host stops: a Deployment is without its
\* NetworkPolicy only where its own removal was reported to have failed, and never
\* while it is handed over; a worker handed over has every pod of its name behind
\* the policy, also one that is still ending, until its teardown begins or was
\* reported to have failed (materialize, _cleanup, teardown); what is left behind
\* without a worker was reported, each resource of it, or left by a host that
\* stopped and not found since; and a call runs at most once in the worker
\* (_post_with_retry retries the connection only).
WorkersAreContained ==
  /\ Isolated /\ Deployment \in cluster \ told => Policy \in cluster
  /\ Isolated /\ handle /\ Deployment \in cluster => Policy \in cluster
  /\ Isolated /\ handle /\ (ready \/ ending) /\ executor.at # "removing" => Policy \in cluster \cup told
  /\ executor.at = "rest" /\ ~handle => cluster \subseteq told \cup orphaned
  /\ ran <= 1
=============================================================================
