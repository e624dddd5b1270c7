-------------------------- MODULE GrafanaBootstrap --------------------------
(***************************************************************************)
(* The grafana-operator bootstrap controller                              *)
(* (src/pkg/controllers/grafana-operator/controller.go).                  *)
(*                                                                         *)
(* One reconcile worker (MaxConcurrentReconciles: 1) runs the phases      *)
(* namespace -> OperatorGroup -> Subscription -> Grafana CRD -> Grafana,   *)
(* stopping at the first phase whose reconcileResult has stop = TRUE.      *)
(* Reads go through the manager's informer cache, which lags the API      *)
(* server; writes go to the API server, which checks resourceVersion on   *)
(* Update.  Requests come from four single-object informers (filtered by  *)
(* GenerationChangedPredicate), a 30 minute ticker, and the controller's  *)
(* own delayed re-adds.  OLM, users and the namespace controller act on   *)
(* the same objects concurrently.                                          *)
(***************************************************************************)
EXTENDS Naturals, FiniteSets

CONSTANTS
    MaxExternal,    \* bound on user edits, status writes and namespace deletions
    MaxFaults       \* bound on API errors other than NotFound/AlreadyExists/Conflict

ASSUME MaxExternal \in Nat /\ MaxFaults \in Nat

VARIABLES
    store,      \* the API server: object -> its state
    cache,      \* the manager's informer cache that k8sClient.Get reads
    synced,     \* object -> the cache holds its current resourceVersion
    queued,     \* a request waits in the workqueue
    delayed,    \* a request was handed to AddAfter / AddRateLimited, not yet due
    pc,         \* the phase the running Reconcile is in, or "idle"
    lastResult, \* the reconcileResult the last finished pass stopped with
    external,   \* external actions taken so far
    faults      \* injected API errors so far

vars == <<store, cache, synced, queued, delayed, pc, lastResult, external, faults>>

(***************************************************************************)
(* Objects and their states.  "desired"/"drifted" say whether the spec of *)
(* an OperatorGroup, Subscription or Grafana equals NewOperatorGroup(),   *)
(* NewSubscription() or newGrafana(); a namespace is Active or            *)
(* Terminating; the CRD is present and possibly Established.              *)
(***************************************************************************)
Objects == {"ns", "og", "sub", "crd", "grafana"}
Owned   == {"og", "sub", "grafana"}       \* objects inside the namespace
States  == {"absent", "desired", "drifted", "active", "terminating",
            "present", "established"}

\* Informers exist for these objects only; the CRD is not watched.
Watched == {"ns", "og", "sub", "grafana"}

Phases  == <<"namespace", "operatorGroup", "subscription", "grafanaCRD", "grafana">>
PhaseSet == {Phases[i] : i \in 1..5}

(***************************************************************************)
(* reconcileResult and its constructors (controller.go 72-76, 481-533).   *)
(***************************************************************************)
next == [stop |-> FALSE, requeue |-> FALSE, err |-> FALSE]

\* The delay d only tunes timing, which the model leaves out.
requeue(d) == [stop |-> TRUE, requeue |-> TRUE, err |-> FALSE]

reconcileError == [stop |-> TRUE, requeue |-> FALSE, err |-> TRUE]

\* err is one of "ok", "alreadyExists", "conflict", "notFound", "other".
creationResult(d, err) ==
    IF err = "ok" THEN requeue(d)
    ELSE IF err = "alreadyExists" THEN next
    ELSE reconcileError

\* Mutant: an update of an object that is gone (client.IgnoreNotFound) is
\* taken for success.
updationResultIgnoreNotFound(err) ==
    IF err \in {"ok", "notFound"} THEN next
    ELSE IF err = "conflict" THEN requeue(2)
    ELSE reconcileError

updationResult(err) ==
    IF err = "ok" THEN next
    ELSE IF err = "conflict" THEN requeue(2)
    ELSE reconcileError

\* The closure in Reconcile returns ctrl.Result{} and r.err whatever the
\* phase asked for: RequeueAfter is not passed to the controller.
Returned(res) == [requeue |-> FALSE, err |-> res.err]

(***************************************************************************)
(* API server semantics for the calls the phases make.                    *)
(***************************************************************************)
Exists(o) == store[o] # "absent"

\* Create of a namespaced object needs an Active namespace.
CreateErr(o) ==
    IF Exists(o) THEN "alreadyExists"
    ELSE IF o # "ns" /\ store["ns"] # "active" THEN "other"
    ELSE "ok"

\* Update sends the cached object; its resourceVersion must be current.
\* resourceVersion grows with every write, so it is current exactly when
\* the object was not written since the cache last caught up.
UpdateErr(o) ==
    IF ~Exists(o) THEN "notFound"
    ELSE IF ~synced[o] THEN "conflict"
    ELSE "ok"

\* Mutant: a created namespace is taken to start in no known phase.
InitialStateUnknown(o) == IF o = "ns" THEN "pending" ELSE "desired"

InitialState(o) == IF o = "ns" THEN "active" ELSE "desired"

\* Any write to o makes the cached copy stale.
Write(o, s) ==
    /\ store' = [store EXCEPT ![o] = s]
    /\ synced' = [synced EXCEPT ![o] = FALSE]

\* A successful create; the object's informer sees a Create event.
DoCreate(o) ==
    /\ Write(o, InitialState(o))
    /\ queued' = TRUE

\* Mutant: Update is sent without first copying the desired spec.
DoUpdateStale(o) == UNCHANGED <<store, synced, queued>>

\* A successful update to the desired spec.  An update that changes nothing
\* is a no-op on the server; one that changes the spec bumps generation,
\* which passes GenerationChangedPredicate.
DoUpdate(o) ==
    IF store[o] = "drifted"
    THEN /\ Write(o, "desired")
         /\ queued' = TRUE
    ELSE UNCHANGED <<store, synced, queued>>

CanFault == faults < MaxFaults

(***************************************************************************)
(* The worker.                                                            *)
(***************************************************************************)
\* End the pass with res; the worker becomes idle.  controller-runtime
\* re-adds the request after a delay when Reconcile returns an error or
\* asks for a requeue.
Finish(res) ==
    /\ pc' = "idle"
    /\ lastResult' = res
    /\ delayed' = (delayed \/ Returned(res).err \/ Returned(res).requeue)

\* Continue with phase nxt if res does not stop, else end the pass; after
\* the last phase Reconcile returns ctrl.Result{}, nil.
Continue(res, nxt) ==
    IF res.stop \/ nxt = "idle" THEN Finish(res)
    ELSE /\ pc' = nxt
         /\ UNCHANGED <<lastResult, delayed>>

\* processNextWorkItem: take the request off the queue and call Reconcile.
StartReconcile ==
    /\ pc = "idle"
    /\ queued
    /\ queued' = FALSE
    /\ pc' = "namespace"
    /\ UNCHANGED <<store, cache, synced, delayed, lastResult, external, faults>>

\* A Get that fails with an error other than NotFound.
GetFault(phase) ==
    /\ pc = phase
    /\ CanFault
    /\ faults' = faults + 1
    /\ Finish(reconcileError)
    /\ UNCHANGED <<store, cache, synced, queued, external>>

\* k8sClient.Create(o) followed by creationResult(d, err).
CreateStep(o, d, nxt) ==
    \/ /\ CreateErr(o) = "ok"
       /\ DoCreate(o)
       /\ Continue(creationResult(d, "ok"), nxt)
       /\ UNCHANGED faults
    \/ /\ CreateErr(o) # "ok"
       /\ Continue(creationResult(d, CreateErr(o)), nxt)
       /\ UNCHANGED <<store, synced, queued, faults>>
    \/ /\ CanFault
       /\ faults' = faults + 1
       /\ Continue(creationResult(d, "other"), nxt)
       /\ UNCHANGED <<store, synced, queued>>

\* Spec := desired; k8sClient.Update(o) followed by updationResult(err).
UpdateStep(o, nxt) ==
    \/ /\ UpdateErr(o) = "ok"
       /\ DoUpdate(o)
       /\ Continue(updationResult("ok"), nxt)
       /\ UNCHANGED faults
    \/ /\ UpdateErr(o) # "ok"
       /\ Continue(updationResult(UpdateErr(o)), nxt)
       /\ UNCHANGED <<store, synced, queued, faults>>
    \/ /\ CanFault
       /\ faults' = faults + 1
       /\ Continue(updationResult("other"), nxt)
       /\ UNCHANGED <<store, synced, queued>>

\* reconcileNamespace: create the namespace if the cache has none; wait
\* while it is not Active.
ReconcileNamespace ==
    /\ pc = "namespace"
    /\ \/ /\ cache["ns"] = "absent"
          /\ CreateStep("ns", 0, "operatorGroup")
       \/ /\ cache["ns"] = "terminating"
          /\ Finish(requeue(5))
          /\ UNCHANGED <<store, synced, queued, faults>>
       \/ /\ cache["ns"] = "active"
          /\ Continue(next, "operatorGroup")
          /\ UNCHANGED <<store, synced, queued, faults>>
    /\ UNCHANGED <<cache, external>>

\* reconcileOperatorGroup, reconcileSubscription and reconcileGrafana:
\* create if the cache has no object, else overwrite its spec.
CreateOrUpdate(phase, o, d, nxt) ==
    /\ pc = phase
    /\ \/ /\ cache[o] = "absent"
          /\ CreateStep(o, d, nxt)
       \/ /\ cache[o] # "absent"
          /\ UpdateStep(o, nxt)
    /\ UNCHANGED <<cache, external>>

ReconcileOperatorGroup == CreateOrUpdate("operatorGroup", "og", 5, "subscription")
ReconcileSubscription  == CreateOrUpdate("subscription", "sub", 15, "grafanaCRD")
ReconcileGrafana       == CreateOrUpdate("grafana", "grafana", 20, "idle")

\* reconcileGrafanaCRD: wait until the CRD exists and is Established.
ReconcileGrafanaCRD ==
    /\ pc = "grafanaCRD"
    /\ Continue(CASE cache["crd"] = "absent"      -> requeue(10)
                  [] cache["crd"] = "established" -> next
                  [] OTHER                        -> requeue(2), "grafana")
    /\ UNCHANGED <<store, cache, synced, queued, external, faults>>

Step ==
    \/ ReconcileNamespace
    \/ ReconcileOperatorGroup
    \/ ReconcileSubscription
    \/ ReconcileGrafanaCRD
    \/ ReconcileGrafana
    \/ \E phase \in PhaseSet : GetFault(phase)

(***************************************************************************)
(* Event sources and the workqueue's timers.                              *)
(***************************************************************************)
\* eventsource.NewTickerSource(30 * time.Minute): a periodic request.
Tick ==
    /\ ~queued
    /\ queued' = TRUE
    /\ UNCHANGED <<store, cache, synced, delayed, pc, lastResult, external, faults>>

\* A delayed re-add becomes due.
TimerFire ==
    /\ delayed
    /\ delayed' = FALSE
    /\ queued' = TRUE
    /\ UNCHANGED <<store, cache, synced, pc, lastResult, external, faults>>

\* The manager's informer for o catches up with the API server.
CacheSync(o) ==
    /\ ~synced[o]
    /\ cache' = [cache EXCEPT ![o] = store[o]]
    /\ synced' = [synced EXCEPT ![o] = TRUE]
    /\ UNCHANGED <<store, queued, delayed, pc, lastResult, external, faults>>

(***************************************************************************)
(* Other actors on the same objects.                                      *)
(***************************************************************************)
\* OLM installs the operator of an existing Subscription, adding its CRD.
InstallCRD ==
    /\ Exists("sub")
    /\ store["crd"] = "absent"
    /\ Write("crd", "present")
    /\ UNCHANGED <<cache, queued, delayed, pc, lastResult, external, faults>>

\* The API server accepts the CRD's names: condition Established = True.
EstablishCRD ==
    /\ store["crd"] = "present"
    /\ Write("crd", "established")
    /\ UNCHANGED <<cache, queued, delayed, pc, lastResult, external, faults>>

\* A user edits the spec: generation changes and the informer enqueues o.
EditSpec(o) ==
    /\ external < MaxExternal
    /\ store[o] = "desired"
    /\ Write(o, "drifted")
    /\ queued' = TRUE
    /\ external' = external + 1
    /\ UNCHANGED <<cache, delayed, pc, lastResult, faults>>

\* OLM writes status: resourceVersion changes, generation does not, so the
\* predicate drops the event.
WriteStatus(o) ==
    /\ external < MaxExternal
    /\ Exists(o)
    /\ synced' = [synced EXCEPT ![o] = FALSE]
    /\ external' = external + 1
    /\ UNCHANGED <<store, cache, queued, delayed, pc, lastResult, faults>>

\* A user deletes the namespace: it becomes Terminating (no generation change).
DeleteNamespace ==
    /\ external < MaxExternal
    /\ store["ns"] = "active"
    /\ Write("ns", "terminating")
    /\ external' = external + 1
    /\ UNCHANGED <<cache, queued, delayed, pc, lastResult, faults>>

\* The namespace controller removes the contents, then the namespace;
\* each informer sees a Delete event.
FinalizeNamespace ==
    /\ store["ns"] = "terminating"
    /\ LET gone == {o \in Owned \cup {"ns"} : Exists(o)} IN
         /\ store' = [o \in Objects |-> IF o \in gone THEN "absent" ELSE store[o]]
         /\ synced' = [o \in Objects |-> synced[o] /\ o \notin gone]
         /\ queued' = (queued \/ gone \cap Watched # {})
    /\ UNCHANGED <<cache, delayed, pc, lastResult, external, faults>>

Environment ==
    \/ Tick
    \/ TimerFire
    \/ \E o \in Objects : CacheSync(o)
    \/ InstallCRD
    \/ EstablishCRD
    \/ \E o \in Owned : EditSpec(o) \/ WriteStatus(o)
    \/ DeleteNamespace
    \/ FinalizeNamespace

(***************************************************************************)
(* Specification.                                                         *)
(***************************************************************************)
Init ==
    /\ store = [o \in Objects |-> "absent"]
    /\ cache = [o \in Objects |-> "absent"]
    /\ synced = [o \in Objects |-> TRUE]
    /\ queued = FALSE
    /\ delayed = FALSE
    /\ pc = "idle"
    /\ lastResult = next
    /\ external = 0
    /\ faults = 0

Next == StartReconcile \/ Step \/ Environment

\* The worker, informers, timers, OLM and the namespace controller keep
\* running; users and API errors need not happen.
Fairness ==
    /\ WF_vars(StartReconcile)
    /\ WF_vars(Step)
    /\ WF_vars(Tick)
    /\ WF_vars(TimerFire)
    /\ \A o \in Objects : WF_vars(CacheSync(o))
    /\ WF_vars(InstallCRD)
    /\ WF_vars(EstablishCRD)
    /\ WF_vars(FinalizeNamespace)

Spec == Init /\ [][Next]_vars /\ Fairness

(***************************************************************************)
(* Properties.                                                            *)
(***************************************************************************)
TypeOK ==
    /\ store \in [Objects -> States]
    /\ cache \in [Objects -> States]
    /\ synced \in [Objects -> BOOLEAN]
    /\ queued \in BOOLEAN
    /\ delayed \in BOOLEAN
    /\ pc \in PhaseSet \cup {"idle"}
    /\ lastResult \in [stop : BOOLEAN, requeue : BOOLEAN, err : BOOLEAN]
    /\ external \in 0..MaxExternal
    /\ faults \in 0..MaxFaults

\* The phases create objects in dependency order: the API server never holds
\* a Subscription without its OperatorGroup, an OperatorGroup outside an
\* existing namespace, or a Grafana without its Subscription and an
\* Established CRD -- across stale cache reads, failed writes and a
\* namespace deleted between passes.
DependencyOrder ==
    /\ Exists("og") => Exists("ns")
    /\ Exists("sub") => Exists("og")
    /\ Exists("grafana") => Exists("sub") /\ store["crd"] = "established"

\* All five bootstrap objects exist with the desired spec.
Bootstrapped ==
    /\ store["ns"] = "active"
    /\ \A o \in Owned : store[o] = "desired"
    /\ store["crd"] = "established"

\* Once users stop interfering, the controller installs Grafana and repairs
\* every edit, although the requeues the phases ask for are dropped.
Converges == <>[]Bootstrapped

\* The spec (4.3, 7): a phase that returns requeue(d) -- an object just
\* created, a namespace not Active, a CRD absent or not Established, an
\* update Conflict -- is retried after d.  Every pass that stops with such
\* a result must leave a further pass coming: a delayed re-add, or a
\* request a watch event has already queued.
RequeueHonoured ==
    [][(pc # "idle" /\ pc' = "idle" /\ lastResult'.requeue)
         => delayed' \/ queued']_vars
=============================================================================
