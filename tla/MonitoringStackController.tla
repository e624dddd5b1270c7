---------------------- MODULE MonitoringStackController ----------------------
(***************************************************************************)
(* The MonitoringStack controller                                         *)
(* (src/pkg/controllers/monitoring/monitoring-stack/controller.go) and    *)
(* the child patchers it applies                                           *)
(* (src/pkg/controllers/monitoring-stack/components.go).                  *)
(*                                                                         *)
(* One worker reconciles one MonitoringStack.  A pass reads the stack     *)
(* from the informer cache once, then applies the children in order: Get  *)
(* the child from the cache; if absent Create it, else patch(existing)    *)
(* and Update.  AlreadyExists and Conflict end the pass with              *)
(* RequeueAfter 2s, any other error ends it with the error.  The         *)
(* create-or-update step itself (stackComponentReconcilers) is not under  *)
(* src/ and follows the spec (4.2).                                        *)
(*                                                                         *)
(* A child's payload is abstracted to the generation of the stack spec it *)
(* was computed from (0: edited by someone else); a Service also carries  *)
(* its clusterIP, allocated by the API server and immutable.              *)
(*                                                                         *)
(* The GrafanaDataSource child lives in the grafana-operator's namespace, *)
(* not the stack's: it has no owner reference, no Owns() watch, and can   *)
(* only be created while that namespace is Active.  The namespace follows *)
(* the contract of GrafanaNamespace, which GrafanaBootstrap implements.   *)
(***************************************************************************)
EXTENDS Naturals, Sequences, FiniteSets

CONSTANTS
    Order,          \* the children in the order the patchers list them
    Kind,           \* child -> "sa" | "rbac" | "secret" | "cr" | "svc" | "ds": the
                    \* kind of object, which fixes its patch function and watch
    MaxGen,         \* bound on the stack's spec generation
    MaxExternal,    \* bound on user edits, deletions and status writes
    MaxFaults       \* bound on API errors other than the classified ones

Children == {Order[i] : i \in DOMAIN Order}
N == Len(Order)

ASSUME /\ Kind \in [Children -> {"sa", "rbac", "secret", "cr", "svc", "ds"}]
       /\ MaxGen \in Nat \ {0}
       /\ MaxExternal \in Nat /\ MaxFaults \in Nat

VARIABLES
    ms,          \* the MonitoringStack in the API server: [st, gen]
    msCache,     \* the stack as the informer cache shows it
    child,       \* child -> [ex, gen, ip] in the API server
    childCache,  \* child -> [ex, gen, ip] in the informer cache
    lag,         \* child -> how the cache lags the server: "none", "rv" (only
                 \* the resourceVersion) or "event" (a change the watch passes)
    queued,      \* a request for the stack waits in the workqueue
    delayed,     \* a request was handed to AddAfter / AddRateLimited
    pc,          \* 0 when idle, else the index in Order being applied
    snap,        \* the stack generation the running pass read
    grafNs,      \* the grafana-operator namespace: absent, active, terminating
    external,    \* external actions so far
    faults,      \* injected API errors so far
    silentDrift  \* history: a user changed an owned child and no request followed

vars == <<ms, msCache, child, childCache, lag, queued, delayed, pc, snap,
          grafNs, external, faults, silentDrift>>

GrafanaNs == INSTANCE GrafanaNamespace WITH nsState <- grafNs

StackStates == {"live", "deleting", "absent"}
Gens == 0..MaxGen
NoChild == [ex |-> FALSE, gen |-> 0, ip |-> FALSE]

\* Children in the stack's namespace carry its owner reference: the
\* garbage collector deletes them and Owns() watches them.  The
\* GrafanaDataSource is in goctrl.Namespace (components.go newGrafanaDataSource).
Owned(c) == Kind[c] # "ds"
DataSources == {c \in Children : Kind[c] = "ds"}

\* RegisterWithManager: Owns() covers Prometheus, Alertmanager, Service,
\* ServiceAccount, Role, RoleBinding, ServiceMonitor and PDB; neither the
\* scrape-config Secret nor the GrafanaDataSource is watched.
Watched(c) == Kind[c] \notin {"secret", "ds"}

\* The server bumps metadata.generation on a spec change of a custom
\* resource (Prometheus, Alertmanager, GrafanaDataSource) or a PDB;
\* ServiceAccounts, Roles, RoleBindings, Secrets and Services have none.
Generational(c) == Kind[c] \in {"cr", "ds"}

(***************************************************************************)
(* Desired state (components.go).  Every patcher rebuilds the desired     *)
(* object from the stack; patch(nil) is the desired object itself.        *)
(***************************************************************************)
\* newServiceAccount / newPrometheusRole / newPrometheusService ...: the
\* object computed from stack generation g, before the server allocates.
Desired(c, g) == [ex |-> TRUE, gen |-> g, ip |-> FALSE]

\* Mutant: the Service patch does not carry the observed ClusterIP over.
PatchNoClusterIP(c, existing, g) ==
    IF Kind[c] = "sa" THEN Desired(c, g)
    ELSE [Desired(c, g) EXCEPT !.ip = FALSE]

\* Mutant: the ServiceAccount patcher hands back the existing object.
PatchKeepsServiceAccount(c, existing, g) ==
    CASE Kind[c] = "sa"  -> existing
      [] Kind[c] \in {"rbac", "secret", "cr", "ds"} -> [existing EXCEPT !.gen = g]
      [] Kind[c] = "svc" -> [existing EXCEPT !.gen = g, !.ip = existing.ip]

\* patch(existing): the ServiceAccount patcher returns a new object and
\* ignores existing; the typed patchers copy labels and spec onto existing;
\* the Service patchers also keep the observed Spec.ClusterIP.
Patch(c, existing, g) ==
    CASE Kind[c] = "sa"  -> Desired(c, g)
      [] Kind[c] \in {"rbac", "secret", "cr", "ds"} -> [existing EXCEPT !.gen = g]
      [] Kind[c] = "svc" -> [existing EXCEPT !.gen = g, !.ip = existing.ip]

(***************************************************************************)
(* API server semantics.                                                  *)
(***************************************************************************)
\* Create: the server allocates a clusterIP for a Service.
Created(c, g) == [Desired(c, g) EXCEPT !.ip = (Kind[c] = "svc")]

\* Create error: the datasource's namespace may be missing or Terminating.
CreateErr(c) ==
    IF child[c].ex THEN "alreadyExists"
    ELSE IF Kind[c] = "ds" /\ grafNs # "active" THEN "namespace"
    ELSE "ok"

\* Update error for sending obj.  The ServiceAccount patch carries no
\* resourceVersion, so its update is unconditional.
UpdateErr(c, obj) ==
    IF ~child[c].ex THEN "notFound"
    ELSE IF Kind[c] # "sa" /\ lag[c] # "none" THEN "conflict"
    ELSE IF obj.ip # child[c].ip THEN "invalid"
    ELSE "ok"

\* A write to c leaves the cache behind; ev says whether the watch's
\* GenerationChangedPredicate passes the change: creates, deletes and
\* spec changes of a Generational child do, status writes and updates of
\* the others do not; no change of an unwatched child raises a request.
Written(c, ev) ==
    lag' = [lag EXCEPT ![c] = IF (ev /\ Watched(c)) \/ @ = "event" THEN "event" ELSE "rv"]

\* An update that changes nothing is a no-op on the server.
WriteChild(c, obj) ==
    IF obj = child[c]
    THEN UNCHANGED <<child, lag>>
    ELSE /\ child' = [child EXCEPT ![c] = obj]
         /\ Written(c, Generational(c))

CanFault == faults < MaxFaults

\* A user's change to owned child c raises no request: c is not watched,
\* or the predicate drops the change.
Unseen(c, ev) == Owned(c) /\ ~(ev /\ Watched(c))

(***************************************************************************)
(* The worker (controller.go Reconcile).                                  *)
(***************************************************************************)
\* Mutant: an error ends the pass without the request being re-added.
EndPassNoRetry(requeue) ==
    /\ pc' = 0
    /\ UNCHANGED delayed

\* End the pass: ctrl.Result{RequeueAfter: 2s} or an error re-add the
\* request after a delay; ctrl.Result{} with nil does not.
EndPass(requeue) ==
    /\ pc' = 0
    /\ delayed' = (delayed \/ requeue)

\* Reconcile up to the loop: getStack reads the cache; a missing stack or
\* one with a DeletionTimestamp ends the pass with no requeue.
StartReconcile ==
    /\ pc = 0
    /\ queued
    /\ queued' = FALSE
    /\ \/ /\ msCache.st = "live"
          /\ pc' = 1
          /\ snap' = msCache.gen
          /\ UNCHANGED <<delayed, faults>>
       \/ /\ msCache.st # "live"
          /\ UNCHANGED <<pc, snap, delayed, faults>>
       \/ /\ CanFault
          /\ faults' = faults + 1
          /\ delayed' = TRUE
          /\ UNCHANGED <<pc, snap>>
    /\ UNCHANGED <<silentDrift, ms, msCache, child, childCache, lag, grafNs, external>>

\* Mutant: the loop bound is off by one.
AdvancePastEnd ==
    /\ pc' = pc + 1
    /\ UNCHANGED delayed

\* Move on to the next child, or return ctrl.Result{}, nil after the last.
Advance ==
    IF pc = N THEN EndPass(FALSE) ELSE /\ pc' = pc + 1
                                      /\ UNCHANGED delayed

\* One iteration of the loop: reconciler(ctx, k8sClient, scheme) for the
\* child Order[pc], and the classification of its error.
ApplyChild ==
    /\ pc # 0
    /\ LET c == Order[pc]
           existing == childCache[c]
           obj == Patch(c, existing, snap)
       IN
       \/ /\ ~existing.ex
          /\ \/ /\ CreateErr(c) = "ok"
                /\ child' = [child EXCEPT ![c] = Created(c, snap)]
                /\ Written(c, TRUE)
                /\ Advance
             \/ /\ CreateErr(c) # "ok"               \* AlreadyExists or an error
                /\ EndPass(TRUE)
                /\ UNCHANGED <<child, lag>>
          /\ UNCHANGED faults
       \/ /\ existing.ex
          /\ \/ /\ UpdateErr(c, obj) = "ok"
                /\ WriteChild(c, obj)
                /\ Advance
             \/ /\ UpdateErr(c, obj) # "ok"
                /\ EndPass(TRUE)                     \* Conflict or an error
                /\ UNCHANGED <<child, lag>>
          /\ UNCHANGED faults
       \/ /\ CanFault                                \* Get/Create/Update error
          /\ faults' = faults + 1
          /\ EndPass(TRUE)
          /\ UNCHANGED <<child, lag>>
    /\ UNCHANGED <<silentDrift, ms, msCache, childCache, snap, queued, grafNs, external>>

(***************************************************************************)
(* Informers and timers.  The For() and Owns() watches are handlers on the *)
(* same informers that fill the cache the client reads, so a request is  *)
(* enqueued when the cache takes in the change, never before.            *)
(***************************************************************************)
\* Every change of the stack modelled here (creation, a spec change, a
\* DeletionTimestamp, deletion) changes its generation or is a create or
\* delete event, so GenerationChangedPredicate passes it.
StackCacheSync ==
    /\ msCache # ms
    /\ msCache' = ms
    /\ queued' = TRUE
    /\ UNCHANGED <<silentDrift, grafNs, ms, child, childCache, lag, delayed, pc, snap,
                   external, faults>>

\* A child event that passes the predicate enqueues the owning stack
\* (handler.EnqueueRequestForOwner).
ChildCacheSync(c) ==
    /\ lag[c] # "none"
    /\ childCache' = [childCache EXCEPT ![c] = child[c]]
    /\ lag' = [lag EXCEPT ![c] = "none"]
    /\ queued' = (queued \/ lag[c] = "event")
    /\ UNCHANGED <<silentDrift, grafNs, ms, msCache, child, delayed, pc, snap, external, faults>>

TimerFire ==
    /\ delayed
    /\ delayed' = FALSE
    /\ queued' = TRUE
    /\ UNCHANGED <<silentDrift, grafNs, ms, msCache, child, childCache, lag, pc, snap, external, faults>>

\* Mutant: the new manager's initial list raises no request.
RestartNoRelist ==
    /\ CanFault
    /\ faults' = faults + 1
    /\ pc' = 0
    /\ delayed' = FALSE
    /\ msCache' = ms
    /\ childCache' = child
    /\ lag' = [c \in Children |-> "none"]
    /\ queued' = FALSE
    /\ UNCHANGED <<silentDrift, ms, child, snap, grafNs, external>>

\* The operator process ends (a crash, an eviction, a new rollout) and main
\* runs again: operator.New, op.Start.  The pass in flight, the workqueue
\* and its pending re-adds are lost.  The new informers list every object
\* into the cache, and the Add events pass the predicate: the stack's own,
\* and those of its watched children through EnqueueRequestForOwner.
Restart ==
    /\ CanFault
    /\ faults' = faults + 1
    /\ pc' = 0
    /\ delayed' = FALSE
    /\ msCache' = ms
    /\ childCache' = child
    /\ lag' = [c \in Children |-> "none"]
    /\ queued' = (ms.st # "absent" \/ \E c \in Children : Watched(c) /\ child[c].ex)
    /\ UNCHANGED <<silentDrift, ms, child, snap, grafNs, external>>

(***************************************************************************)
(* Users and the garbage collector.                                       *)
(***************************************************************************)
\* A user changes the stack's spec.
UpdateStack ==
    /\ external < MaxExternal
    /\ ms.st = "live"
    /\ ms.gen < MaxGen
    /\ ms' = [ms EXCEPT !.gen = @ + 1]
    /\ external' = external + 1
    /\ UNCHANGED <<silentDrift, grafNs, msCache, child, childCache, lag, queued, delayed, pc, snap, faults>>

\* A user deletes the stack, in the background (it is gone at once) or in
\* the foreground (it keeps a DeletionTimestamp until its children are gone).
DeleteStack ==
    /\ external < MaxExternal
    /\ ms.st = "live"
    /\ \E st \in {"absent", "deleting"} : ms' = [ms EXCEPT !.st = st]
    /\ external' = external + 1
    /\ UNCHANGED <<silentDrift, grafNs, msCache, child, childCache, lag, queued, delayed, pc, snap, faults>>

\* A user edits a child's spec (a ServiceAccount has none).
EditChild(c) ==
    /\ external < MaxExternal
    /\ child[c].ex
    /\ Kind[c] # "sa"
    /\ child[c].gen # 0
    /\ child' = [child EXCEPT ![c].gen = 0]
    /\ Written(c, Generational(c))
    /\ silentDrift' = (silentDrift \/ Unseen(c, Generational(c)))
    /\ external' = external + 1
    /\ UNCHANGED <<grafNs, ms, msCache, childCache, queued, delayed, pc, snap, faults>>

\* A user deletes a child.
DeleteChild(c) ==
    /\ external < MaxExternal
    /\ child[c].ex
    /\ child' = [child EXCEPT ![c] = NoChild]
    /\ Written(c, TRUE)
    /\ silentDrift' = (silentDrift \/ Unseen(c, TRUE))
    /\ external' = external + 1
    /\ UNCHANGED <<grafNs, ms, msCache, childCache, queued, delayed, pc, snap, faults>>

\* Another controller writes a child's status: a new resourceVersion, the
\* same generation, so no event passes the predicate.
WriteStatus(c) ==
    /\ external < MaxExternal
    /\ child[c].ex
    /\ Written(c, FALSE)
    /\ external' = external + 1
    /\ UNCHANGED <<silentDrift, grafNs, ms, msCache, child, childCache, queued, delayed, pc, snap, faults>>

\* The garbage collector deletes a child whose owner is gone or being
\* deleted in the foreground.
CollectChild(c) ==
    /\ Owned(c)
    /\ ms.st # "live"
    /\ child[c].ex
    /\ child' = [child EXCEPT ![c] = NoChild]
    /\ Written(c, TRUE)
    /\ UNCHANGED <<silentDrift, grafNs, ms, msCache, childCache, queued, delayed, pc, snap, external, faults>>

\* Foreground deletion completes once no dependent is left.
RemoveStack ==
    /\ ms.st = "deleting"
    /\ \A c \in Children : Owned(c) => ~child[c].ex
    /\ ms' = [ms EXCEPT !.st = "absent"]
    /\ UNCHANGED <<silentDrift, grafNs, msCache, child, childCache, lag, queued, delayed, pc, snap,
                   external, faults>>

(***************************************************************************)
(* The grafana-operator namespace (GrafanaNamespace).                     *)
(***************************************************************************)
GrafanaNsCreate ==
    /\ GrafanaNs!NsCreate
    /\ UNCHANGED <<silentDrift, ms, msCache, child, childCache, lag, queued, delayed, pc, snap,
                   external, faults>>

GrafanaNsDelete ==
    /\ external < MaxExternal
    /\ GrafanaNs!NsDelete
    /\ external' = external + 1
    /\ UNCHANGED <<silentDrift, ms, msCache, child, childCache, lag, queued, delayed, pc, snap,
                   faults>>

\* The namespace controller deletes the datasources with the namespace;
\* nothing watches them, so no request follows.
GrafanaNsFinalize ==
    /\ GrafanaNs!NsFinalize
    /\ child' = [c \in Children |-> IF Kind[c] = "ds" THEN NoChild ELSE child[c]]
    /\ lag' = [c \in Children |->
                 IF Kind[c] = "ds" /\ child[c].ex /\ lag[c] = "none" THEN "rv" ELSE lag[c]]
    /\ UNCHANGED <<silentDrift, ms, msCache, childCache, queued, delayed, pc, snap, external, faults>>

(***************************************************************************)
(* Specification.                                                         *)
(***************************************************************************)
\* The stack exists and its informer has listed it.
Init ==
    /\ ms = [st |-> "live", gen |-> 1]
    /\ msCache = ms
    /\ child = [c \in Children |-> NoChild]
    /\ childCache = child
    /\ lag = [c \in Children |-> "none"]
    /\ queued = TRUE
    /\ delayed = FALSE
    /\ pc = 0
    /\ snap = 1
    /\ GrafanaNs!NsInit
    /\ external = 0
    /\ faults = 0
    /\ silentDrift = FALSE

Next ==
    \/ StartReconcile
    \/ ApplyChild
    \/ StackCacheSync
    \/ \E c \in Children : ChildCacheSync(c)
    \/ TimerFire
    \/ Restart
    \/ UpdateStack
    \/ DeleteStack
    \/ \E c \in Children : EditChild(c) \/ DeleteChild(c) \/ WriteStatus(c)
    \/ \E c \in Children : CollectChild(c)
    \/ RemoveStack
    \/ GrafanaNsCreate \/ GrafanaNsDelete \/ GrafanaNsFinalize

\* The worker, informers, workqueue timers and garbage collector keep
\* running; users and API errors need not act.
Fairness ==
    /\ WF_vars(StartReconcile)
    /\ WF_vars(ApplyChild)
    /\ WF_vars(StackCacheSync)
    /\ \A c \in Children : WF_vars(ChildCacheSync(c))
    /\ WF_vars(TimerFire)
    /\ \A c \in Children : WF_vars(CollectChild(c))
    /\ WF_vars(RemoveStack)
    /\ WF_vars(GrafanaNsCreate)
    /\ WF_vars(GrafanaNsFinalize)

Spec == Init /\ [][Next]_vars /\ Fairness

(***************************************************************************)
(* Properties.                                                            *)
(***************************************************************************)
ChildRec == [ex : BOOLEAN, gen : Gens, ip : BOOLEAN]

TypeOK ==
    /\ ms \in [st : StackStates, gen : 1..MaxGen]
    /\ msCache \in [st : StackStates, gen : 1..MaxGen]
    /\ child \in [Children -> ChildRec]
    /\ childCache \in [Children -> ChildRec]
    /\ lag \in [Children -> {"none", "rv", "event"}]
    /\ queued \in BOOLEAN /\ delayed \in BOOLEAN
    /\ pc \in 0..N
    /\ snap \in 1..MaxGen
    /\ grafNs \in GrafanaNs!NsStates
    /\ external \in 0..MaxExternal
    /\ faults \in 0..MaxFaults
    /\ silentDrift \in BOOLEAN

\* Child c exists with the payload computed from the stack's current spec.
Current(c) == child[c].ex /\ child[c].gen = ms.gen

\* Every owned child of a live stack is current; a deleted stack has no
\* owned children left.
Converged ==
    /\ ms.st = "live" => \A c \in Children : Owned(c) => Current(c)
    /\ ms.st = "absent" => \A c \in Children : Owned(c) => ~child[c].ex

\* Unless a user changed an owned child in a way no watch reports, repeated
\* passes bring the children to the stack's current spec, through stale
\* caches, AlreadyExists, Conflicts, spec changes, status writes, edits of
\* custom resources and deletions of children, and keep them there.
Converges == []~silentDrift => <>[]Converged

\* The spec (Child Object Descriptor): every child is continuously
\* overwritten from its stack, so an owned child a user edits is repaired.
ChildEditRepaired == <>[]Converged

\* A live stack gets its GrafanaDataSource: a create refused while the
\* grafana namespace is missing or Terminating ends the pass with an
\* error, and the retry that follows reaches the datasource once the
\* bootstrap has recreated the namespace.
DataSourceCreated == \A c \in DataSources : <>(ms.st # "live" \/ child[c].ex)

\* The spec (Child Object Descriptor): a child, the data-source
\* registration included, is continuously overwritten from its stack.  A
\* datasource edited, deleted, or removed with the grafana namespace is
\* repaired while its stack lives.
DataSourceRepaired == \A c \in DataSources : <>[](ms.st = "live" => Current(c))

\* The spec (Child Object Descriptor): a child is deleted when its owner
\* is deleted.  No datasource outlives its stack.
DataSourceRemovedWithStack ==
    \A c \in DataSources : <>[](ms.st = "absent" => ~child[c].ex)
=============================================================================
