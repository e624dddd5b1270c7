----------------------- MODULE ThanosQuerierController -----------------------
(***************************************************************************)
(* The ThanosQuerier controller                                           *)
(* (src/pkg/controllers/monitoring/thanos-querier/controller.go).        *)
(*                                                                         *)
(* A ThanosQuerier (consumer) selects MonitoringStacks (producers) by a  *)
(* label selector and a namespace predicate; its Deployment carries one   *)
(* --endpoint per selected stack.  Reconcile(q) reads q and lists the     *)
(* stacks from the informer cache (findSidecarServices), then applies the *)
(* components with server-side apply.  A change to a stack enqueues the  *)
(* queriers whose selector matches the stack's old or new labels          *)
(* (findQueriersForMonitoringStack, called by EnqueueRequestsFromMapFunc  *)
(* for each object of the event).                                         *)
(*                                                                         *)
(* A stack's labels are abstracted to one label value (or Absent when the *)
(* stack does not exist), a selector to the label it requires or Bad when *)
(* LabelSelectorAsSelector rejects it, an endpoint URL to the stack it    *)
(* names (getEndpointUrl is injective in name and namespace).             *)
(***************************************************************************)
EXTENDS Naturals, FiniteSets

CONSTANTS
    Queriers,       \* ThanosQuerier identities
    Stacks,         \* MonitoringStack identities
    Labels,         \* label values a stack can carry
    Selectors,      \* selector values a user can give a querier (Labels, maybe Bad)
    Bad,            \* a selector LabelSelectorAsSelector rejects
    Absent,         \* the label of a stack, the selector of a querier, that does not exist
    StackNs,        \* stack -> its namespace
    NsSel,          \* querier -> the namespaces its namespace selector admits
    MaxExternal,    \* bound on user edits
    MaxFaults       \* bound on failed List / Patch calls

ASSUME /\ Selectors \subseteq Labels \cup {Bad}
       /\ Bad \notin Labels /\ Absent \notin Labels \cup {Bad}
       /\ MaxExternal \in Nat /\ MaxFaults \in Nat

VARIABLES
    sel,        \* querier -> its selector in the API server
    selCache,   \* querier -> its selector in the informer cache
    lbl,        \* stack -> its label in the API server, or Absent
    lblCache,   \* stack -> its label in the informer cache, or Absent
    dep,        \* querier -> the stacks its Deployment has --endpoint flags
                \* for, or NoDeployment
    queued,     \* queriers with a request in the workqueue
    delayed,    \* queriers handed to AddAfter / AddRateLimited
    pc,         \* the running pass: [q, eps] after findSidecarServices, or NoPass
    external,   \* user edits so far
    faults,     \* failed calls so far
    relabelled  \* history: the stack watch has received an update that
                \* changes a stack's label

vars == <<sel, selCache, lbl, lblCache, dep, queued, delayed, pc, external,
          faults, relabelled>>

NoPass == [q |-> Bad, eps |-> {}]
\* A Deployment that does not exist: a set no endpoint list equals.
NoDeployment == {Absent}

(***************************************************************************)
(* The relationship resolver.                                             *)
(***************************************************************************)
\* MatchesNamespace: the querier's namespace selector admits namespace n.
MatchesNamespace(q, n) == n \in NsSel[q]

\* findSidecarServices with a valid selector s: the stacks the cache lists
\* with label s, kept when the querier's namespace selector admits them.
SidecarServices(q, s, cacheLbl) ==
    {st \in Stacks : cacheLbl[st] = s /\ MatchesNamespace(q, StackNs[st])}

\* findQueriersForMonitoringStack for a stack carrying label l: a querier
\* whose selector does not parse makes the loop return an empty list for
\* every querier, not just for itself.
QueriersFor(l) ==
    IF \E q \in Queriers : selCache[q] = Bad
    THEN {}
    ELSE {q \in Queriers : selCache[q] = l}

\* Mutant: the map function is applied to the new object of an update only.
StackRequestsNewOnly(s, old, new) == QueriersFor(new)

\* Mutant: the request names the stack that changed instead of a querier.
StackRequestsSelf(s, old, new) == {s}

\* EnqueueRequestsFromMapFunc maps the object of a create or delete event,
\* and both the old and the new object of an update.
StackRequests(s, old, new) == QueriersFor(old) \cup QueriersFor(new)

\* The predicates of the stack watch.  WithEventFilter(p) puts the
\* GenerationChangedPredicate on every watch of the builder, the Watches of
\* MonitoringStack included, next to its ResourceVersionChangedPredicate:
\* create and delete events pass, an update passes only when
\* metadata.generation changed, which a label edit does not do.
StackEventPasses(old, new) == old = Absent \/ new = Absent

(***************************************************************************)
(* The worker (Reconcile).                                                *)
(***************************************************************************)
\* The operator process starts again (operator.New, op.Start): the pass in
\* flight, the workqueue and its pending re-adds are lost.  The new
\* informers list every object into the cache; the Add event of every
\* querier enqueues it, and the Add events of the stacks add the queriers
\* the map function finds for them.
Relist ==
    /\ pc' = NoPass
    /\ delayed' = {}
    /\ selCache' = sel
    /\ lblCache' = lbl
    /\ queued' = {q \in Queriers : sel[q] # Absent}

\* findSidecarServices with a selector that does not parse: the error of
\* LabelSelectorAsSelector is dropped (line 135) and the List gets a
\* MatchingLabelsSelector holding a nil Selector.  The cache reader calls
\* its Matches on every cached stack, a method call on a nil interface: the
\* worker panics, controller-runtime does not recover it, and the process
\* exits and is started again.  With no stack cached nothing is matched
\* and the list is empty.
NilSelectorPanics(q) ==
    /\ selCache[q] = Bad
    /\ \E st \in Stacks : lblCache[st] # Absent

\* Get the querier from the cache, then findSidecarServices.  A failed List
\* returns RequeueAfter 10s with the error.
StartReconcile ==
    /\ pc = NoPass
    /\ \E q \in queued :
         \/ /\ NilSelectorPanics(q)
            /\ Relist
            /\ UNCHANGED faults
         \/ /\ ~NilSelectorPanics(q)
            /\ queued' = queued \ {q}
            /\ \/ /\ selCache[q] = Absent                \* Get: NotFound
                  /\ UNCHANGED <<pc, delayed, faults>>
               \/ /\ selCache[q] \notin {Bad, Absent}
                  /\ pc' = [q |-> q, eps |-> SidecarServices(q, selCache[q], lblCache)]
                  /\ UNCHANGED <<delayed, faults>>
               \/ /\ selCache[q] = Bad                    \* nothing cached
                  /\ pc' = [q |-> q, eps |-> {}]
                  /\ UNCHANGED <<delayed, faults>>
               \/ /\ selCache[q] \notin {Bad, Absent}
                  /\ faults < MaxFaults
                  /\ faults' = faults + 1
                  /\ delayed' = delayed \cup {q}
                  /\ UNCHANGED pc
            /\ UNCHANGED <<selCache, lblCache>>
    /\ UNCHANGED <<sel, lbl, dep, external, relabelled>>

\* thanosComponents + reconcileComponent: the Deployment, owned by the
\* querier, is applied with ForceOwnership, which neither conflicts nor
\* meets AlreadyExists; a failed Patch ends the pass with the error.  The
\* querier may have been deleted since the cache read: the Deployment is
\* then created with an owner that is gone.
ApplyComponents ==
    /\ pc # NoPass
    /\ pc' = NoPass
    /\ \/ /\ dep' = [dep EXCEPT ![pc.q] = pc.eps]
          /\ UNCHANGED <<delayed, faults>>
       \/ /\ faults < MaxFaults
          /\ faults' = faults + 1
          /\ delayed' = delayed \cup {pc.q}
          /\ UNCHANGED dep
    /\ UNCHANGED <<sel, selCache, lbl, lblCache, queued, external, relabelled>>

(***************************************************************************)
(* Informers and timers.                                                  *)
(***************************************************************************)
\* The MonitoringStack informer takes in a change; the watch runs the map
\* function (ResourceVersionChangedPredicate passes every update).
StackCacheSync(s) ==
    /\ lblCache[s] # lbl[s]
    /\ lblCache' = [lblCache EXCEPT ![s] = lbl[s]]
    /\ queued' = queued \cup IF StackEventPasses(lblCache[s], lbl[s])
                             THEN StackRequests(s, lblCache[s], lbl[s])
                             ELSE {}
    /\ relabelled' = (relabelled \/ ~StackEventPasses(lblCache[s], lbl[s]))
    /\ UNCHANGED <<sel, selCache, lbl, dep, delayed, pc, external, faults>>

\* The ThanosQuerier informer takes in a spec change or the deletion of q
\* (For watch).
QuerierCacheSync(q) ==
    /\ selCache[q] # sel[q]
    /\ selCache' = [selCache EXCEPT ![q] = sel[q]]
    /\ queued' = queued \cup {q}
    /\ UNCHANGED <<sel, lbl, lblCache, dep, delayed, pc, external, faults,
                   relabelled>>

TimerFire(q) ==
    /\ q \in delayed
    /\ delayed' = delayed \ {q}
    /\ queued' = queued \cup {q}
    /\ UNCHANGED <<sel, selCache, lbl, lblCache, dep, pc, external, faults,
                   relabelled>>

\* The operator process ends for a reason of its own and main starts it
\* again.
Restart ==
    /\ faults < MaxFaults
    /\ faults' = faults + 1
    /\ Relist
    /\ UNCHANGED <<sel, lbl, dep, external, relabelled>>

(***************************************************************************)
(* Users.                                                                 *)
(***************************************************************************)
\* A user edits or deletes a querier (a deleted name is not reused).
EditSelector(q) ==
    /\ external < MaxExternal
    /\ sel[q] # Absent
    /\ \E s \in (Selectors \cup {Absent}) \ {sel[q]} : sel' = [sel EXCEPT ![q] = s]
    /\ external' = external + 1
    /\ UNCHANGED <<selCache, lbl, lblCache, dep, queued, delayed, pc, faults,
                   relabelled>>

\* A user relabels, creates or deletes a stack.
SetStack(s) ==
    /\ external < MaxExternal
    /\ \E l \in (Labels \cup {Absent}) \ {lbl[s]} : lbl' = [lbl EXCEPT ![s] = l]
    /\ external' = external + 1
    /\ UNCHANGED <<sel, selCache, lblCache, dep, queued, delayed, pc, faults,
                   relabelled>>

\* A user edits the querier's Deployment (dropping its endpoints) or
\* deletes it.  Both change its generation or delete it, so the Owns watch
\* passes the event and enqueues the owner; the worker never reads the
\* Deployment, so when its informer takes the change in only delays that
\* enqueue, and the enqueue is taken with the write.
DeploymentDrift(q) ==
    /\ external < MaxExternal
    /\ dep[q] # NoDeployment
    /\ \E d \in {{}, NoDeployment} \ {dep[q]} : dep' = [dep EXCEPT ![q] = d]
    /\ queued' = queued \cup {q}
    /\ external' = external + 1
    /\ UNCHANGED <<sel, selCache, lbl, lblCache, delayed, pc, faults, relabelled>>

\* The garbage collector deletes the Deployment of a deleted querier.
CollectDeployment(q) ==
    /\ sel[q] = Absent
    /\ dep[q] # NoDeployment
    /\ dep' = [dep EXCEPT ![q] = NoDeployment]
    /\ UNCHANGED <<sel, selCache, lbl, lblCache, queued, delayed, pc, external, faults,
                   relabelled>>

(***************************************************************************)
(* Specification.                                                         *)
(***************************************************************************)
\* The informers have listed every object; their add events queued every
\* querier, and no Deployment has been applied yet.
Init ==
    /\ sel \in [Queriers -> Selectors \ {Bad}]
    /\ selCache = sel
    /\ lbl \in [Stacks -> Labels]
    /\ lblCache = lbl
    /\ dep = [q \in Queriers |-> NoDeployment]
    /\ queued = Queriers
    /\ delayed = {}
    /\ pc = NoPass
    /\ external = 0
    /\ faults = 0
    /\ relabelled = FALSE

Next ==
    \/ StartReconcile
    \/ ApplyComponents
    \/ Restart
    \/ \E s \in Stacks : StackCacheSync(s) \/ SetStack(s)
    \/ \E q \in Queriers : QuerierCacheSync(q) \/ TimerFire(q) \/ EditSelector(q)
    \/ \E q \in Queriers : CollectDeployment(q) \/ DeploymentDrift(q)

Fairness ==
    /\ WF_vars(StartReconcile)
    /\ WF_vars(ApplyComponents)
    /\ \A s \in Stacks : WF_vars(StackCacheSync(s))
    /\ \A q \in Queriers : WF_vars(QuerierCacheSync(q)) /\ WF_vars(TimerFire(q))
    /\ \A q \in Queriers : WF_vars(CollectDeployment(q))

Spec == Init /\ [][Next]_vars /\ Fairness

(***************************************************************************)
(* Properties.                                                            *)
(***************************************************************************)
TypeOK ==
    /\ sel \in [Queriers -> Selectors \cup {Absent}]
    /\ selCache \in [Queriers -> Selectors \cup {Absent}]
    /\ lbl \in [Stacks -> Labels \cup {Absent}]
    /\ lblCache \in [Stacks -> Labels \cup {Absent}]
    /\ dep \in [Queriers -> SUBSET Stacks \cup {NoDeployment}]
    /\ queued \subseteq Queriers /\ delayed \subseteq Queriers
    /\ pc \in {NoPass} \cup [q : Queriers, eps : SUBSET Stacks]
    /\ external \in 0..MaxExternal /\ faults \in 0..MaxFaults
    /\ relabelled \in BOOLEAN

\* The endpoints querier q should have: the existing stacks its selector and
\* namespace selector admit, as the API server holds them.
Endpoints(q) == SidecarServices(q, sel[q], lbl)

\* Every querier with a valid selector has the Deployment endpoints of the
\* stacks it currently selects; a deleted querier has no Deployment left.
Converged ==
    \A q \in Queriers :
        /\ sel[q] \notin {Bad, Absent} => dep[q] = Endpoints(q)
        /\ sel[q] = Absent => dep[q] = NoDeployment

\* While every selector parses and no update changing a stack's label
\* reaches the stack watch (a relabel, or a delete and re-create that a
\* relist of the informer folds into one update),
\* creating and deleting stacks, editing or deleting selectors and editing
\* or deleting Deployments leave every querier's endpoints in step with the
\* stacks it selects: the map function enqueues the queriers of both the
\* stack's old and new labels, and the Owns watch the owner of a Deployment.
ValidSelectorsConverge ==
    [](\A q \in Queriers : sel[q] # Bad) /\ []~relabelled => <>[]Converged

\* The resolver contract (spec 4.4): consumers are kept in step with the
\* label changes of producers, so while every selector parses a relabelled
\* stack is eventually reflected in the endpoints of every querier.
RelabelFollowed == [](\A q \in Queriers : sel[q] # Bad) => <>[]Converged

\* The resolver contract (spec 4.4): a malformed selector yields an empty
\* result for that consumer only, so every other querier still follows the
\* stacks it selects (creation and deletion of stacks, which pass the
\* event filter).
OthersConverge == []~relabelled => <>[]Converged
=============================================================================
