------------------------- MODULE GrafanaNamespace -------------------------
(***************************************************************************)
(* What the grafana-operator bootstrap promises the other controllers     *)
(* about the namespace it owns (grafana-operator/controller.go, the       *)
(* Namespace constant): once absent, it is created Active; a user may     *)
(* delete it, which makes it Terminating until the namespace controller   *)
(* has removed it.  Creation is eventual, not prompt.                     *)
(*                                                                         *)
(* The MonitoringStack controller puts each stack's GrafanaDataSource in  *)
(* this namespace and composes with this module.  GrafanaBootstrap       *)
(* provides it: only NsCreate-shaped creation from absent, the user's    *)
(* deletion and the namespace controller write its namespace, and its    *)
(* Converges makes the namespace Active again after each deletion.        *)
(***************************************************************************)
VARIABLE nsState    \* "absent", "active" or "terminating"

NsStates == {"absent", "active", "terminating"}

NsInit == nsState \in {"absent", "active"}

\* The bootstrap creates the namespace.
NsCreate ==
    /\ nsState = "absent"
    /\ nsState' = "active"

\* A user deletes the namespace.
NsDelete ==
    /\ nsState = "active"
    /\ nsState' = "terminating"

\* The namespace controller has emptied and removed it.
NsFinalize ==
    /\ nsState = "terminating"
    /\ nsState' = "absent"

NsNext == NsCreate \/ NsDelete \/ NsFinalize

\* Deletion is up to users; creation and finalization always happen.
NsSpec == NsInit /\ [][NsNext]_nsState /\ WF_nsState(NsCreate) /\ WF_nsState(NsFinalize)
=============================================================================
