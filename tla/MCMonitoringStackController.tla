------------------- MODULE MCMonitoringStackController -------------------
(* Bounds for checking MonitoringStackController with TLC.                *)
EXTENDS MonitoringStackController

\* Three of the eleven patchers, in the order stackComponentPatchers lists
\* them: the Prometheus custom resource (spec copied onto existing, a
\* generation, watched), the Prometheus Service (clusterIP kept, no
\* generation, watched) and the GrafanaDataSource (spec copied onto
\* existing, outside the stack's namespace, not watched).  MCOrderSA puts
\* the Prometheus ServiceAccount (replaced, unconditional update) in front
\* of the Service.  The Alertmanager and PDB patchers behave as the
\* Prometheus one, the Role and RoleBinding ones as the Service's without
\* its clusterIP; the Secret is the one kind of the list not covered by an
\* instance: an owned child no watch reports, as the datasource is an
\* unowned one.
MCOrder == <<"prometheus", "promService", "grafanaDS">>
MCOrderSA == <<"promSA", "promService">>
MCKinds == [promSA |-> "sa", prometheus |-> "cr", promService |-> "svc",
            grafanaDS |-> "ds"]
MCKindOf == [c \in Children |-> MCKinds[c]]

\* One spec change after the first version.
MCMaxGen == 2

\* Two user actions: e.g. a spec change and an edit, or a deletion.
MCMaxExternal == 2

MCMaxFaults == 1
=============================================================================
