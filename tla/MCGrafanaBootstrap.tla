------------------------- MODULE MCGrafanaBootstrap -------------------------
(* Bounds for checking GrafanaBootstrap with TLC.                          *)
EXTENDS GrafanaBootstrap

\* Two external actions: enough for an edit racing a status write, or a
\* namespace deletion followed by an edit of the recreated objects.
MCMaxExternal == 2

\* One API error: enough to fail any single Get, Create or Update.
MCMaxFaults == 1
=============================================================================
