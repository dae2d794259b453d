---------------------------- MODULE MCSupervisor ----------------------------
(* Values for the constants of Supervisor.  Grafana ends well (0) or badly  *)
(* (2): the latter differs from the status 1 of a crash loop.               *)
EXTENDS Supervisor

MCGrafanaCodes == {0, 2}
=============================================================================
