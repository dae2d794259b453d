----------------------------- MODULE MCStaging ------------------------------
(* A bundle of Grafana (the marker), PgBouncer (a key binary) and a shared  *)
(* library (neither).                                                       *)
EXTENDS Staging

MCKeyFiles == <<"grafana", "pgbouncer">>
=============================================================================
