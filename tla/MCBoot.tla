------------------------------- MODULE MCBoot -------------------------------
(* The environments app.yaml and the local harness make, and those that go  *)
(* wrong: deployed with a warehouse, deployed without one and with settings *)
(* of its own for Grafana, the harness, ports moved and a user with a quote,*)
(* a database name that PgBouncer would want quoted, a variable that is     *)
(* missing, and a port that is set to nothing.                              *)
EXTENDS Boot

MCNumerals == {<<"8000">>, <<"6432">>, <<"5433">>, <<"3000">>, <<"7432">>, <<"6433">>}

Deployed ==
    [DATABRICKS_APP_PORT    |-> <<"8000">>,
     LAKEBASE_ENDPOINT_PATH |-> <<"endpoint">>,
     LAKEBASE_DATABASE_NAME |-> <<"grafana">>,
     LAKEBASE_DB_USER       |-> <<"app">>,
     GRAFANA_ROOT_URL       |-> <<"https://", "app">>,
     GRAFANA_AUTH_PROXY     |-> <<"true">>,
     GRAFANA_BUNDLE_VOLUME_PATH |-> <<"volume">>,
     STUNNEL_VERIFY_CHAIN   |-> <<"true">>,
     DATABRICKS_HOST        |-> <<"https://", "workspace", "/">>,
     DATABRICKS_CLIENT_ID   |-> <<"id">>,
     DATABRICKS_CLIENT_SECRET |-> <<"se", "'", "cret">>]

WithWarehouse == [DATABRICKS_WAREHOUSE_HTTP_PATH |-> <<"warehouse">>] @@ Deployed

OwnSettings ==
    [GF_AUTH_PROXY_WHITELIST   |-> <<"10.0.0.1">>,
     GF_AUTH_ANONYMOUS_ENABLED |-> <<"true">>,
     GF_DATABASE_PASSWORD      |-> <<"mine">>] @@ Deployed

Harness ==
    [DATABRICKS_APP_PORT    |-> <<"8000">>,
     LAKEBASE_ENDPOINT_PATH |-> <<"endpoint">>,
     LAKEBASE_DATABASE_NAME |-> <<"grafana">>,
     LAKEBASE_DB_USER       |-> <<"developer">>,
     LAKEBASE_HOST          |-> <<"given host">>,
     GRAFANA_ROOT_URL       |-> <<"http://", "localhost", "/", "grafana">>]

PortsAndQuotes ==
    [PGBOUNCER_PORT |-> <<"7432">>, STUNNEL_PORT |-> <<"6433">>,
     LAKEBASE_DB_USER |-> <<"o", "'", "brien", "'">>] @@ WithWarehouse

QuotedDatabase == [LAKEBASE_DATABASE_NAME |-> <<"o", "'", "brien">>] @@ Harness

Incomplete == [LAKEBASE_DB_USER |-> <<>>] @@ Deployed

NoPort == [PGBOUNCER_PORT |-> <<>>] @@ Harness

MCEnvironments == {WithWarehouse, OwnSettings, Harness, PortsAndQuotes, QuotedDatabase,
                   Incomplete, NoPort}
=============================================================================
