---------------------------- MODULE Environment -----------------------------
(***************************************************************************)
(* From the process's environment to what the children are given: what     *)
(* lib/config.py, lib/grafana_env.py, lib/stunnel.py and lib/pgbouncer.py  *)
(* compute, without state.  Boot says when each is used.                   *)
(*                                                                         *)
(* A text is a sequence of atoms.  An atom is one character that some      *)
(* conversion looks at, or any run of others: <<"o", "'", "brien">>.  An   *)
(* environment is a function from the names that are set to texts.         *)
(* Of a rendered file the record keeps what another part depends on.       *)
(***************************************************************************)
EXTENDS SequencesExt

CONSTANT Numerals  \* texts that int() accepts

\* env.get(k), where None and "" are both false; env.get(k, d) is not that.
Get(env, k)      == IF k \in DOMAIN env THEN env[k] ELSE <<>>
GetOr(env, k, d) == IF k \in DOMAIN env THEN env[k] ELSE d
Set(env, k)      == Get(env, k) # <<>>
IsTrue(text)     == text \in {<<"true">>, <<"True">>, <<"TRUE">>}

REQUIRED == {"DATABRICKS_APP_PORT", "LAKEBASE_ENDPOINT_PATH",
             "LAKEBASE_DATABASE_NAME", "LAKEBASE_DB_USER", "GRAFANA_ROOT_URL"}

pgbouncer_port(env) == GetOr(env, "PGBOUNCER_PORT", <<"6432">>)
STUNNEL_PORT(env)   == GetOr(env, "STUNNEL_PORT", <<"5433">>)

\* Importing startup.py and load_config raise nothing.
Loads(env) ==
    /\ \A k \in REQUIRED : Set(env, k)
    /\ {env["DATABRICKS_APP_PORT"], pgbouncer_port(env), STUNNEL_PORT(env),
        GetOr(env, "TOKEN_REFRESH_INTERVAL_S", <<"3000">>)} \subseteq Numerals

\* LAKEBASE_HOST, or the host the API has for the endpoint path.
host(env) == IF Set(env, "LAKEBASE_HOST") THEN env["LAKEBASE_HOST"]
             ELSE <<"host of">> \o env["LAKEBASE_ENDPOINT_PATH"]

warehouse(env) ==
    \A k \in {"DATABRICKS_WAREHOUSE_HTTP_PATH", "DATABRICKS_CLIENT_ID",
              "DATABRICKS_CLIENT_SECRET"} : Set(env, k)

auth_proxy(env) == IsTrue(GetOr(env, "GRAFANA_AUTH_PROXY", <<"false">>))

\* The secrets of boot b: mint_token's answer, and secrets.token_urlsafe.
Token(b)     == <<"token", ToString(b)>>
client_pw(b) == <<"password", ToString(b)>>

-----------------------------------------------------------------------------
(* YAML.  A single-quoted scalar doubles the quotes in it.                  *)

Quote == "'"

\* Seeded bug: embedded quotes are left as they are.
yq_Bare(text) == <<Quote>> \o text \o <<Quote>>

yq(text) ==
    <<Quote>>
    \o FlattenSeq([i \in DOMAIN text |->
                     IF text[i] = Quote THEN <<Quote, Quote>> ELSE <<text[i]>>])
    \o <<Quote>>

\* A YAML reader inside a single-quoted scalar: after a quote comes another
\* one, which stands for itself, or the end.
Read(r, c) ==
    CASE r.at = "text"  /\ c # Quote -> [r EXCEPT !.text = Append(@, c)]
      [] r.at = "text"  /\ c = Quote -> [r EXCEPT !.at = "quote"]
      [] r.at = "quote" /\ c = Quote -> [at |-> "text", text |-> Append(r.text, Quote)]
      [] OTHER                       -> [r EXCEPT !.at = "malformed"]

Reading(atoms) ==
    LET after[n \in 0 .. Len(atoms)] ==
          IF n = 0 THEN [at |-> "text", text |-> <<>>] ELSE Read(after[n - 1], atoms[n])
    IN  after[Len(atoms)]

\* What the reader makes of a whole scalar.
Unquoted(scalar) ==
    LET end == Reading(Tail(scalar))
    IN  IF Head(scalar) = Quote /\ end.at = "quote" THEN end.text ELSE <<"malformed">>

-----------------------------------------------------------------------------
(* PgBouncer's files.  The code writes names into them as they are; what     *)
(* PgBouncer makes of a name depends on where it stands.                    *)

DoubleQuote == "double quote"
Blank       == "blank"
Comma       == "comma"

Unless(signs, text) == IF signs \cap Range(text) = {} THEN text ELSE <<"malformed">>

\* The key of a line under [databases]; RECONNECT's argument is read alike.
AsKey(text) == Unless({Quote, DoubleQuote, Blank, Comma}, text)

\* The value of a key=value: a blank ends it, a quote at its start quotes it.
AsValue(text) == IF text # <<>> /\ Head(text) = Quote THEN <<"malformed">>
                 ELSE Unless({Blank}, text)

AsListed(text)       == Unless({Blank, Comma}, text)  \* one of admin_users
AsDoubleQuoted(text) == Unless({DoubleQuote}, text)   \* in userlist.txt

\* The names mean to PgBouncer what they say.
PlainNames(env) ==
    LET db   == env["LAKEBASE_DATABASE_NAME"]
        user == env["LAKEBASE_DB_USER"]
    IN  /\ AsKey(db) = db /\ AsValue(db) = db
        /\ AsValue(user) = user /\ AsListed(user) = user /\ AsDoubleQuoted(user) = user

-----------------------------------------------------------------------------
(* The files of boot b, all of it rendered from one environment, as their    *)
(* reader reads them, except that YAML's scalars stay quoted.               *)

StunnelConf(env) ==
    [accept    |-> STUNNEL_PORT(env),
     connect   |-> host(env),
     sni       |-> host(env),
     checkHost |-> IF IsTrue(GetOr(env, "STUNNEL_VERIFY_CHAIN", <<"false">>))
                     THEN host(env) ELSE <<>>]

Ini(env, b) ==
    [listen_port |-> pgbouncer_port(env),
     db          |-> AsKey(env["LAKEBASE_DATABASE_NAME"]),
     dbname      |-> AsValue(env["LAKEBASE_DATABASE_NAME"]),
     server_port |-> STUNNEL_PORT(env),
     server_user |-> AsValue(env["LAKEBASE_DB_USER"]),
     password    |-> AsValue(Token(b)),
     admin_users |-> AsListed(env["LAKEBASE_DB_USER"])]

\* RECONNECT's argument, which the admin console reads like a key.
Reconnected(env) == AsKey(env["LAKEBASE_DATABASE_NAME"])

Userlist(env, b) == [user     |-> AsDoubleQuoted(env["LAKEBASE_DB_USER"]),
                     password |-> AsDoubleQuoted(client_pw(b))]

LakebaseDatasource(env, b) ==
    [port |-> pgbouncer_port(env),           database |-> yq(env["LAKEBASE_DATABASE_NAME"]),
     user |-> yq(env["LAKEBASE_DB_USER"]),   password |-> yq(client_pw(b))]

\* DATABRICKS_HOST without its scheme and without slashes at its end.
hostname(env) ==
    LET bare == SelectSeq(Get(env, "DATABRICKS_HOST"), LAMBDA a : a \notin {"https://", "http://"})
        kept == {i \in DOMAIN bare : \E j \in DOMAIN bare : j >= i /\ bare[j] # "/"}
    IN  SubSeq(bare, 1, Cardinality(kept))

DatabricksDatasource(env) ==
    [hostname |-> yq(hostname(env)),
     path     |-> yq(env["DATABRICKS_WAREHOUSE_HTTP_PATH"]),
     clientId |-> yq(env["DATABRICKS_CLIENT_ID"]),
     clientSecret |-> yq(env["DATABRICKS_CLIENT_SECRET"])]

-----------------------------------------------------------------------------
(* Grafana's environment.                                                   *)

\* GRAFANA_ROOT_URL is <<scheme, host>> \o path; slashes alone are no path.
serve_from_sub_path(root_url) ==
    IF \E i \in 3 .. Len(root_url) : root_url[i] # "/" THEN <<"true">> ELSE <<"false">>

auth_env(proxy) ==
    IF proxy
      THEN [GF_AUTH_PROXY_ENABLED         |-> <<"true">>,
            GF_AUTH_PROXY_HEADER_NAME     |-> <<"X-Forwarded-Email">>,
            GF_AUTH_PROXY_WHITELIST       |-> <<"127.0.0.1, ::1">>,
            GF_AUTH_ANONYMOUS_ENABLED     |-> <<"false">>,
            GF_AUTH_DISABLE_LOGIN_FORM    |-> <<"true">>,
            GF_USERS_AUTO_ASSIGN_ORG_ROLE |-> <<"Editor">>]
      ELSE [GF_AUTH_ANONYMOUS_ENABLED     |-> <<"true">>,
            GF_AUTH_ANONYMOUS_ORG_ROLE    |-> <<"Admin">>,
            GF_AUTH_DISABLE_LOGIN_FORM    |-> <<"true">>]

\* {**base, **over}
Updated(base, over) ==
    [k \in DOMAIN base \cup DOMAIN over |-> IF k \in DOMAIN over THEN over[k] ELSE base[k]]

\* Where Grafana's own store is, and where Grafana is served.
server_env(env, b) ==
    [GF_DATABASE_HOST     |-> pgbouncer_port(env),
     GF_DATABASE_NAME     |-> env["LAKEBASE_DATABASE_NAME"],
     GF_DATABASE_USER     |-> env["LAKEBASE_DB_USER"],
     GF_DATABASE_PASSWORD |-> client_pw(b),
     GF_SERVER_HTTP_PORT  |-> env["DATABRICKS_APP_PORT"],
     GF_SERVER_ROOT_URL   |-> env["GRAFANA_ROOT_URL"],
     GF_SERVER_SERVE_FROM_SUB_PATH |-> serve_from_sub_path(env["GRAFANA_ROOT_URL"])]

build_env(env, b) == Updated(server_env(env, b), auth_env(auth_proxy(env)))

ServicePrincipal == {"DATABRICKS_CLIENT_SECRET", "DATABRICKS_CLIENT_ID"}

\* Seeded bug: the inherited variables win over the computed ones.
Merged_Inherited(env, b) == Updated(build_env(env, b), env)

Merged(env, b) == Updated(env, build_env(env, b))

\* Seeded bug: the service principal's variables are not taken out.
grafana_env_Unstripped(env, b) == Merged(env, b)

grafana_env(env, b) == Restrict(Merged(env, b), DOMAIN Merged(env, b) \ ServicePrincipal)
=============================================================================
