-------------------------------- MODULE Boot --------------------------------
(***************************************************************************)
(* main() of startup.py up to its supervisor loop: the order in which it   *)
(* obtains the token, checks the privilege, writes the configuration files *)
(* and launches the children, and what a failure or a signal leaves behind.*)
(*                                                                         *)
(* Each boot has an environment, and finds what earlier ones left: bin/,   *)
(* for which stage_binaries keeps the promise of Bundle, and files.  The   *)
(* contents of a file are the number of the boot whose values it holds (0  *)
(* for none), or Torn after a write that raised; Environment says what     *)
(* those values are.  Supervisor takes over where this ends.               *)
(***************************************************************************)
EXTENDS Naturals, Environment

CONSTANTS
    Environments, \* the environments a boot may have
    MAX_BOOTS,    \* bound: starts of the process
    Torn          \* a file whose write was cut short

ASSUME BootAssumption == MAX_BOOTS \in Nat /\ Torn \notin Nat

\* The texts Grafana gets that stand in the code.
Literals == {<<"6432">>, <<"true">>, <<"false">>}
            \cup Range(auth_env(TRUE)) \cup Range(auth_env(FALSE))

\* Variables are texts.  Secrets are nobody else's texts: neither another
\* variable nor the code happens to say the same.
ASSUME EnvironmentsAssumption ==
    \A e \in Environments :
      /\ \A k \in DOMAIN e : e[k] \in Seq(Range(e[k]))
      /\ \A b \in 0 .. MAX_BOOTS :
           /\ \A k \in DOMAIN e : e[k] # Token(b)
           /\ Get(e, "DATABRICKS_CLIENT_SECRET") # client_pw(b)
      /\ Get(e, "DATABRICKS_CLIENT_SECRET") \notin Literals
      /\ \A k \in DOMAIN e \ ServicePrincipal :
           e[k] # <<>> => e[k] # Get(e, "DATABRICKS_CLIENT_SECRET")

\* Secrets are words to PgBouncer: a token is base64url and dots, and the
\* password's alphabet is what startup.py:247 asserts.
ASSUME SecretsAssumption ==
    \A b \in 0 .. MAX_BOOTS :
      AsValue(Token(b)) = Token(b) /\ AsDoubleQuoted(client_pw(b)) = client_pw(b)

\* What main() does, in order.
Steps == <<"config", "client", "secret_key", "stage", "lib_path", "endpoint",
           "mint", "preflight", "client_pw",
           "stunnel.conf", "stunnel",
           "pgbouncer.ini", "userlist.txt", "PgBouncer",
           "lakebase.yaml", "provider.yaml", "databricks.yaml", "Grafana",
           "refresher", "handlers", "supervise">>

Files == {"stunnel.conf", "pgbouncer.ini", "userlist.txt", "lakebase.yaml",
          "provider.yaml", "databricks.yaml"}

Children == {"stunnel", "PgBouncer", "Grafana"}

VARIABLES
    boot,      \* number of this start
    envs,      \* the environment of each boot so far
    running,   \* a process runs
    at,        \* index in Steps of what it does next
    ep,        \* boot whose endpoint is known, 0 for none; likewise:
    token,     \* the boot token
    password,  \* the loopback password
    lib_path,  \* LD_LIBRARY_PATH names bin/lib
    bundle, attempt, returned,  \* bin/ and stage_binaries: see Bundle
    privilege, \* the database's answer about CREATE: see Answers
    file,      \* contents of each file
    children,  \* children of this process that run
    orphans,   \* children of ended processes that run
    ended_by   \* how the last process ended

bin      == <<bundle, attempt, returned>>
memory   == <<ep, token, password, lib_path>>
platform == <<boot, envs, privilege>>
procs    == <<children, orphans>>
vars == <<platform, running, at, memory, bin, file, procs, ended_by>>

Bin == INSTANCE Bundle

env == envs[boot]

\* check_create_privilege: a row, which says yes or no, or no row at all when
\* the principal does not see the database.  Two of them are errors.
Answers    == {"yes", "no", "no row"}
Privileged == privilege = "yes"

\* The files a child reads when it starts: Grafana provisions whatever is in
\* its directory.
Reads(c) == CASE c = "stunnel"   -> {"stunnel.conf"}
              [] c = "PgBouncer" -> {"pgbouncer.ini", "userlist.txt"}
              [] c = "Grafana"   -> {"lakebase.yaml", "provider.yaml", "databricks.yaml"}

\* What this boot was not told to write it leaves as it finds it.
LeftAlone(f) == f = "databricks.yaml" /\ ~warehouse(env)

Init ==
    /\ boot = 0 /\ envs = <<>> /\ running = FALSE /\ at = 1
    /\ ep = 0 /\ token = 0 /\ password = 0 /\ lib_path = FALSE
    /\ bundle \in {"none", "whole"} /\ attempt = FALSE /\ returned = "nothing"
    /\ privilege \in Answers
    /\ file = [f \in Files |-> 0]
    /\ children = {} /\ orphans = {} /\ ended_by = "none"

-----------------------------------------------------------------------------
At(step)  == running /\ Steps[at] = step
Advance   == at' = at + 1 /\ UNCHANGED <<running, ended_by>>

\* The process is gone: its memory with it, its children left to themselves.
Gone(how) ==
    /\ running' = FALSE /\ at' = 1 /\ ended_by' = how
    /\ ep' = 0 /\ token' = 0 /\ password' = 0 /\ lib_path' = FALSE
    /\ IF attempt THEN Bin!Abandon ELSE UNCHANGED bin

End(how) == Gone(how) /\ children' = {} /\ orphans' = orphans \cup children

\* The platform starts the process, with the environment it has by now; the
\* database's answer may have changed as well.
Start ==
    /\ ~running /\ boot < MAX_BOOTS
    /\ boot' = boot + 1 /\ running' = TRUE /\ at' = 1 /\ ended_by' = "none"
    /\ \E e \in Environments : envs' = Append(envs, e)
    /\ privilege' \in Answers
    /\ Bin!Call
    /\ UNCHANGED <<memory, file, procs>>

\* Steps without an effect that matters here.  A missing secret is no error.
Proceed ==
    /\ \/ At("config") /\ Loads(env)
       \/ \E step \in {"client", "secret_key", "refresher", "handlers"} : At(step)
    /\ Advance
    /\ UNCHANGED <<memory, platform, bin, file, procs>>

\* GRAFANA_BUNDLE_VOLUME_PATH unset: bin/ is taken to be there already.
StageSkipped ==
    /\ At("stage") /\ ~Set(env, "GRAFANA_BUNDLE_VOLUME_PATH")
    /\ Advance
    /\ UNCHANGED <<memory, platform, bin, file, procs>>

Stage ==
    /\ At("stage") /\ Set(env, "GRAFANA_BUNDLE_VOLUME_PATH")
    /\ \/ (Bin!Begin \/ Bin!Progress) /\ UNCHANGED <<at, running, ended_by>>
       \/ (Bin!Skip \/ Bin!Finish) /\ Advance
    /\ UNCHANGED <<memory, platform, file, procs>>

PrependLibPath ==
    /\ At("lib_path") /\ Advance
    /\ lib_path' = TRUE
    /\ UNCHANGED <<ep, token, password, platform, bin, file, procs>>

\* LAKEBASE_HOST, or the endpoint's host from the API.
ResolveEndpoint ==
    /\ At("endpoint") /\ Advance
    /\ ep' = boot
    /\ UNCHANGED <<token, password, lib_path, platform, bin, file, procs>>

\* Seeded bug: the token left in the ini by the last boot is used again.
MintToken_Cached ==
    /\ At("mint") /\ Advance
    /\ token' = IF file["pgbouncer.ini"] = 0 THEN boot ELSE file["pgbouncer.ini"]
    /\ UNCHANGED <<ep, password, lib_path, platform, bin, file, procs>>

MintToken ==
    /\ At("mint") /\ Advance
    /\ token' = boot
    /\ UNCHANGED <<ep, password, lib_path, platform, bin, file, procs>>

\* Seeded bug: a failed preflight is logged and the boot goes on.
Preflight_LogsOnly ==
    /\ At("preflight") /\ Advance
    /\ UNCHANGED <<memory, procs, platform, bin, file>>

\* PermissionError is the one failure that is caught.
Preflight ==
    /\ At("preflight")
    /\ IF Privileged THEN Advance /\ UNCHANGED <<memory, bin, procs>>
                  ELSE End("preflight")
    /\ UNCHANGED <<platform, file>>

ClientPassword ==
    /\ At("client_pw") /\ Advance
    /\ password' = boot
    /\ UNCHANGED <<ep, token, lib_path, platform, bin, file, procs>>

\* Whose values a file is rendered with.
Rendered(f) == CASE f = "stunnel.conf"  -> ep
                 [] f = "pgbouncer.ini" -> token
                 [] f \in {"userlist.txt", "lakebase.yaml"} -> password
                 [] OTHER -> boot

\* Seeded bug: a file that is there already is kept.
WriteFile_IfMissing(f) ==
    /\ At(f) /\ Advance
    /\ file' = IF file[f] = 0 THEN [file EXCEPT ![f] = Rendered(f)] ELSE file
    /\ UNCHANGED <<memory, platform, bin, procs>>

\* write_text and chmod.  Without a warehouse databricks.yaml is left alone.
WriteFile(f) ==
    /\ At(f) /\ Advance
    /\ file' = IF LeftAlone(f) THEN file ELSE [file EXCEPT ![f] = Rendered(f)]
    /\ UNCHANGED <<memory, platform, bin, procs>>

Launch(c) ==
    /\ At(c) /\ Advance
    /\ children' = children \cup {c}
    /\ UNCHANGED <<memory, orphans, platform, bin, file>>

\* Steps at which nothing raises out of main(): what can is caught, or there
\* is nothing to do.
Silent ==
    \/ \E step \in {"secret_key", "lib_path", "client_pw", "handlers"} : At(step)
    \/ At("config") /\ Loads(env)
    \/ At("endpoint") /\ Set(env, "LAKEBASE_HOST")
    \/ At("stage") /\ ~Set(env, "GRAFANA_BUNDLE_VOLUME_PATH")
    \/ At("databricks.yaml") /\ LeftAlone("databricks.yaml")

\* What a process that is cut short leaves of the files: write_text empties
\* the file first.  The loop writes pgbouncer.ini again.
CutShort ==
    \/ file' = file
    \/ \E f \in Files :
         /\ At(f) \/ (At("supervise") /\ f = "pgbouncer.ini")
         /\ file' = [file EXCEPT ![f] = Torn]

Raise ==
    /\ running /\ ~Silent
    /\ End("exception") /\ CutShort
    /\ UNCHANGED platform

\* SIGTERM while the signal still has its default action.
SignalDuringBoot ==
    /\ running /\ ~At("supervise")
    /\ End("signal") /\ CutShort
    /\ UNCHANGED platform

\* The application's later end, after _terminate_children: see Supervisor.
SupervisorEnds ==
    /\ At("supervise")
    /\ Gone("supervisor") /\ children' = {}
    /\ UNCHANGED <<platform, file, orphans>>

\* Nobody polls a child before the supervisor loop.
ChildExits ==
    /\ \/ \E c \in children : children' = children \ {c} /\ orphans' = orphans
       \/ \E c \in orphans  : orphans' = orphans \ {c} /\ children' = children
    /\ UNCHANGED <<running, at, ended_by, memory, platform, bin, file>>

NoMoreBoots == ~running /\ boot = MAX_BOOTS /\ UNCHANGED vars

Next ==
    \/ Start \/ Proceed \/ StageSkipped \/ Stage \/ PrependLibPath
    \/ ResolveEndpoint \/ MintToken \/ Preflight \/ ClientPassword
    \/ \E f \in Files : WriteFile(f)
    \/ \E c \in Children : Launch(c)
    \/ Raise \/ SignalDuringBoot \/ SupervisorEnds \/ ChildExits \/ NoMoreBoots

Spec == Init /\ [][Next]_vars

-----------------------------------------------------------------------------
(* Types: contents are boots that have happened, or a torn file.            *)
TypeOK ==
    /\ boot \in 0 .. MAX_BOOTS /\ running \in BOOLEAN /\ at \in DOMAIN Steps
    /\ envs \in Seq(Environments) /\ Len(envs) = boot
    /\ {ep, token, password} \subseteq {0, boot}
    /\ lib_path \in BOOLEAN /\ privilege \in Answers /\ attempt \in BOOLEAN
    /\ bundle \in {"none", "marked", "whole"}
    /\ returned \in {"nothing", "skipped", "staged"}
    /\ file \in [Files -> 0 .. boot \cup {Torn}]
    /\ children \subseteq Children /\ orphans \subseteq Children
    /\ ended_by \in {"none", "preflight", "exception", "signal", "supervisor"}

(***************************************************************************)
(* Whatever earlier boots left on the disk, a child is only launched when  *)
(* the library path is set, bin/ is there if this boot was to stage it, and*)
(* whole if it did, and of the files the child reads at its start all that *)
(* this boot is told to write are whole and hold its values.  A boot       *)
(* without a warehouse is not told to write databricks.yaml, and Grafana   *)
(* reads what is there: see NoWarehouseNoDatasource.                       *)
(***************************************************************************)
Ready(c) ==
    /\ lib_path
    /\ Set(env, "GRAFANA_BUNDLE_VOLUME_PATH") => bundle # "none"
    /\ returned = "staged" => bundle = "whole"
    /\ \A f \in Reads(c) : file[f] = boot \/ LeftAlone(f)

LaunchesAreReady ==
    [][\A c \in Children : c \in children' \ children => Ready(c)]_vars

(***************************************************************************)
(* startup.py:238-240: a principal without CREATE starts nothing: no child *)
(* of a boot whose preflight was refused ever runs.                        *)
(***************************************************************************)
UnprivilegedRunsNothing ==
    /\ running /\ ~Privileged => children = {}
    /\ ended_by = "preflight" => \A f \in Files : file[f] # boot


(***************************************************************************)
(* Both logins of a running Grafana, its own store's and its datasource's, *)
(* are answered all along the way: by PgBouncer's port, user list and      *)
(* database, by the shim PgBouncer is pointed at, by the endpoint the shim *)
(* names, with this boot's token; and the refresher may reload PgBouncer   *)
(* and reconnect that database.  Five renderers and four files, of which   *)
(* some were here before, agree.  The names must be ones that PgBouncer    *)
(* takes unquoted: pgbouncer.py quotes none of them.                       *)
(***************************************************************************)
IniInForce  == Ini(envs[file["pgbouncer.ini"]], file["pgbouncer.ini"])
ListInForce == Userlist(envs[file["userlist.txt"]], file["userlist.txt"])
ShimInForce == StunnelConf(envs[file["stunnel.conf"]])
DataSource  == LakebaseDatasource(envs[file["lakebase.yaml"]], file["lakebase.yaml"])
GrafanaEnv  == grafana_env(env, password)

Answered(port, db, user, pw) ==
    /\ port = IniInForce.listen_port /\ db = IniInForce.db
    /\ IniInForce.dbname = env["LAKEBASE_DATABASE_NAME"]
    /\ ListInForce = [user |-> user, password |-> pw]
    /\ IniInForce.server_port = ShimInForce.accept
    /\ ShimInForce.connect = host(env) /\ ShimInForce.sni = host(env)
    /\ IniInForce.server_user = env["LAKEBASE_DB_USER"]
    /\ IniInForce.password = Token(token)

StoreReached ==
    Answered(GrafanaEnv.GF_DATABASE_HOST, GrafanaEnv.GF_DATABASE_NAME,
             GrafanaEnv.GF_DATABASE_USER, GrafanaEnv.GF_DATABASE_PASSWORD)

DatasourceReached ==
    Answered(DataSource.port, Unquoted(DataSource.database),
             Unquoted(DataSource.user), Unquoted(DataSource.password))

Reloadable ==
    /\ IniInForce.admin_users = env["LAKEBASE_DB_USER"]
    /\ ListInForce.user = env["LAKEBASE_DB_USER"]
    /\ Reconnected(env) = IniInForce.db

GrafanaReachesLakebase ==
    "Grafana" \in children /\ PlainNames(env) =>
      StoreReached /\ DatasourceReached /\ Reloadable

(***************************************************************************)
(* README.md, "Token isolation": Grafana gets the service principal's      *)
(* secret from databricks.yaml and from nowhere else, and Lakebase's token *)
(* from nowhere at all.                                                    *)
(***************************************************************************)
SecretsStayPut ==
    "Grafana" \in children =>
      /\ \A k \in DOMAIN GrafanaEnv :
           GrafanaEnv[k] \notin {Token(token), Get(env, "DATABRICKS_CLIENT_SECRET")} \ {<<>>}
      /\ warehouse(env) =>
           Unquoted(DatabricksDatasource(envs[file["databricks.yaml"]]).clientSecret)
             = env["DATABRICKS_CLIENT_SECRET"]
=============================================================================
