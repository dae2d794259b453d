----------------------------- MODULE Supervisor -----------------------------
(***************************************************************************)
(* The running application: startup.py's supervisor loop (main thread),    *)
(* the token refresher of lib/refresher.py (daemon thread), and the three  *)
(* children they look after: Grafana, PgBouncer and stunnel.               *)
(*                                                                         *)
(* The two threads share stop_event, ini_lock, state.last_good_token and   *)
(* the file pgbouncer.ini.  One action is one stretch of code between two  *)
(* points at which the other thread, a child or a signal can matter.       *)
(*                                                                         *)
(* Abstractions.  A token is the number of the mint that produced it, the  *)
(* boot token being 0.  The ini file is its password= field, Torn when the *)
(* file holds no whole token.  Time passes only in the loop's sleep, so a  *)
(* relaunch timestamp is kept as an age in seconds; ages stop growing at   *)
(* PGB_RELAUNCH_WINDOW_S, beyond which the code treats them all alike.     *)
(***************************************************************************)
EXTENDS Integers, FiniteSets

CONSTANTS
    PGB_MAX_RELAUNCHES,     \* relaunches tolerated within the window
    PGB_RELAUNCH_WINDOW_S,  \* length of that window, in seconds
    GrafanaCodes,           \* exit statuses Grafana may end with
    MaxToken,               \* bound: mints after the boot token
    Torn,                   \* an ini file without a whole token
    None                    \* no exit status yet

ASSUME CeilingAssumption == PGB_MAX_RELAUNCHES \in Nat /\ PGB_RELAUNCH_WINDOW_S \in Nat \ {0}
ASSUME CodesAssumption   == GrafanaCodes \subseteq Int /\ None \notin Int
ASSUME TokenAssumption   == MaxToken \in Nat /\ Torn \notin Int

Children == {"Grafana", "PgBouncer", "stunnel"}
Support  == {"PgBouncer", "stunnel"}
Ages     == 0 .. PGB_RELAUNCH_WINDOW_S

\* Seeded bug: the support processes are stopped before Grafana.
Order_Reversed == <<"stunnel", "PgBouncer", "Grafana">>

\* The order in which _terminate_children visits the children.
Order == <<"Grafana", "PgBouncer", "stunnel">>

VARIABLES
    sup,              \* where the main thread is
    turn,             \* the child _terminate_children is at
    exit_code,        \* what sys.exit will be called with
    stop_event,
    signalled,        \* ghost: SIGTERM or SIGINT was received
    hung,             \* a handler waits for the event's lock, for ever
    ini_lock,         \* "free", or the thread that holds it
    ini,              \* the server token in pgbouncer.ini, or Torn
    last_good_token,
    relaunch_tok,     \* tok of _relaunch_pgbouncer
    ref,              \* where the refresher thread is
    token,            \* token of refresh_once: the last one minted
    psql_session,     \* psql is connected to the PgBouncer now running
    reload_failed,    \* ghost: the last reload raised, and was logged
    proc,             \* status of each child
    pgb,              \* how far the running PgBouncer has come
    server_token,     \* the token it logs in to the server with
    grafana_rc,
    relaunch_times,   \* ages of the relaunches the code remembers
    relaunched        \* ghost: ages of the relaunches really made

supVars   == <<sup, turn, exit_code>>
stopVars  == <<stop_event, signalled, hung>>
credVars  == <<ini, last_good_token>>
refVars   == <<ref, token, psql_session, reload_failed>>
childVars == <<proc, pgb, server_token, grafana_rc>>
ageVars   == <<relaunch_times, relaunched>>
\* What the main thread leaves alone when it only moves on, and what the
\* refresher and the children never touch.
world    == <<stopVars, ini_lock, credVars, relaunch_tok, refVars, childVars, ageVars>>
mainVars == <<supVars, stopVars, relaunch_tok, ageVars>>
vars == <<supVars, stopVars, ini_lock, credVars, relaunch_tok, refVars,
          childVars, ageVars>>

SupPoints == {"top", "poll_grafana", "poll_stunnel", "poll_pgbouncer",
              "relaunch_lock", "relaunch_render", "relaunch_fill",
              "relaunch_launch", "sleep", "stop", "barrier", "terminate",
              "wait", "exited", "crashed"}
RefPoints == {"wait", "mint", "lock", "rewrite", "record", "reload",
              "reconnect", "done"}

\* The process still runs: once it has ended its daemon thread is gone too.
Running == sup \notin {"exited", "crashed"}

Init ==
    /\ sup = "top" /\ turn = 1 /\ exit_code = None
    /\ stop_event = FALSE /\ signalled = FALSE /\ hung = FALSE
    /\ ini_lock = "free"
    /\ ini = 0 /\ last_good_token = 0 /\ relaunch_tok = 0
    /\ ref = "wait" /\ token = 0 /\ psql_session = FALSE
    /\ reload_failed = FALSE
    /\ proc = [c \in Children |-> "alive"]
    /\ pgb = "exec" /\ server_token = 0 /\ grafana_rc = None
    /\ relaunch_times = [c \in Support |-> {}]
    /\ relaunched = [c \in Support |-> {}]

-----------------------------------------------------------------------------
(* Leaving the loop.  sys.exit(rc) comes after _terminate_children; an      *)
(* exception that nothing catches ends the process with no teardown.        *)

BeginTeardown(rc) == sup' = "stop" /\ exit_code' = rc /\ turn' = turn

Crash == sup' = "crashed" /\ exit_code' = 1 /\ turn' = turn

GoTo(point) == sup' = point /\ UNCHANGED <<turn, exit_code>>

(* The head of the loop: first the stop flag, then Grafana.                 *)

ShutdownRequested ==
    /\ sup = "top" /\ stop_event
    /\ BeginTeardown(0)
    /\ UNCHANGED world

KeepRunning ==
    /\ sup = "top" /\ ~stop_event
    /\ GoTo("poll_grafana")
    /\ UNCHANGED world

PollGrafana ==
    /\ sup = "poll_grafana"
    /\ IF proc["Grafana"] = "exited" THEN BeginTeardown(grafana_rc)
                                     ELSE GoTo("poll_stunnel")
    /\ UNCHANGED world

-----------------------------------------------------------------------------
(* Relaunching a support process.  Looking at a dead child prunes its list  *)
(* of relaunches, then either gives up or appends this one.                 *)

\* Seeded bug: relaunches older than the window are never forgotten.
Recent_NotPruned(c) == relaunch_times[c]

Recent(c) == {a \in relaunch_times[c] : a < PGB_RELAUNCH_WINDOW_S}

\* Seeded bug: one relaunch too many.
CrashLooped_OffByOne(c) == Cardinality(Recent(c)) > PGB_MAX_RELAUNCHES

CrashLooped(c) == Cardinality(Recent(c)) >= PGB_MAX_RELAUNCHES

GiveUp(c) ==
    /\ sup = (IF c = "stunnel" THEN "poll_stunnel" ELSE "poll_pgbouncer")
    /\ proc[c] = "exited" /\ CrashLooped(c)
    /\ relaunch_times' = [relaunch_times EXCEPT ![c] = Recent(c)]
    /\ BeginTeardown(1)
    /\ UNCHANGED <<stopVars, ini_lock, credVars, relaunch_tok, refVars,
                   childVars, relaunched>>

\* Seeded bug: a `continue` after the relaunch, which skips PgBouncer's poll.
RelaunchStunnel_Continue ==
    /\ sup = "poll_stunnel" /\ proc["stunnel"] = "exited"
    /\ ~CrashLooped("stunnel")
    /\ relaunch_times' = [relaunch_times EXCEPT !["stunnel"] = Recent("stunnel") \cup {0}]
    /\ proc' = [proc EXCEPT !["stunnel"] = "alive"]
    /\ relaunched' = [relaunched EXCEPT !["stunnel"] = @ \cup {0}]
    /\ GoTo("sleep")
    /\ UNCHANGED <<stopVars, ini_lock, credVars, relaunch_tok, refVars, pgb,
                   server_token, grafana_rc>>

\* The new process runs, or Popen raises.
RelaunchStunnel ==
    /\ sup = "poll_stunnel" /\ proc["stunnel"] = "exited"
    /\ ~CrashLooped("stunnel")
    /\ relaunch_times' = [relaunch_times EXCEPT !["stunnel"] = Recent("stunnel") \cup {0}]
    /\ \/ /\ proc' = [proc EXCEPT !["stunnel"] = "alive"]
          /\ relaunched' = [relaunched EXCEPT !["stunnel"] = @ \cup {0}]
          /\ GoTo("poll_pgbouncer")
       \/ Crash /\ UNCHANGED <<proc, relaunched>>
    /\ UNCHANGED <<stopVars, ini_lock, credVars, relaunch_tok, refVars, pgb,
                   server_token, grafana_rc>>

SupportAlive(c) ==
    /\ proc[c] # "exited"
    /\ \/ c = "stunnel" /\ sup = "poll_stunnel" /\ GoTo("poll_pgbouncer")
       \/ c = "PgBouncer" /\ sup = "poll_pgbouncer" /\ GoTo("sleep")
    /\ UNCHANGED world

PgBouncerDied ==
    /\ sup = "poll_pgbouncer" /\ proc["PgBouncer"] = "exited"
    /\ ~CrashLooped("PgBouncer")
    /\ relaunch_times' = [relaunch_times EXCEPT !["PgBouncer"] = Recent("PgBouncer") \cup {0}]
    /\ GoTo("relaunch_lock")
    /\ UNCHANGED <<stopVars, ini_lock, credVars, relaunch_tok, refVars,
                   childVars, relaunched>>

(* _relaunch_pgbouncer: with ini_lock held, read last_good_token, render    *)
(* the ini with it, and write the file.  write_text truncates the file and  *)
(* then fills it.                                                           *)

RelaunchLock ==
    /\ sup = "relaunch_lock" /\ ini_lock = "free"
    /\ ini_lock' = "supervisor"
    /\ GoTo("relaunch_render")
    /\ UNCHANGED <<stopVars, credVars, relaunch_tok, refVars, childVars, ageVars>>

\* Seeded bug: the ini is rendered with the token minted at boot.
RelaunchRender_BootToken ==
    /\ sup = "relaunch_render"
    /\ relaunch_tok' = 0
    /\ ini' = Torn
    /\ GoTo("relaunch_fill")
    /\ UNCHANGED <<stopVars, ini_lock, last_good_token, refVars, childVars,
                   ageVars>>

RelaunchRender ==
    /\ sup = "relaunch_render"
    /\ relaunch_tok' = last_good_token
    /\ ini' = Torn
    /\ GoTo("relaunch_fill")
    /\ UNCHANGED <<stopVars, ini_lock, last_good_token, refVars, childVars,
                   ageVars>>

RelaunchFill ==
    /\ sup = "relaunch_fill"
    /\ ini' = relaunch_tok
    /\ ini_lock' = "free"
    /\ GoTo("relaunch_launch")
    /\ UNCHANGED <<stopVars, last_good_token, relaunch_tok, refVars,
                   childVars, ageVars>>

\* The write raises (disk full, say): the lock is released on the way out.
RelaunchFillFails ==
    /\ sup = "relaunch_fill"
    /\ ini_lock' = "free"
    /\ Crash
    /\ UNCHANGED <<stopVars, credVars, relaunch_tok, refVars, childVars, ageVars>>

RelaunchPgBouncer ==
    /\ sup = "relaunch_launch"
    /\ \/ /\ proc' = [proc EXCEPT !["PgBouncer"] = "alive"]
          /\ pgb' = "exec"
          /\ relaunched' = [relaunched EXCEPT !["PgBouncer"] = @ \cup {0}]
          /\ GoTo("sleep")
       \/ Crash /\ UNCHANGED <<proc, pgb, relaunched>>
    /\ UNCHANGED <<stopVars, ini_lock, credVars, relaunch_tok, refVars,
                   server_token, grafana_rc, relaunch_times>>

\* Everything one tick of the loop waits for, summed up: at least a second.
Older(ages, d) ==
    {IF a + d < PGB_RELAUNCH_WINDOW_S THEN a + d ELSE PGB_RELAUNCH_WINDOW_S : a \in ages}

Sleep(d) ==
    /\ sup = "sleep"
    /\ relaunch_times' = [c \in Support |-> Older(relaunch_times[c], d)]
    /\ relaunched' = [c \in Support |-> Older(relaunched[c], d)]
    /\ GoTo("top")
    /\ UNCHANGED <<stopVars, ini_lock, credVars, relaunch_tok, refVars,
                   childVars>>

-----------------------------------------------------------------------------
(* _terminate_children: set the flag, wait out a write in flight, then stop *)
(* the children one after the other, each with five seconds of grace.       *)

\* Seeded bug: only the handler sets the flag, the teardown does not.
SetStop_HandlerOnly == sup = "stop" /\ GoTo("barrier") /\ UNCHANGED world

SetStop ==
    /\ sup = "stop"
    /\ stop_event' = TRUE
    /\ GoTo("barrier")
    /\ UNCHANGED <<signalled, hung, ini_lock, credVars, relaunch_tok, refVars,
                   childVars, ageVars>>

Barrier ==
    /\ sup = "barrier" /\ ini_lock = "free"
    /\ GoTo("terminate")
    /\ UNCHANGED world

NextChild(point) == sup' = point /\ turn' = turn + 1 /\ exit_code' = exit_code

Terminate ==
    /\ sup = "terminate" /\ turn \in DOMAIN Order
    /\ IF proc[Order[turn]] = "alive" THEN GoTo("wait") ELSE NextChild("terminate")
    /\ UNCHANGED world

ChildStopped ==
    /\ sup = "wait" /\ proc[Order[turn]] = "exited"
    /\ NextChild("terminate")
    /\ UNCHANGED world

\* Seeded bug: proc.wait() without a timeout.
Kill_NoTimeout == FALSE

Kill ==
    /\ sup = "wait" /\ proc[Order[turn]] = "alive"
    /\ proc' = [proc EXCEPT ![Order[turn]] = "killed"]
    /\ NextChild("terminate")
    /\ UNCHANGED <<stopVars, ini_lock, credVars, relaunch_tok, refVars, pgb,
                   server_token, grafana_rc, ageVars>>

Exit ==
    /\ sup = "terminate" /\ turn \notin DOMAIN Order
    /\ GoTo("exited")
    /\ UNCHANGED world

-----------------------------------------------------------------------------
(* The refresher thread: run_loop, refresh_once, _write_server_cred and     *)
(* reload.  Its only look at stop_event is stop.wait(interval_s).           *)

RefGoTo(point) == ref' = point /\ UNCHANGED <<token, psql_session, reload_failed>>

\* stop.wait returns.  It ends with the flag's value, or with the timeout: a
\* wait that timed out just before set() is one that ended before it.  It
\* needs the event's lock to return, which a handler that hangs never gives
\* back.
IntervalOver ==
    /\ Running /\ ~hung /\ ref = "wait"
    /\ RefGoTo(IF stop_event THEN "done" ELSE "mint")
    /\ UNCHANGED <<mainVars, ini_lock, credVars, childVars>>

\* Seeded bug: an exception ends the refresher's loop.
MintFails_EndsLoop ==
    /\ Running /\ ref = "mint"
    /\ RefGoTo("done")
    /\ UNCHANGED <<mainVars, ini_lock, credVars, childVars>>

MintFails ==
    /\ Running /\ ref = "mint"
    /\ RefGoTo("wait")
    /\ UNCHANGED <<mainVars, ini_lock, credVars, childVars>>

\* Seeded bug: a response without a token is taken for one.
Mint_Unchecked ==
    /\ Running /\ ref = "mint" /\ token < MaxToken
    /\ token' \in {token + 1, None}
    /\ ref' = "lock"
    /\ UNCHANGED <<mainVars, ini_lock, credVars, psql_session, reload_failed,
                   childVars>>

Mint ==
    /\ Running /\ ref = "mint" /\ token < MaxToken
    /\ token' = token + 1
    /\ ref' = "lock"
    /\ UNCHANGED <<mainVars, ini_lock, credVars, psql_session, reload_failed,
                   childVars>>

CredLock ==
    /\ Running /\ ref = "lock" /\ ini_lock = "free"
    /\ ini_lock' = "refresher"
    /\ RefGoTo("rewrite")
    /\ UNCHANGED <<mainVars, credVars, childVars>>

\* Seeded bug: the file is overwritten in place, truncated first.
Rewrite_InPlace ==
    /\ Running /\ ref = "rewrite"
    /\ \/ ini # Torn /\ ini' = Torn /\ RefGoTo("rewrite")
       \/ ini = Torn /\ ini' = token /\ RefGoTo("record")
    /\ UNCHANGED <<mainVars, ini_lock, last_good_token, childVars>>

\* Seeded bug: last_good_token is recorded outside the critical section.
Rewrite_ReleasesLock ==
    /\ Running /\ ref = "rewrite" /\ ini # Torn
    /\ ini' = token
    /\ ini_lock' = "free"
    /\ RefGoTo("record")
    /\ UNCHANGED <<mainVars, last_good_token, childVars>>

\* write_server_cred: a temporary file, then os.replace.
Rewrite ==
    /\ Running /\ ref = "rewrite" /\ ini # Torn
    /\ ini' = token
    /\ RefGoTo("record")
    /\ UNCHANGED <<mainVars, ini_lock, last_good_token, childVars>>

\* No password= field to replace, or a failed read or write: run_loop logs it.
RewriteFails ==
    /\ Running /\ ref = "rewrite"
    /\ ini_lock' = "free"
    /\ RefGoTo("wait")
    /\ UNCHANGED <<mainVars, credVars, childVars>>

Record ==
    /\ Running /\ ref = "record"
    /\ last_good_token' = token
    /\ ini_lock' = "free"
    /\ RefGoTo("reload")
    /\ UNCHANGED <<mainVars, ini, childVars>>

\* psql connects and sends RELOAD: PgBouncer reads its ini again.
Reload ==
    /\ Running /\ ref = "reload"
    /\ proc["PgBouncer"] = "alive" /\ pgb = "serving"
    /\ server_token' = ini
    /\ psql_session' = TRUE
    /\ ref' = "reconnect"
    /\ UNCHANGED <<mainVars, ini_lock, credVars, token, reload_failed, proc,
                   pgb, grafana_rc>>

\* RECONNECT, over the same connection, and psql exits with status 0.
Reconnect ==
    /\ Running /\ ref = "reconnect" /\ psql_session
    /\ psql_session' = FALSE
    /\ reload_failed' = FALSE
    /\ ref' = "wait"
    /\ UNCHANGED <<mainVars, ini_lock, credVars, token, childVars>>

\* Seeded bug: psql's exit status is ignored.
ReloadFails_Swallowed ==
    /\ Running /\ ref \in {"reload", "reconnect"}
    /\ psql_session' = FALSE
    /\ ref' = "wait"
    /\ UNCHANGED <<mainVars, ini_lock, credVars, token, reload_failed, childVars>>

\* psql cannot connect, loses its connection or gets an error: reload raises.
ReloadFails ==
    /\ Running /\ ref \in {"reload", "reconnect"}
    /\ psql_session' = FALSE
    /\ reload_failed' = TRUE
    /\ ref' = "wait"
    /\ UNCHANGED <<mainVars, ini_lock, credVars, token, childVars>>

-----------------------------------------------------------------------------
(* The children and the platform.                                           *)

PgBouncerReadsIni ==
    /\ proc["PgBouncer"] = "alive" /\ pgb = "exec"
    /\ server_token' = ini
    /\ pgb' = "init"
    /\ UNCHANGED <<mainVars, ini_lock, credVars, refVars, proc, grafana_rc>>

PgBouncerListens ==
    /\ proc["PgBouncer"] = "alive" /\ pgb = "init"
    /\ pgb' = "serving"
    /\ UNCHANGED <<mainVars, ini_lock, credVars, refVars, proc, server_token,
                   grafana_rc>>

ChildExits(c) ==
    /\ proc[c] # "exited"
    /\ proc' = [proc EXCEPT ![c] = "exited"]
    /\ IF c = "Grafana" THEN grafana_rc' \in GrafanaCodes
                        ELSE grafana_rc' = grafana_rc
    /\ psql_session' = (psql_session /\ c # "PgBouncer")
    /\ UNCHANGED <<mainVars, ini_lock, credVars, ref, token, reload_failed,
                   pgb, server_token>>

\* SIGTERM or SIGINT: the handler only sets the flag.
Signal ==
    /\ Running /\ ~hung /\ ~signalled
    /\ signalled' = TRUE
    /\ stop_event' = TRUE
    /\ UNCHANGED <<supVars, hung, ini_lock, credVars, relaunch_tok, refVars,
                   childVars, ageVars>>

\* The signal interrupts a set() that has the event's lock: the teardown's
\* own, or the one of an earlier signal's handler, at any point of the main
\* thread.  The new handler waits for that lock beneath itself (StopEvent
\* shows how), with the flag already raised or not.
HandlerHangs ==
    /\ Running /\ ~hung
    /\ signalled' = TRUE /\ hung' = TRUE
    /\ stop_event' \in {stop_event, TRUE}
    /\ UNCHANGED <<supVars, ini_lock, credVars, relaunch_tok, refVars,
                   childVars, ageVars>>

\* The application is over, or hangs, and all its children are gone.
Over ==
    /\ ~Running \/ hung
    /\ \A c \in Children : proc[c] = "exited"
    /\ UNCHANGED vars

-----------------------------------------------------------------------------
Teardown == SetStop \/ Barrier \/ Terminate \/ ChildStopped \/ Kill \/ Exit

Relaunch ==
    \/ PgBouncerDied \/ RelaunchLock \/ RelaunchRender
    \/ RelaunchFill \/ RelaunchFillFails \/ RelaunchPgBouncer

Supervisor ==
    \/ ShutdownRequested \/ KeepRunning \/ PollGrafana \/ RelaunchStunnel
    \/ \E c \in Support : SupportAlive(c) \/ GiveUp(c)
    \/ Relaunch
    \/ \E d \in 1 .. PGB_RELAUNCH_WINDOW_S : Sleep(d)
    \/ Teardown

Refresher ==
    \/ IntervalOver \/ MintFails \/ Mint \/ CredLock \/ Rewrite \/ RewriteFails
    \/ Record \/ Reload \/ Reconnect \/ ReloadFails

Environment ==
    \/ PgBouncerReadsIni \/ PgBouncerListens \/ Signal \/ HandlerHangs \/ Over
    \/ \E c \in Children : ChildExits(c)

\* The main thread, unless a handler keeps it.
MainThread == ~hung /\ Supervisor

Next == MainThread \/ Refresher \/ Environment

Spec == Init /\ [][Next]_vars

(***************************************************************************)
(* Fairness.  The main thread keeps running while no handler hangs on top  *)
(* of it, and a file operation under ini_lock ends.  Strong fairness for   *)
(* taking the lock: the refresher holds it for milliseconds once per       *)
(* interval_s.  Nothing is assumed of mint_token or of psql, which has no  *)
(* timeout: either may hang for ever.                                      *)
(***************************************************************************)
HoldsLock == Rewrite \/ RewriteFails \/ Record

Fairness ==
    /\ WF_vars(MainThread)
    /\ SF_vars(~hung /\ RelaunchLock)
    /\ WF_vars(HoldsLock)

FairSpec == Spec /\ Fairness

-----------------------------------------------------------------------------
(* Types: every variable stays in the set of values the code gives it.      *)

TypeOK ==
    /\ sup \in SupPoints /\ turn \in 1 .. 4
    /\ exit_code \in GrafanaCodes \cup {0, 1, None}
    /\ stop_event \in BOOLEAN /\ signalled \in BOOLEAN /\ hung \in BOOLEAN
    /\ ini_lock \in {"free", "supervisor", "refresher"}
    /\ ini \in 0 .. MaxToken \cup {Torn}
    /\ last_good_token \in 0 .. MaxToken /\ relaunch_tok \in 0 .. MaxToken
    /\ ref \in RefPoints /\ token \in 0 .. MaxToken
    /\ psql_session \in BOOLEAN /\ reload_failed \in BOOLEAN
    /\ proc \in [Children -> {"alive", "killed", "exited"}]
    /\ pgb \in {"exec", "init", "serving"}
    /\ server_token \in 0 .. MaxToken
    /\ grafana_rc \in GrafanaCodes \cup {None}
    /\ relaunch_times \in [Support -> SUBSET Ages]
    /\ relaunched \in [Support -> SUBSET Ages]

(***************************************************************************)
(* startup.py:376 "the on-disk token and the relaunch path's view of it    *)
(* can never diverge": whenever nobody holds ini_lock, pgbouncer.ini holds *)
(* exactly last_good_token.  (A relaunch whose write failed has ended the  *)
(* process.)                                                               *)
(***************************************************************************)
CredentialAgreement ==
    ini_lock = "free" /\ sup # "crashed" => ini = last_good_token

(***************************************************************************)
(* startup.py:460 "so it cannot tear": the relaunch path overwrites the    *)
(* ini in place, so at no moment of that write may a PgBouncer be running  *)
(* that could read the half-written file, at its start or on a RELOAD.     *)
(***************************************************************************)
NeverReadTorn == proc["PgBouncer"] # "exited" => ini # Torn

\* The running PgBouncer has read its ini.
Loaded == proc["PgBouncer"] = "alive" /\ pgb # "exec"

(***************************************************************************)
(* pgbouncer.py:80 "a swallowed reload error means the server token        *)
(* silently goes stale": a PgBouncer that uses another token than the last *)
(* good one is either about to be reloaded, or the reload failed loudly.   *)
(* This covers the PgBouncer relaunched while the token rotates.           *)
(***************************************************************************)
StaleIsLoud ==
    Loaded /\ server_token # last_good_token =>
        ref \in {"record", "reload"} \/ reload_failed

(***************************************************************************)
(* startup.py:95-98: within any window of PGB_RELAUNCH_WINDOW_S seconds a  *)
(* support process is relaunched at most PGB_MAX_RELAUNCHES times.         *)
(***************************************************************************)
RelaunchCeiling ==
    \A c \in Support :
        Cardinality({a \in relaunched[c] : a < PGB_RELAUNCH_WINDOW_S}) <= PGB_MAX_RELAUNCHES

(***************************************************************************)
(* The exit status tells the platform what happened: 0 only after a signal *)
(* or a Grafana that ended with 0; another status is Grafana's own, or 1   *)
(* after a support process really used up its relaunches in the window.    *)
(***************************************************************************)
UsedUp(c) ==
    Cardinality({a \in relaunched[c] : a < PGB_RELAUNCH_WINDOW_S}) >= PGB_MAX_RELAUNCHES

ExitCodeFaithful ==
    sup = "exited" =>
        \/ exit_code = 0 /\ signalled
        \/ exit_code = grafana_rc /\ proc["Grafana"] = "exited"
        \/ exit_code = 1 /\ \E c \in Support : UsedUp(c)

(***************************************************************************)
(* Teardown stops users before what they use: no child is sent SIGTERM     *)
(* while one that connects through it still runs, and when the supervisor  *)
(* exits every child, relaunched ones included, is gone or was killed.     *)
(***************************************************************************)
Users == [c \in Children |-> CASE c = "Grafana"   -> {}
                               [] c = "PgBouncer" -> {"Grafana"}
                               [] c = "stunnel"   -> {"PgBouncer", "Grafana"}]

OrderlyTeardown ==
    /\ sup = "wait" => \A u \in Users[Order[turn]] : proc[u] # "alive"
    /\ sup = "exited" => \A c \in Children : proc[c] # "alive"

(***************************************************************************)
(* startup.py:442 "The stop_event prevents new writes": once the teardown  *)
(* is past its barrier nothing writes pgbouncer.ini any more.              *)
(***************************************************************************)
PastBarrier == sup \in {"terminate", "wait"}

NoWriteAfterBarrier == [][PastBarrier => UNCHANGED ini]_vars

(***************************************************************************)
(* What the flag does prevent: past the barrier no refresh cycle begins.   *)
(* A cycle that was minting then may write once more, and is the last one. *)
(* A wait whose timeout ended as the flag went up is already in its cycle.  *)
(***************************************************************************)
NoCycleAfterBarrier ==
    [][PastBarrier /\ ref \in {"wait", "done"} =>
         ref' \in {ref, "done"} /\ UNCHANGED <<ini, last_good_token, token>>]_vars

(***************************************************************************)
(* A shutdown request, or Grafana's exit, ends the process: neither a hung *)
(* psql or token mint, nor a child that ignores SIGTERM, nor a crash loop  *)
(* or relaunch under way prevents it.  One thing does: a signal that       *)
(* arrives inside set() and hangs the main thread (startup.py:415, :443).  *)
(***************************************************************************)
ShutdownCompletes ==
    (signalled \/ proc["Grafana"] = "exited") ~> (~Running \/ hung)

(***************************************************************************)
(* A dead support process is never forgotten: it is relaunched, or the     *)
(* application ends so that the platform restarts it (or hangs, as above). *)
(***************************************************************************)
SupportRevived ==
    \A c \in Support : proc[c] = "exited" ~> (proc[c] # "exited" \/ ~Running \/ hung)

(***************************************************************************)
(* The two writers together implement one credential that never goes back  *)
(* (a relaunch never undoes a rotation) and is always the one loaded.      *)
(* While the file is being rewritten in place, the credential it stands    *)
(* for is the one a relaunch would write.                                  *)
(***************************************************************************)
Credential == INSTANCE ServerCredential WITH
    NotLoaded <- None,
    cred      <- IF ini = Torn THEN last_good_token ELSE ini,
    loaded    <- IF Loaded THEN server_token ELSE None

ImplementsCredential == Credential!Spec

(***************************************************************************)
(* Both threads see stop_event as what it is: the teardown raises it for   *)
(* every reason there is to end, nobody lowers it, and nothing else, an    *)
(* exception in a refresh cycle least of all, ends the refresher's loop.   *)
(***************************************************************************)
Request == INSTANCE ShutdownRequest WITH
    asked <- signalled \/ sup \in {"stop", "barrier", "terminate", "wait", "exited"},
    flag  <- stop_event,
    told  <- ref = "done"

ImplementsRequest == Request!Spec
=============================================================================
