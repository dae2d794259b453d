--------------------------- MODULE TokenLifetime ----------------------------
(***************************************************************************)
(* The race between the token's expiry and the refresher's schedule.       *)
(*                                                                         *)
(* A Lakebase token lives TTL after it was minted.  run_loop of            *)
(* lib/refresher.py waits interval_s, makes one attempt (mint, write the   *)
(* ini, reload PgBouncer) and waits again whether or not it succeeded.     *)
(* Supervisor says that the right token is loaded; this module says when.  *)
(*                                                                         *)
(* A token is represented by how long it still lives; 0 is expired.        *)
(***************************************************************************)
EXTENDS Integers

CONSTANTS
    TTL,         \* lifetime of a token when it is minted
    INTERVAL,    \* interval_s of run_loop
    CYCLE_MAX,   \* bound: how long one refresh cycle takes
    BOOT_MAX,    \* bound: from the boot token's mint to the refresher's start
    MAX_MISSED   \* how many refresh cycles in a row may fail

ASSUME TimesAssumption ==
    /\ TTL \in Nat /\ INTERVAL \in Nat /\ CYCLE_MAX \in Nat
    /\ BOOT_MAX \in Nat /\ MAX_MISSED \in Nat

VARIABLES
    phase,    \* of the refresher: "wait", "mint", "write" or "reload"
    wait,     \* what is left of stop.wait(interval_s)
    busy,     \* time spent in the present cycle
    fresh,    \* the token minted in this cycle
    disk,     \* the token in pgbouncer.ini
    cred,     \* the token PgBouncer logs in with
    missed    \* ghost: failed cycles since the last complete one

vars == <<phase, wait, busy, fresh, disk, cred, missed>>

Init ==
    /\ phase = "wait" /\ wait = INTERVAL /\ busy = 0
    /\ \E boot \in 0 .. BOOT_MAX : cred = IF boot < TTL THEN TTL - boot ELSE 0
    /\ disk = cred /\ fresh = 0
    /\ missed = 0

-----------------------------------------------------------------------------
(* Time.  A wait ends on time, and a cycle within CYCLE_MAX.                *)

Less(t) == IF t > 0 THEN t - 1 ELSE 0

Tick ==
    /\ IF phase = "wait" THEN wait > 0 /\ wait' = wait - 1 /\ busy' = busy
                         ELSE busy < CYCLE_MAX /\ busy' = busy + 1 /\ wait' = wait
    /\ fresh' = Less(fresh) /\ disk' = Less(disk) /\ cred' = Less(cred)
    /\ UNCHANGED <<phase, missed>>

-----------------------------------------------------------------------------
(* One turn of run_loop.                                                    *)

\* Seeded bug: the time the cycle took is waited for once more.
NextInterval_Longer == phase' = "wait" /\ wait' = INTERVAL + busy /\ busy' = busy

\* Back to stop.wait(interval_s).
NextInterval == phase' = "wait" /\ wait' = INTERVAL /\ busy' = busy

WaitOver ==
    /\ phase = "wait" /\ wait = 0
    /\ phase' = "mint" /\ busy' = 0
    /\ UNCHANGED <<wait, fresh, disk, cred, missed>>

Mint ==
    /\ phase = "mint"
    /\ phase' = "write" /\ fresh' = TTL
    /\ UNCHANGED <<wait, busy, disk, cred, missed>>

\* Seeded bug: the temporary file is written but never put in the ini's place.
Write_NoReplace ==
    /\ phase = "write"
    /\ phase' = "reload"
    /\ UNCHANGED <<wait, busy, fresh, disk, cred, missed>>

Write ==
    /\ phase = "write"
    /\ phase' = "reload" /\ disk' = fresh
    /\ UNCHANGED <<wait, busy, fresh, cred, missed>>

\* Seeded bug: the ini is rewritten but PgBouncer is not told.
Reload_Skipped ==
    /\ phase = "reload" /\ NextInterval
    /\ missed' = 0
    /\ UNCHANGED <<fresh, disk, cred>>

Reload ==
    /\ phase = "reload" /\ NextInterval
    /\ cred' = disk
    /\ missed' = 0
    /\ UNCHANGED <<fresh, disk>>

\* The mint, the write or psql fails.  psql may have sent RELOAD before that.
Miss ==
    /\ phase # "wait" /\ NextInterval
    /\ IF phase = "reload" THEN cred' \in {cred, disk} ELSE cred' = cred
    /\ missed' = IF missed <= MAX_MISSED THEN missed + 1 ELSE missed
    /\ UNCHANGED <<fresh, disk>>

\* The supervisor relaunches a dead PgBouncer with the last good token.
Relaunch ==
    /\ cred' = disk
    /\ UNCHANGED <<phase, wait, busy, fresh, disk, missed>>

Next == Tick \/ WaitOver \/ Mint \/ Write \/ Reload \/ Miss \/ Relaunch

Spec == Init /\ [][Next]_vars

(* Time passes, the loop goes on, and an outage of the token service, of    *)
(* the disk or of psql is not for ever.                                     *)
FairSpec ==
    Spec /\ WF_vars(Tick) /\ WF_vars(WaitOver)
         /\ SF_vars(Mint) /\ SF_vars(Write) /\ SF_vars(Reload)

-----------------------------------------------------------------------------
(* Types: the phases of a cycle, and times that stay within their bounds.   *)
TypeOK ==
    /\ phase \in {"wait", "mint", "write", "reload"}
    /\ wait \in 0 .. INTERVAL /\ busy \in 0 .. CYCLE_MAX
    /\ fresh \in 0 .. TTL /\ disk \in 0 .. TTL /\ cred \in 0 .. TTL
    /\ missed \in 0 .. MAX_MISSED + 1

(***************************************************************************)
(* pgbouncer.py:81 "every connection fails after the ~1h TTL": as long as  *)
(* no more than MAX_MISSED cycles in a row fail, PgBouncer's token is live.*)
(***************************************************************************)
CredentialAlive == missed <= MAX_MISSED => cred > 0

\* What the constants must satisfy for that.
Margin ==
    /\ CYCLE_MAX + (MAX_MISSED + 1) * (INTERVAL + CYCLE_MAX) < TTL
    /\ BOOT_MAX + (MAX_MISSED + 1) * (INTERVAL + CYCLE_MAX) < TTL

(***************************************************************************)
(* refresher.py:39 "will retry next interval": however many cycles fail,   *)
(* once attempts can succeed again PgBouncer has a live token again.       *)
(***************************************************************************)
OutageHeals == []<>(cred > 0)
=============================================================================
