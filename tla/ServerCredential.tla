-------------------------- MODULE ServerCredential --------------------------
(***************************************************************************)
(* What the token rotation promises, with no threads, locks or files: one  *)
(* published credential that only ever moves forward, and a pooler that,   *)
(* whenever it loads a credential, loads the published one.                *)
(*                                                                         *)
(* startup.py's main thread and refresher thread both write pgbouncer.ini; *)
(* Supervisor is shown to implement this specification.                    *)
(***************************************************************************)
EXTENDS Integers

CONSTANT NotLoaded  \* the pooler is not running, or has read no ini yet

VARIABLES
    cred,    \* the credential a pooler started now would use
    loaded   \* the credential the pooler uses

Init == cred = 0 /\ loaded = NotLoaded

\* A newer token replaces the published one: in one step, and never back.
Rotate ==
    /\ cred' \in {t \in Int : t > cred}
    /\ loaded' = loaded

\* The pooler starts, or is told to reload.
Load == loaded' = cred /\ cred' = cred

Die == loaded' = NotLoaded /\ cred' = cred

Next == Rotate \/ Load \/ Die

Spec == Init /\ [][Next]_<<cred, loaded>>
=============================================================================
