-------------------------- MODULE ShutdownRequest ---------------------------
(***************************************************************************)
(* What stop_event promises, whoever sets it and however set() works: it   *)
(* is only ever raised, never without a reason to shut down, and the       *)
(* refresher thread ends only because of it.                               *)
(*                                                                         *)
(* StopEvent implements this with the lock inside threading.Event, and     *)
(* Supervisor with set() as one step: what Supervisor needs of the flag,   *)
(* the real one keeps.                                                     *)
(***************************************************************************)
VARIABLES
    asked,   \* a signal has come, or the supervisor has begun its teardown
    flag,    \* the event is set
    told     \* the refresher has seen it and has ended

Init == asked = FALSE /\ flag = FALSE /\ told = FALSE

\* A reason comes up; the flag may go up in the same step.
Ask == asked' = TRUE /\ flag' \in {flag, TRUE} /\ UNCHANGED told

Raise == asked /\ flag' = TRUE /\ UNCHANGED <<asked, told>>

Tell == flag /\ told' = TRUE /\ UNCHANGED <<asked, flag>>

Next == Ask \/ Raise \/ Tell

Spec == Init /\ [][Next]_<<asked, flag, told>>
=============================================================================
