--------------------------- MODULE DemoGenerator ----------------------------
(***************************************************************************)
(* notebooks/lakebase_demo_data_generator.py: every INTERVAL_S seconds,    *)
(* rows for the window since the last tick are inserted into Lakebase.     *)
(* When an insert fails the connection is replaced, with retries, and the  *)
(* next tick's window starts where the failed one did.                     *)
(*                                                                         *)
(* Time is counted in units of INTERVAL_S from the start of the run, up to *)
(* MAX_CLOCK.  A window is a set of moments; the rows of a moment are      *)
(* written none, once or more than once.                                   *)
(***************************************************************************)
EXTENDS Integers

CONSTANTS
    RECONNECT_MAX_ATTEMPTS,
    RECONNECT_BACKOFF_S,
    RUN_FOR_S,   \* when the run is to end; without one it never does
    MAX_CLOCK    \* bound: the clock stops there

ASSUME RunAssumption ==
    /\ RECONNECT_MAX_ATTEMPTS \in Nat \ {0} /\ RECONNECT_BACKOFF_S \in Nat
    /\ RUN_FOR_S \in Nat \ {0} /\ MAX_CLOCK \in Nat /\ RUN_FOR_S < MAX_CLOCK

Moments == 1 .. MAX_CLOCK

VARIABLES
    pc,         \* "connect", "backoff", "sleep", "insert" or "over"
    clock,
    attempt,    \* of connect()
    open,       \* open connections
    prev_tick,
    now,        \* the end of the window being inserted
    written,    \* how often the rows of each moment were written
    blurred,    \* ghost: moments of a window whose insert failed
    ended       \* why the run is over

vars == <<pc, clock, attempt, open, prev_tick, now, written, blurred, ended>>
rows == <<written, blurred>>

\* deadline and prev_tick are set before the first connect().
Init ==
    /\ pc = "connect" /\ clock = 0 /\ attempt = 1 /\ open = 0
    /\ prev_tick = 0 /\ now = 0
    /\ written = [t \in Moments |-> "none"] /\ blurred = {}
    /\ ended = "none"

-----------------------------------------------------------------------------
Later(d) == IF clock + d < MAX_CLOCK THEN clock + d ELSE MAX_CLOCK

\* The finally clause closes the one connection that `conn` names.  Not here: a
\* cancel after the first connect() has returned and before the try.
End(why) == pc' = "over" /\ ended' = why /\ open' = IF open > 0 THEN open - 1 ELSE 0

(* connect(): a token is minted and a connection opened, up to              *)
(* RECONNECT_MAX_ATTEMPTS times, with a growing pause in between.           *)

Connected ==
    /\ pc = "connect"
    /\ clock' \in {Later(0), Later(1)}
    /\ open' = open + 1
    /\ pc' = "sleep"
    /\ UNCHANGED <<attempt, prev_tick, now, rows, ended>>

\* Seeded bug: one attempt too many.
ConnectFails_OffByOne ==
    /\ pc = "connect"
    /\ clock' \in {Later(0), Later(1)}
    /\ IF attempt <= RECONNECT_MAX_ATTEMPTS
         THEN pc' = "backoff" /\ UNCHANGED <<open, ended>>
         ELSE End("no_connection")
    /\ UNCHANGED <<attempt, prev_tick, now, rows>>

ConnectFails ==
    /\ pc = "connect"
    /\ clock' \in {Later(0), Later(1)}
    /\ IF attempt < RECONNECT_MAX_ATTEMPTS
         THEN pc' = "backoff" /\ UNCHANGED <<open, ended>>
         ELSE End("no_connection")
    /\ UNCHANGED <<attempt, prev_tick, now, rows>>

Backoff ==
    /\ pc = "backoff"
    /\ clock' = Later(RECONNECT_BACKOFF_S * attempt)
    /\ attempt' = attempt + 1
    /\ pc' = "connect"
    /\ UNCHANGED <<open, prev_tick, now, rows, ended>>

\* A mint that raises is no psycopg.Error: nothing catches it.
MintFails ==
    /\ pc = "connect"
    /\ End("exception")
    /\ UNCHANGED <<clock, attempt, prev_tick, now, rows>>

-----------------------------------------------------------------------------
(* The loop: sleep, take the time, insert the window's rows.                *)

Tick ==
    /\ pc = "sleep"
    /\ clock' = Later(1) /\ now' = clock'
    /\ pc' = "insert"
    /\ UNCHANGED <<attempt, open, prev_tick, rows, ended>>

Window == prev_tick + 1 .. now

Again(ts) == [t \in Moments |-> IF t \notin ts THEN written[t]
                                ELSE IF written[t] = "none" THEN "once" ELSE "more"]

\* Seeded bug: the deadline is measured from the last tick.
DeadlinePassed_FromTick(time) == time - prev_tick >= RUN_FOR_S

DeadlinePassed(time) == time >= RUN_FOR_S

\* Seeded bug: the next window starts when the insert ended.
Inserted_StartsLater ==
    /\ pc = "insert"
    /\ written' = Again(Window)
    /\ clock' \in {Later(0), Later(1)}
    /\ prev_tick' = clock'
    /\ IF DeadlinePassed(clock') THEN End("complete")
                                 ELSE pc' = "sleep" /\ UNCHANGED <<open, ended>>
    /\ UNCHANGED <<attempt, now, blurred>>

\* Seeded bug: the next window starts where this one did.
Inserted_KeepsTick ==
    /\ pc = "insert"
    /\ written' = Again(Window)
    /\ clock' \in {Later(0), Later(1)}
    /\ IF DeadlinePassed(clock') THEN End("complete")
                                 ELSE pc' = "sleep" /\ UNCHANGED <<open, ended>>
    /\ UNCHANGED <<attempt, prev_tick, now, blurred>>

Inserted ==
    /\ pc = "insert"
    /\ written' = Again(Window)
    /\ prev_tick' = now
    /\ clock' \in {Later(0), Later(1)}
    /\ IF DeadlinePassed(clock') THEN End("complete")
                                 ELSE pc' = "sleep" /\ UNCHANGED <<open, ended>>
    /\ UNCHANGED <<attempt, now, blurred>>

\* Seeded bug: the old connection is left open.
InsertFails_KeepsOld ==
    /\ pc = "insert"
    /\ \E part \in SUBSET Window : written' = Again(part)
    /\ blurred' = blurred \cup Window
    /\ clock' \in {Later(0), Later(1)}
    /\ attempt' = 1 /\ pc' = "connect"
    /\ UNCHANGED <<open, prev_tick, now, ended>>

\* Some rows may be there all the same, all of them when an answer was lost.
InsertFails ==
    /\ pc = "insert"
    /\ \E part \in SUBSET Window : written' = Again(part)
    /\ blurred' = blurred \cup Window
    /\ clock' \in {Later(0), Later(1)}
    /\ open' = open - 1
    /\ attempt' = 1 /\ pc' = "connect"
    /\ UNCHANGED <<prev_tick, now, ended>>

\* The notebook is stopped by hand, during an insert perhaps.
Cancel ==
    /\ pc # "over"
    /\ End("cancelled")
    /\ \/ written' = written
       \/ pc = "insert" /\ \E part \in SUBSET Window : written' = Again(part)
    /\ blurred' = IF pc = "insert" THEN blurred \cup Window ELSE blurred
    /\ UNCHANGED <<clock, attempt, prev_tick, now>>

Over == pc = "over" /\ UNCHANGED vars

Run == Connected \/ ConnectFails \/ Backoff \/ MintFails \/ Tick \/ Inserted \/ InsertFails

Next == Run \/ Cancel \/ Over

Spec == Init /\ [][Next]_vars

\* The notebook's cluster keeps running it.
FairSpec == Spec /\ WF_vars(Run)

-----------------------------------------------------------------------------
(* Types: attempts, times and connections stay within their bounds.         *)
TypeOK ==
    /\ pc \in {"connect", "backoff", "sleep", "insert", "over"}
    /\ clock \in 0 .. MAX_CLOCK /\ prev_tick \in 0 .. now /\ now \in 0 .. clock
    /\ attempt \in 1 .. RECONNECT_MAX_ATTEMPTS
    /\ open \in Nat
    /\ written \in [Moments -> {"none", "once", "more"}]
    /\ blurred \subseteq Moments
    /\ ended \in {"none", "complete", "cancelled", "no_connection", "exception"}

(***************************************************************************)
(* Line 136: "the next successful tick backfills this window's rows".      *)
(* However many inserts and connections fail, every moment up to the last  *)
(* successful tick lies in a window whose rows were inserted.              *)
(***************************************************************************)
NoGap == \A t \in 1 .. prev_tick : written[t] # "none"

(***************************************************************************)
(* The back-fill writes rows twice only where an insert failed half way or *)
(* its answer was lost: windows of successful ticks never overlap.         *)
(***************************************************************************)
TwiceOnlyAfterFailure == \A t \in Moments : written[t] = "more" => t \in blurred

(***************************************************************************)
(* A reconnect replaces the connection: never two are open, and none is    *)
(* left open when the run is over, whatever ended it.                      *)
(***************************************************************************)
OneConnection == open <= 1 /\ (pc = "over" => open = 0)

(***************************************************************************)
(* Line 32, RUN_FOR_S: "total run time in seconds".  The run ends, unless  *)
(* its inserts keep failing: after a failure the deadline is not looked at *)
(* (line 144).  The first insert that succeeds after it ends the run, and  *)
(* no loop of connect() or of ticks keeps it going.                        *)
(***************************************************************************)
RunEnds == <>(pc = "over")

OnlyFailuresOutlive == RunEnds \/ []<><<InsertFails>>_vars
=============================================================================
