----------------------------- MODULE StopEvent ------------------------------
(***************************************************************************)
(* stop_event up close.  Supervisor treats stop_event.set() as one step;   *)
(* threading.Event makes it three: take the event's own lock, set the      *)
(* flag, notify and release.  That lock is not reentrant.                  *)
(*                                                                         *)
(* A Python signal handler runs in the main thread, on top of whatever     *)
(* that thread is doing, another handler included.  Both the handler       *)
(* (_on_signal) and _terminate_children call set() from the main thread.   *)
(* The refresher's stop.wait(interval_s) looks at the flag under the same  *)
(* lock, waits without it for a notification or the timeout, and needs it  *)
(* again to return; what it returns then is which of the two it was.       *)
(***************************************************************************)
EXTENDS Naturals, Sequences

CONSTANT MAX_SIGNALS  \* bound: SIGTERMs and SIGINTs received

ASSUME SignalsAssumption == MAX_SIGNALS \in Nat

VARIABLES
    stack,    \* frames of the main thread, innermost last
    owner,    \* frame of stack that holds the event's lock, 0 for nobody
    flag,     \* the event is set
    ref,      \* the refresher: "outside" stop.wait (in a cycle), "waiting",
              \* "notified", "timedout", "done"
    signals   \* signals received so far

vars == <<stack, owner, flag, ref, signals>>

Top == stack[Len(stack)]

SetTop(state) == [stack EXCEPT ![Len(stack)] = state]

\* The bottom frame is the loop and its teardown, the others are handlers.
Init ==
    /\ stack = <<"loop">> /\ owner = 0 /\ flag = FALSE
    /\ ref = "outside" /\ signals = 0

-----------------------------------------------------------------------------
\* The loop saw the flag, Grafana's end or a crash loop: _terminate_children.
BeginTeardown ==
    /\ Top = "loop"
    /\ stack' = SetTop("acquire")
    /\ UNCHANGED <<owner, flag, ref, signals>>

\* Seeded bug: a signal that does not find the loop running is dropped.
Handler_Drops ==
    /\ signals < MAX_SIGNALS
    /\ signals' = signals + 1
    /\ stack' = IF Top = "loop" THEN Append(stack, "acquire") ELSE stack
    /\ UNCHANGED <<owner, flag, ref>>

\* A signal interrupts the main thread between any two of its steps.
Handler ==
    /\ signals < MAX_SIGNALS
    /\ signals' = signals + 1
    /\ stack' = Append(stack, "acquire")
    /\ UNCHANGED <<owner, flag, ref>>

\* set() returns: to the interrupted frame, or to the teardown.
Return == IF Len(stack) = 1 THEN <<"teardown">> ELSE SubSeq(stack, 1, Len(stack) - 1)

AcquireCond ==
    /\ Top = "acquire" /\ owner = 0
    /\ owner' = Len(stack)
    /\ stack' = SetTop("held")
    /\ UNCHANGED <<flag, ref, signals>>

SetFlag ==
    /\ Top = "held"
    /\ flag' = TRUE /\ stack' = SetTop("notify")
    /\ UNCHANGED <<owner, ref, signals>>

\* notify_all, and the end of the `with`.
ReleaseCond ==
    /\ Top = "notify"
    /\ owner' = 0
    /\ stack' = Return
    /\ ref' = IF ref = "waiting" THEN "notified" ELSE ref
    /\ UNCHANGED <<flag, signals>>

\* The refresher's `while not stop.wait(interval_s)`.
WaitBegins ==
    /\ ref = "outside" /\ owner = 0
    /\ ref' = IF flag THEN "done" ELSE "waiting"
    /\ UNCHANGED <<stack, owner, flag, signals>>

TimesOut ==
    /\ ref = "waiting"
    /\ ref' = "timedout"
    /\ UNCHANGED <<stack, owner, flag, signals>>

\* Seeded bug: the end of the interval is taken for the flag.
WaitReturns_TimedOut ==
    /\ ref \in {"notified", "timedout"} /\ owner = 0
    /\ ref' = "done"
    /\ UNCHANGED <<stack, owner, flag, signals>>

\* A timeout leads into a cycle, though the flag may be up by now.
WaitReturns ==
    /\ ref \in {"notified", "timedout"} /\ owner = 0
    /\ ref' = IF ref = "notified" THEN "done" ELSE "outside"
    /\ UNCHANGED <<stack, owner, flag, signals>>

TornDown == stack = <<"teardown">> /\ UNCHANGED vars

MainThread == BeginTeardown \/ AcquireCond \/ SetFlag \/ ReleaseCond

Wait == WaitBegins \/ TimesOut \/ WaitReturns

Next == MainThread \/ Handler \/ Wait \/ TornDown

Spec == Init /\ [][Next]_vars

-----------------------------------------------------------------------------
(***************************************************************************)
(* startup.py:408 "The handler does the MINIMUM safe work: set stop_event":*)
(* the handler must never wait for a lock that a frame beneath it holds,   *)
(* because that frame cannot go on before the handler returns.             *)
(***************************************************************************)
HandlerIsSafe == Top = "acquire" => owner \notin 1 .. Len(stack)

(***************************************************************************)
(* A shutdown request is never lost to the refresher's use of the lock, to *)
(* another handler or to a teardown under way: when every handler has      *)
(* returned, the loop finds the flag set; and the refresher ends only then.*)
(***************************************************************************)
RequestSeen ==
    /\ signals > 0 /\ Len(stack) = 1 => flag
    /\ ref = "done" => flag

(***************************************************************************)
(* However many handlers nest, and whatever gets stuck, the event is no    *)
(* more and no less than a shutdown request.                               *)
(***************************************************************************)
Request == INSTANCE ShutdownRequest WITH
    asked <- signals > 0 \/ stack[1] # "loop",
    told  <- ref = "done"

ImplementsRequest == Request!Spec
=============================================================================
