--------------------- MODULE SupervisorLifecycleProofs ----------------------
(***************************************************************************)
(* Proofs about the end of the application's life in Supervisor: the       *)
(* crash-loop ceiling, the order of the teardown and the exit status, for  *)
(* every ceiling, window, set of exit statuses and number of tokens.       *)
(***************************************************************************)
EXTENDS SupervisorProofs, FiniteSetTheorems

USE CeilingAssumption, CodesAssumption, TokenAssumption
    DEF CeilingAssumption, CodesAssumption, TokenAssumption

-----------------------------------------------------------------------------
(* The relaunches really made within the window.                            *)
Live(c) == {a \in relaunched[c] : a < PGB_RELAUNCH_WINDOW_S}

(***************************************************************************)
(* The inductive invariant behind RelaunchCeiling: the code remembers      *)
(* every relaunch of the window and never more than the ceiling.  What it  *)
(* remembers is exactly what was done, but for the PgBouncer relaunch that *)
(* is under way, recorded before it happens.                               *)
(***************************************************************************)
AgesInv ==
    /\ \A c \in Support : Live(c) \subseteq Recent(c)
    /\ \A c \in Support : Cardinality(Recent(c)) <= PGB_MAX_RELAUNCHES
    /\ \A c \in Support : Recent(c) # Live(c) =>
           sup = "crashed" \/ (c = "PgBouncer" /\ sup \in Relaunching)
    /\ sup \in Relaunching => 0 \in Recent("PgBouncer")
                              /\ Recent("PgBouncer") \subseteq Live("PgBouncer") \cup {0}

LEMMA RecentFinite ==
    ASSUME TypeOK, NEW c \in Support
    PROVE  IsFiniteSet(Recent(c)) /\ Cardinality(Recent(c)) \in Nat
<1>1. IsFiniteSet(Ages)
  BY FS_Interval DEF Ages
<1>2. Recent(c) \in SUBSET Ages
  BY DEF TypeOK, Recent
<1> QED
  BY <1>1, <1>2, FS_Subset, FS_CardinalityType

(* Recording one more relaunch below the ceiling stays within it.           *)
LEMMA OneMore ==
    ASSUME TypeOK, NEW c \in Support, ~CrashLooped(c),
           relaunch_times' = [relaunch_times EXCEPT ![c] = Recent(c) \cup {0}]
    PROVE  /\ Recent(c)' = Recent(c) \cup {0}
           /\ Cardinality(Recent(c)') <= PGB_MAX_RELAUNCHES
           /\ \A s \in Support : s # c => Recent(s)' = Recent(s)
<1>1. Recent(c)' = Recent(c) \cup {0}
  BY DEF Recent, TypeOK, Support
<1>2. Cardinality(Recent(c)) < PGB_MAX_RELAUNCHES
  <2>1. Cardinality(Recent(c)) \in Nat
    BY RecentFinite
  <2> QED
    BY <2>1 DEF CrashLooped
<1>3. IsFiniteSet(Recent(c)) /\ Cardinality(Recent(c)) \in Nat
  BY RecentFinite
<1>4. \/ Cardinality(Recent(c) \cup {0}) = Cardinality(Recent(c))
      \/ Cardinality(Recent(c) \cup {0}) = Cardinality(Recent(c)) + 1
  BY <1>3, FS_AddElement
<1>5. \A s \in Support : s # c => Recent(s)' = Recent(s)
  BY DEF Recent, TypeOK, Support
<1> QED
  BY <1>1, <1>2, <1>3, <1>4, <1>5

(* As time passes relaunches only leave the window.                         *)
LEMMA OlderRecent ==
    ASSUME TypeOK, NEW d \in 1 .. PGB_RELAUNCH_WINDOW_S, Sleep(d), NEW c \in Support
    PROVE  /\ Recent(c)' = {a + d : a \in {b \in Recent(c) : b + d < PGB_RELAUNCH_WINDOW_S}}
           /\ Live(c)'   = {a + d : a \in {b \in Live(c) : b + d < PGB_RELAUNCH_WINDOW_S}}
           /\ Cardinality(Recent(c)') <= Cardinality(Recent(c))
<1>1. relaunch_times[c] \subseteq Int /\ relaunched[c] \subseteq Int
  BY DEF TypeOK, Ages
<1>2. relaunch_times'[c] = Older(relaunch_times[c], d) /\ relaunched'[c] = Older(relaunched[c], d)
  BY DEF Sleep
<1>3. Recent(c)' = {a + d : a \in {b \in Recent(c) : b + d < PGB_RELAUNCH_WINDOW_S}}
  BY <1>1, <1>2 DEF Recent, Older
<1>4. Live(c)' = {a + d : a \in {b \in Live(c) : b + d < PGB_RELAUNCH_WINDOW_S}}
  BY <1>1, <1>2 DEF Live, Older
<1>5. Cardinality(Recent(c)') <= Cardinality(Recent(c))
  <2> DEFINE f == [x \in Recent(c)' |-> x - d]
  <2>1. \A x \in Recent(c)' : x \in Int /\ x - d \in Recent(c)
    BY <1>1, <1>3 DEF Recent
  <2>2. f \in Injection(Recent(c)', Recent(c))
    BY <2>1 DEF Injection, IsInjective
  <2> HIDE DEF f
  <2> QED
    BY <2>2, RecentFinite, FS_Injection
<1> QED
  BY <1>3, <1>4, <1>5

LEMMA InitAges == Init => AgesInv
  BY FS_EmptySet DEF Init, AgesInv, Recent, Live, Support, Relaunching

(* Five kinds of steps touch the ages; every other step leaves them alone   *)
(* and does not enter the relaunch path.                                    *)
LEMMA NextAges == TypeInv /\ AgesInv /\ [Next]_vars => AgesInv'
<1> SUFFICES ASSUME TypeInv, AgesInv, [Next]_vars PROVE AgesInv'
  OBVIOUS
<1> USE DEF GoTo, Crash, BeginTeardown, world, mainVars, ageVars, supVars
<1>1. TypeOK
  BY DEF TypeInv
<1>2. ASSUME UNCHANGED ageVars, sup' \in Relaunching => sup \in Relaunching,
             sup \in Relaunching => sup' \in Relaunching \cup {"crashed"},
             sup = "crashed" => sup' = "crashed"
      PROVE  AgesInv'
  BY <1>2 DEF AgesInv, Recent, Live, Relaunching
<1>3. CASE RelaunchStunnel
  <2>1. /\ Recent("stunnel")' = Recent("stunnel") \cup {0}
        /\ Cardinality(Recent("stunnel")') <= PGB_MAX_RELAUNCHES
        /\ Recent("PgBouncer")' = Recent("PgBouncer")
    BY <1>1, <1>3, OneMore DEF RelaunchStunnel, Support
  <2>2. Live("PgBouncer")' = Live("PgBouncer")
    BY <1>1, <1>3 DEF RelaunchStunnel, Live, TypeOK, Support
  <2>3. \/ Live("stunnel")' = Live("stunnel") \cup {0} /\ sup' = "poll_pgbouncer"
        \/ Live("stunnel")' = Live("stunnel") /\ sup' = "crashed"
    BY <1>1, <1>3 DEF RelaunchStunnel, Live, TypeOK, Support
  <2> QED
    BY <1>3, <2>1, <2>2, <2>3 DEF AgesInv, Support, Relaunching, RelaunchStunnel
<1>4. CASE PgBouncerDied
  <2>1. /\ Recent("PgBouncer")' = Recent("PgBouncer") \cup {0}
        /\ Cardinality(Recent("PgBouncer")') <= PGB_MAX_RELAUNCHES
        /\ Recent("stunnel")' = Recent("stunnel")
    BY <1>1, <1>4, OneMore DEF PgBouncerDied, Support
  <2>2. \A c \in Support : Live(c)' = Live(c)
    BY <1>4 DEF PgBouncerDied, Live
  <2> QED
    BY <1>4, <2>1, <2>2 DEF AgesInv, Support, Relaunching, PgBouncerDied
<1>5. CASE RelaunchPgBouncer
  <2>1. \A c \in Support : Recent(c)' = Recent(c)
    BY <1>5 DEF RelaunchPgBouncer, Recent
  <2>2. Live("stunnel")' = Live("stunnel")
    BY <1>1, <1>5 DEF RelaunchPgBouncer, Live, TypeOK, Support
  <2>3. \/ Live("PgBouncer")' = Live("PgBouncer") \cup {0} /\ sup' = "sleep"
        \/ Live("PgBouncer")' = Live("PgBouncer") /\ sup' = "crashed"
    BY <1>1, <1>5 DEF RelaunchPgBouncer, Live, TypeOK, Support
  <2> QED
    BY <1>5, <2>1, <2>2, <2>3 DEF AgesInv, Support, Relaunching, RelaunchPgBouncer
<1>6. ASSUME NEW c \in Support, GiveUp(c) PROVE AgesInv'
  <2>1. \A s \in Support : Recent(s)' = Recent(s) /\ Live(s)' = Live(s)
    BY <1>1, <1>6 DEF GiveUp, Recent, Live, TypeOK
  <2> QED
    BY <1>6, <2>1 DEF GiveUp, AgesInv, Relaunching, Support
<1>7. ASSUME NEW d \in 1 .. PGB_RELAUNCH_WINDOW_S, Sleep(d) PROVE AgesInv'
  <2>1. \A c \in Support : Cardinality(Recent(c)') <= PGB_MAX_RELAUNCHES
    <3> TAKE c \in Support
    <3>1. Cardinality(Recent(c)') <= Cardinality(Recent(c))
      BY <1>1, <1>7, OlderRecent
    <3>2. TypeOK'
      BY NextType DEF TypeInv
    <3>3. Cardinality(Recent(c)') \in Nat
      <4>1. IsFiniteSet(Ages)
        BY FS_Interval DEF Ages
      <4>2. Recent(c)' \in SUBSET Ages
        BY <3>2 DEF TypeOK, Recent
      <4> QED
        BY <4>1, <4>2, FS_Subset, FS_CardinalityType
    <3> QED
      BY <1>1, <3>1, <3>3, RecentFinite DEF AgesInv
  <2>2. \A c \in Support : Live(c)' \subseteq Recent(c)'
    BY <1>1, <1>7, OlderRecent DEF AgesInv
  <2>3. \A c \in Support : Recent(c) = Live(c)
    BY <1>7 DEF Sleep, AgesInv, Relaunching
  <2>4. \A c \in Support : Recent(c)' = Live(c)'
    BY <1>1, <1>7, <2>3, OlderRecent
  <2>5. sup' \notin Relaunching
    BY <1>7 DEF Sleep, Relaunching
  <2> QED
    BY <2>1, <2>2, <2>4, <2>5 DEF AgesInv
<1>8. CASE \/ ShutdownRequested \/ KeepRunning \/ PollGrafana \/ RelaunchLock
           \/ RelaunchRender \/ RelaunchFill \/ RelaunchFillFails
           \/ \E c \in Support : SupportAlive(c)
  BY <1>2, <1>8 DEF ShutdownRequested, KeepRunning, PollGrafana, RelaunchLock,
     RelaunchRender, RelaunchFill, RelaunchFillFails, SupportAlive, Relaunching
<1>9. CASE Teardown
  BY <1>2, <1>9 DEF Teardown, SetStop, Barrier, Terminate, ChildStopped, Kill, Exit,
     NextChild, Relaunching
<1>10. CASE Refresher
  BY <1>2, <1>10 DEF Refresher, IntervalOver, MintFails, Mint, CredLock, Rewrite,
     RewriteFails, Record, Reload, Reconnect, ReloadFails
<1>11. CASE Environment \/ UNCHANGED vars
  BY <1>2, <1>11 DEF Environment, PgBouncerReadsIni, PgBouncerListens, Signal, HandlerHangs, Over,
     ChildExits, vars
<1> QED
  BY <1>3, <1>4, <1>5, <1>6, <1>7, <1>8, <1>9, <1>10, <1>11
     DEF Next, MainThread, Supervisor, Relaunch

LEMMA AgesInvariant == Spec => [](TypeInv /\ AgesInv)
  BY InitType, NextType, InitAges, NextAges, PTL DEF Spec

(* No support process is relaunched more often than the ceiling allows in   *)
(* any window, whatever the ceiling and the window.                         *)
THEOREM CeilingHolds == Spec => []RelaunchCeiling
<1>1. TypeInv /\ AgesInv => RelaunchCeiling
  <2> SUFFICES ASSUME TypeInv, AgesInv, NEW c \in Support
               PROVE  Cardinality(Live(c)) <= PGB_MAX_RELAUNCHES
    BY DEF RelaunchCeiling, Live
  <2>1. /\ Live(c) \in SUBSET Recent(c) /\ Cardinality(Recent(c)) <= PGB_MAX_RELAUNCHES
        /\ IsFiniteSet(Recent(c)) /\ Cardinality(Recent(c)) \in Nat
    BY RecentFinite DEF AgesInv, TypeInv
  <2>2. Cardinality(Live(c)) <= Cardinality(Recent(c)) /\ IsFiniteSet(Live(c))
    BY <2>1, FS_Subset
  <2>3. Cardinality(Live(c)) \in Nat
    BY <2>2, FS_CardinalityType
  <2> QED
    BY <2>1, <2>2, <2>3
<1> QED
  BY AgesInvariant, <1>1, PTL

-----------------------------------------------------------------------------
(***************************************************************************)
(* The inductive invariant behind OrderlyTeardown: the children before     *)
(* turn have been dealt with, and only a relaunch, which no teardown       *)
(* contains, makes a child run again.                                      *)
(***************************************************************************)
Stopping == {"terminate", "wait"}

TurnInv ==
    /\ sup \in Stopping => \A j \in DOMAIN Order : j < turn => proc[Order[j]] # "alive"
    /\ sup \notin Stopping \cup {"exited"} => turn = 1
    /\ sup = "exited" => \A c \in Children : proc[c] # "alive"

(***************************************************************************)
(* The inductive invariant behind ExitCodeFaithful: the flag is up only    *)
(* after a signal or in a teardown, and a teardown has its reason.  It     *)
(* needs AgesInv: where the supervisor gives up on a child, what it        *)
(* remembers of the window is what really happened in it.                  *)
(***************************************************************************)
Ending == {"stop", "barrier", "terminate", "wait", "exited"}

Justified ==
    \/ exit_code = 0 /\ signalled
    \/ exit_code = grafana_rc /\ proc["Grafana"] = "exited"
    \/ exit_code = 1 /\ \E c \in Support : UsedUp(c)

ReasonInv ==
    /\ stop_event => signalled \/ sup \in Ending \ {"stop"}
    /\ sup \in Ending => Justified

EndInv == TurnInv /\ ReasonInv

LEMMA InitEnd == Init => EndInv
  BY DEF Init, EndInv, TurnInv, ReasonInv, Stopping, Ending

LEMMA GivenUpIsUsedUp ==
    ASSUME AgesInv, NEW c \in Support, GiveUp(c)
    PROVE  UsedUp(c)
<1>1. Recent(c) = Live(c)
  BY DEF GiveUp, AgesInv, Relaunching
<1> QED
  BY <1>1 DEF GiveUp, CrashLooped, UsedUp, Live

(* The steps that lead into a teardown or along it are looked at one by     *)
(* one; every other step changes neither its point nor a child it stopped.  *)
LEMMA NextEnd == TypeInv /\ TypeInv' /\ AgesInv /\ EndInv /\ [Next]_vars => EndInv'
<1> SUFFICES ASSUME TypeInv, TypeInv', AgesInv, EndInv, [Next]_vars PROVE EndInv'
  OBVIOUS
<1> USE DEF TypeInv, TypeOK, Children, Support, Order, Stopping, Ending,
            supVars, stopVars, childVars, ageVars, world, mainVars,
            GoTo, BeginTeardown, Crash, NextChild, UsedUp, Justified,
            EndInv, TurnInv, ReasonInv

<1>1. CASE ShutdownRequested
  BY <1>1 DEF ShutdownRequested
<1>2. CASE PollGrafana
  BY <1>2 DEF PollGrafana
<1>3. ASSUME NEW c \in Support, GiveUp(c) PROVE EndInv'
  <2>1. UsedUp(c)
    BY <1>3, GivenUpIsUsedUp
  <2>2. UsedUp(c)'
    BY <1>3, <2>1 DEF GiveUp
  <2> QED
    BY <1>3, <2>2 DEF GiveUp
<1>4. CASE SetStop
  BY <1>4 DEF SetStop
<1>5. CASE Barrier
  BY <1>5 DEF Barrier
<1>6. CASE Terminate
  BY <1>6 DEF Terminate
<1>7. CASE ChildStopped
  BY <1>7 DEF ChildStopped
<1>8. CASE Kill
  BY <1>8 DEF Kill
<1>9. CASE Exit
  BY <1>9 DEF Exit
<1>10. CASE Signal \/ HandlerHangs
  BY <1>10 DEF Signal, HandlerHangs
<1>11. ASSUME NEW c \in Children, ChildExits(c) PROVE EndInv'
  BY <1>11 DEF ChildExits
<1>12. CASE KeepRunning \/ \E c \in Support : SupportAlive(c)
  BY <1>12 DEF KeepRunning, SupportAlive
<1>13. CASE RelaunchStunnel
  BY <1>13 DEF RelaunchStunnel
<1>14. CASE Relaunch
  BY <1>14 DEF Relaunch, PgBouncerDied, RelaunchLock, RelaunchRender,
     RelaunchFill, RelaunchFillFails, RelaunchPgBouncer
<1>15. ASSUME NEW d \in 1 .. PGB_RELAUNCH_WINDOW_S, Sleep(d) PROVE EndInv'
  BY <1>15 DEF Sleep
<1>16. CASE Refresher
  BY <1>16 DEF Refresher, IntervalOver, MintFails, Mint, CredLock, Rewrite,
     RewriteFails, Record, Reload, Reconnect, ReloadFails
<1>17. CASE PgBouncerReadsIni \/ PgBouncerListens \/ Over \/ UNCHANGED vars
  BY <1>17 DEF PgBouncerReadsIni, PgBouncerListens, Over, vars
<1> QED
  BY <1>1, <1>2, <1>3, <1>4, <1>5, <1>6, <1>7, <1>8, <1>9, <1>10, <1>11,
     <1>12, <1>13, <1>14, <1>15, <1>16, <1>17
     DEF Next, MainThread, Supervisor, Teardown, Environment

LEMMA EndInvariant == Spec => [](TypeInv /\ AgesInv /\ EndInv)
  BY InitType, NextType, InitAges, NextAges, InitEnd, NextEnd, PTL DEF Spec

(* No child is told to stop while one that needs it still runs, and none    *)
(* is left running by a supervisor that exits through the teardown.         *)
THEOREM TeardownInOrder == Spec => []OrderlyTeardown
<1>1. TypeInv /\ EndInv => OrderlyTeardown
  BY DEF TypeInv, TypeOK, EndInv, TurnInv, Stopping, OrderlyTeardown, Users,
         Order, Children
<1> QED
  BY EndInvariant, <1>1, PTL

(* The exit status is never 0 without a signal or a clean end of Grafana,   *)
(* and a crash loop is reported only when there was one.                    *)
THEOREM ExitIsFaithful == Spec => []ExitCodeFaithful
<1>1. EndInv => ExitCodeFaithful
  BY DEF EndInv, ReasonInv, Ending, Justified, ExitCodeFaithful
<1> QED
  BY EndInvariant, <1>1, PTL

-----------------------------------------------------------------------------
(* A teardown past its first step has raised the flag, and nothing lowers   *)
(* it again.                                                                *)
FlagInv == sup \in Ending \ {"stop"} => stop_event

LEMMA InitFlag == Init => FlagInv
  BY DEF Init, FlagInv, Ending

LEMMA NextFlag == FlagInv /\ [Next]_vars => FlagInv'
<1> SUFFICES ASSUME FlagInv, [Next]_vars PROVE FlagInv'
  OBVIOUS
<1> USE DEF FlagInv, Ending, supVars, stopVars, world, mainVars, GoTo, BeginTeardown, Crash, NextChild
<1>1. CASE ShutdownRequested \/ KeepRunning \/ PollGrafana \/ RelaunchStunnel
  BY <1>1 DEF ShutdownRequested, KeepRunning, PollGrafana, RelaunchStunnel
<1>2. CASE \/ \E c \in Support : SupportAlive(c) \/ GiveUp(c)
           \/ \E d \in 1 .. PGB_RELAUNCH_WINDOW_S : Sleep(d)
  BY <1>2 DEF SupportAlive, GiveUp, Sleep
<1>3. CASE Relaunch
  BY <1>3 DEF Relaunch, PgBouncerDied, RelaunchLock, RelaunchRender,
     RelaunchFill, RelaunchFillFails, RelaunchPgBouncer
<1>4. CASE Teardown
  BY <1>4 DEF Teardown, SetStop, Barrier, Terminate, ChildStopped, Kill, Exit
<1>5. CASE Refresher
  BY <1>5 DEF Refresher, IntervalOver, MintFails, Mint, CredLock, Rewrite,
     RewriteFails, Record, Reload, Reconnect, ReloadFails
<1>6. CASE Environment \/ UNCHANGED vars
  BY <1>6 DEF Environment, PgBouncerReadsIni, PgBouncerListens, Signal, HandlerHangs, Over,
     ChildExits, vars
<1> QED
  BY <1>1, <1>2, <1>3, <1>4, <1>5, <1>6 DEF Next, MainThread, Supervisor

(* Past the barrier no refresh cycle begins: an idle refresher stays idle   *)
(* until it ends, and with it the credential.                               *)
THEOREM LastCycle == Spec => NoCycleAfterBarrier
<1> DEFINE Idle == PastBarrier /\ ref \in {"wait", "done"} =>
                     ref' \in {ref, "done"} /\ UNCHANGED <<ini, last_good_token, token>>
<1>1. FlagInv /\ [Next]_vars => [Idle]_vars
  <2> SUFFICES ASSUME FlagInv, Next, sup \in {"terminate", "wait"}, ref \in {"wait", "done"}
               PROVE  ref' \in {ref, "done"} /\ UNCHANGED <<ini, last_good_token, token>>
    BY DEF PastBarrier
  <2> USE DEF credVars, refVars, world, mainVars, RefGoTo
  <2>1. stop_event
    BY DEF FlagInv, Ending
  <2>2. CASE Supervisor
    BY <2>2 DEF Supervisor, ShutdownRequested, KeepRunning, PollGrafana, RelaunchStunnel,
       SupportAlive, GiveUp, Sleep, Relaunch, PgBouncerDied, RelaunchLock, RelaunchRender,
       RelaunchFill, RelaunchFillFails, RelaunchPgBouncer,
       Teardown, SetStop, Barrier, Terminate, ChildStopped, Kill, Exit
  <2>3. CASE Refresher
    BY <2>1, <2>3 DEF Refresher, IntervalOver, MintFails, Mint, CredLock, Rewrite,
       RewriteFails, Record, Reload, Reconnect, ReloadFails
  <2>4. CASE Environment
    BY <2>4 DEF Environment, PgBouncerReadsIni, PgBouncerListens, Signal, HandlerHangs, Over,
       ChildExits, vars
  <2> QED
    BY <2>2, <2>3, <2>4 DEF Next, MainThread
<1> QED
  BY InitFlag, NextFlag, <1>1, PTL DEF Spec, NoCycleAfterBarrier

-----------------------------------------------------------------------------
(* A reason to shut down: a signal, or one that the loop has found.         *)
Asked == signalled \/ sup \in Ending

LEMMA InitRequest == Init => Request!Init
  BY DEF Init, Request!Init

(* Every step asks, raises the flag, tells the refresher, or has nothing to *)
(* do with the request.                                                     *)
LEMMA StepRequest ==
    TypeInv /\ EndInv /\ [Next]_vars => [Request!Next]_<<Asked, stop_event, ref = "done">>
<1> SUFFICES ASSUME TypeInv, EndInv, [Next]_vars
             PROVE  Request!Next \/ UNCHANGED <<Asked, stop_event, ref = "done">>
  OBVIOUS
<1> USE DEF supVars, stopVars, refVars, world, mainVars, GoTo, BeginTeardown, Crash, NextChild,
            RefGoTo, Asked, Ending, Request!Next, Request!Ask, Request!Raise, Request!Tell
<1>1. ASSUME Asked', UNCHANGED <<stop_event, ref>>
      PROVE  Request!Next
  BY <1>1
<1>2. ASSUME sup' \notin Ending, sup \notin Ending, UNCHANGED <<signalled, stop_event, ref>>
      PROVE  UNCHANGED <<Asked, stop_event, ref = "done">>
  BY <1>2
<1>3. CASE ShutdownRequested \/ \E c \in Support : GiveUp(c)
  BY <1>1, <1>3 DEF ShutdownRequested, GiveUp
<1>4. CASE PollGrafana
  BY <1>1, <1>2, <1>4 DEF PollGrafana
<1>5. CASE KeepRunning \/ RelaunchStunnel \/ Relaunch
  BY <1>2, <1>5 DEF KeepRunning, RelaunchStunnel, Relaunch, PgBouncerDied, RelaunchLock,
     RelaunchRender, RelaunchFill, RelaunchFillFails, RelaunchPgBouncer
<1>6. CASE \/ \E c \in Support : SupportAlive(c)
           \/ \E d \in 1 .. PGB_RELAUNCH_WINDOW_S : Sleep(d)
  BY <1>2, <1>6 DEF SupportAlive, Sleep
<1>7. CASE SetStop
  <2>1. Asked /\ Asked' /\ stop_event' = TRUE /\ UNCHANGED ref
    BY <1>7 DEF SetStop
  <2> QED
    BY <2>1
<1>8. CASE Barrier \/ Terminate \/ ChildStopped \/ Kill \/ Exit
  BY <1>1, <1>8 DEF Barrier, Terminate, ChildStopped, Kill, Exit
<1>9. CASE IntervalOver
  <2>1. UNCHANGED <<sup, signalled, stop_event>>
    BY <1>9 DEF IntervalOver
  <2>2. CASE stop_event
    <3>1. ref' = "done"
      BY <1>9, <2>2 DEF IntervalOver
    <3> QED
      BY <2>1, <2>2, <3>1
  <2>3. CASE ~stop_event
    <3>1. ref = "wait" /\ ref' = "mint"
      BY <1>9, <2>3 DEF IntervalOver
    <3> QED
      BY <2>1, <3>1
  <2> QED
    BY <2>2, <2>3
<1>10. CASE MintFails \/ Mint \/ CredLock \/ Rewrite \/ RewriteFails \/ Record
            \/ Reload \/ Reconnect \/ ReloadFails
  <2>1. ref # "done" /\ ref' # "done" /\ UNCHANGED <<sup, signalled, stop_event>>
    BY <1>10 DEF MintFails, Mint, CredLock, Rewrite, RewriteFails, Record, Reload,
       Reconnect, ReloadFails
  <2> QED
    BY <2>1
<1>11. CASE Signal \/ HandlerHangs
  <2>1. signalled' = TRUE /\ stop_event' \in {stop_event, TRUE} /\ UNCHANGED ref
    BY <1>11, Zenon DEF Signal, HandlerHangs
  <2>2. Asked' = TRUE
    BY <2>1
  <2> QED
    BY <2>1, <2>2, Zenon
<1>12. CASE PgBouncerReadsIni \/ PgBouncerListens \/ Over \/ UNCHANGED vars
  <2>1. UNCHANGED <<sup, signalled, stop_event, ref>>
    BY <1>12 DEF PgBouncerReadsIni, PgBouncerListens, Over, vars
  <2> QED
    BY <2>1
<1>13. CASE \E c \in Children : ChildExits(c)
  <2>1. UNCHANGED <<sup, signalled, stop_event, ref>>
    BY <1>13 DEF ChildExits
  <2> QED
    BY <2>1
<1> QED
  BY <1>3, <1>4, <1>5, <1>6, <1>7, <1>8, <1>9, <1>10, <1>11, <1>12, <1>13
     DEF Next, MainThread, Supervisor, Teardown, Refresher, Environment

(* Nothing lowers the flag, nothing raises it without a reason, and nothing *)
(* else ends the refresher.                                                 *)
THEOREM SupervisorImplementsRequest == Spec => ImplementsRequest
<1>1. TypeInv /\ EndInv /\ [Next]_vars =>
        [Request!Next]_<<signalled \/ sup \in {"stop", "barrier", "terminate", "wait", "exited"},
                         stop_event, ref = "done">>
  BY StepRequest DEF Asked, Ending
<1> QED
  BY EndInvariant, InitRequest, <1>1, PTL DEF Spec, ImplementsRequest, Request!Spec
=============================================================================
