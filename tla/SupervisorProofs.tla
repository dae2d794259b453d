-------------------------- MODULE SupervisorProofs --------------------------
(***************************************************************************)
(* Proofs about Supervisor, for every value of its constants: its types,   *)
(* the agreement between pgbouncer.ini and last_good_token, the freshness  *)
(* of the token PgBouncer uses, and the refinement of ServerCredential.    *)
(***************************************************************************)
EXTENDS Supervisor, TLAPS

USE CeilingAssumption, CodesAssumption, TokenAssumption
    DEF CeilingAssumption, CodesAssumption, TokenAssumption

(* While the main thread waits for a child, turn names one.                 *)
TypeInv == TypeOK /\ (sup = "wait" => turn \in DOMAIN Order)

-----------------------------------------------------------------------------
(* Ages stay ages as the clock advances.                                    *)
LEMMA OlderAges ==
    ASSUME NEW S \in SUBSET Ages, NEW d \in Nat
    PROVE  Older(S, d) \in SUBSET Ages
  BY DEF Older, Ages

LEMMA InitType == Init => TypeInv
<1> SUFFICES ASSUME Init PROVE TypeInv
  OBVIOUS
<1>1. /\ stop_event \in BOOLEAN /\ signalled \in BOOLEAN /\ hung \in BOOLEAN
      /\ psql_session \in BOOLEAN /\ reload_failed \in BOOLEAN
  BY Zenon DEF Init
<1> QED
  BY <1>1 DEF Init, TypeInv, TypeOK, SupPoints, RefPoints, Children, Support

(* One step per action; the ages need OlderAges.                            *)
LEMMA NextType == TypeInv /\ [Next]_vars => TypeInv'
<1> SUFFICES ASSUME TypeInv, [Next]_vars PROVE TypeInv'
  OBVIOUS
<1> USE DEF TypeInv, TypeOK, SupPoints, RefPoints, Children, Support, Order,
            supVars, stopVars, credVars, refVars, childVars, ageVars, world, mainVars,
            GoTo, BeginTeardown, Crash, NextChild, RefGoTo

<1>1. CASE ShutdownRequested
  BY <1>1 DEF ShutdownRequested
<1>2. CASE KeepRunning
  BY <1>2 DEF KeepRunning
<1>3. CASE PollGrafana
  BY <1>3 DEF PollGrafana
<1>4. CASE RelaunchStunnel
  BY <1>4 DEF RelaunchStunnel, Recent, Ages
<1>5. CASE PgBouncerDied
  BY <1>5 DEF PgBouncerDied, Recent, Ages
<1>6. CASE RelaunchLock
  BY <1>6 DEF RelaunchLock
<1>7. CASE RelaunchRender
  BY <1>7 DEF RelaunchRender
<1>8. CASE RelaunchFill
  BY <1>8 DEF RelaunchFill
<1>9. CASE RelaunchFillFails
  BY <1>9 DEF RelaunchFillFails
<1>10. CASE RelaunchPgBouncer
  BY <1>10 DEF RelaunchPgBouncer, Ages
<1>11. CASE SetStop
  BY <1>11 DEF SetStop
<1>12. CASE Barrier
  BY <1>12 DEF Barrier
<1>13. CASE Terminate
  BY <1>13 DEF Terminate
<1>14. CASE ChildStopped
  BY <1>14 DEF ChildStopped
<1>15. CASE Kill
  BY <1>15 DEF Kill
<1>16. CASE Exit
  BY <1>16 DEF Exit
<1>17. CASE IntervalOver
  BY <1>17 DEF IntervalOver
<1>18. CASE MintFails
  BY <1>18 DEF MintFails
<1>19. CASE Mint
  BY <1>19 DEF Mint
<1>20. CASE CredLock
  BY <1>20 DEF CredLock
<1>21. CASE Rewrite
  BY <1>21 DEF Rewrite
<1>22. CASE RewriteFails
  BY <1>22 DEF RewriteFails
<1>23. CASE Record
  BY <1>23 DEF Record
<1>24. CASE Reload
  BY <1>24 DEF Reload
<1>25. CASE Reconnect
  <2>1. psql_session' \in BOOLEAN /\ reload_failed' \in BOOLEAN
    BY <1>25, Zenon DEF Reconnect
  <2> QED
    BY <1>25, <2>1 DEF Reconnect
<1>26. CASE ReloadFails
  <2>1. psql_session' \in BOOLEAN /\ reload_failed' \in BOOLEAN
    BY <1>26, Zenon DEF ReloadFails
  <2> QED
    BY <1>26, <2>1 DEF ReloadFails
<1>27. CASE PgBouncerReadsIni
  BY <1>27 DEF PgBouncerReadsIni
<1>28. CASE PgBouncerListens
  BY <1>28 DEF PgBouncerListens
<1>29. CASE Signal
  BY <1>29 DEF Signal
<1>30. ASSUME NEW c \in Support, SupportAlive(c) PROVE TypeInv'
  BY <1>30 DEF SupportAlive
<1>31. ASSUME NEW c \in Support, GiveUp(c) PROVE TypeInv'
  BY <1>31 DEF GiveUp, Recent, Ages
<1>32. ASSUME NEW d \in 1 .. PGB_RELAUNCH_WINDOW_S, Sleep(d) PROVE TypeInv'
  BY <1>32, OlderAges DEF Sleep
<1>33. ASSUME NEW c \in Children, ChildExits(c) PROVE TypeInv'
  BY <1>33 DEF ChildExits
<1>34. CASE HandlerHangs
  <2>1. stop_event' \in BOOLEAN /\ signalled' \in BOOLEAN /\ hung' \in BOOLEAN
    BY <1>34, Zenon DEF HandlerHangs
  <2> QED
    BY <1>34, <2>1 DEF HandlerHangs
<1>35. CASE Over \/ UNCHANGED vars
  BY <1>35 DEF Over, vars
<1> QED
  BY <1>1, <1>2, <1>3, <1>4, <1>5, <1>6, <1>7, <1>8, <1>9, <1>10,
     <1>11, <1>12, <1>13, <1>14, <1>15, <1>16, <1>17, <1>18, <1>19, <1>20,
     <1>21, <1>22, <1>23, <1>24, <1>25, <1>26, <1>27, <1>28, <1>29, <1>30,
     <1>31, <1>32, <1>33, <1>34, <1>35
     DEF Next, MainThread, Supervisor, Teardown, Relaunch, Refresher, Environment

(* Every variable keeps the values the code gives it, whatever the number   *)
(* of relaunches allowed, the window and the number of tokens minted.       *)
THEOREM TypeCorrect == Spec => []TypeOK
<1>1. Spec => []TypeInv
  BY InitType, NextType, PTL DEF Spec
<1>2. TypeInv => TypeOK
  BY DEF TypeInv
<1> QED
  BY <1>1, <1>2, PTL

-----------------------------------------------------------------------------
(***************************************************************************)
(* The inductive invariant behind CredentialAgreement, NeverReadTorn and   *)
(* StaleIsLoud.  Who holds the lock is known from where the threads are;   *)
(* the file and last_good_token differ only where a writer is between its  *)
(* two halves; a refresher on its way to write carries a newer token; and  *)
(* the relaunch path runs only while PgBouncer is dead.                    *)
(***************************************************************************)
Relaunching == {"relaunch_lock", "relaunch_render", "relaunch_fill", "relaunch_launch"}

LockInv ==
    /\ ini_lock = "supervisor" <=> sup \in {"relaunch_render", "relaunch_fill"}
    /\ ini_lock = "refresher" <=> ref \in {"rewrite", "record"}

FileInv ==
    /\ ref = "record" => ini = token
    /\ sup = "relaunch_fill" => relaunch_tok = last_good_token
    /\ ini = Torn => sup \in {"relaunch_fill", "crashed"}
    /\ ini \notin {Torn, last_good_token} => ref = "record"

TokenInv ==
    /\ last_good_token <= token
    /\ ref \in {"lock", "rewrite", "record"} => last_good_token < token

PgbInv ==
    /\ sup \in Relaunching => proc["PgBouncer"] = "exited"
    /\ NeverReadTorn
    /\ psql_session => proc["PgBouncer"] # "exited" /\ ref = "reconnect"

StaleInv ==
    /\ StaleIsLoud
    /\ ref = "reconnect" /\ psql_session /\ Loaded => server_token = last_good_token

CredInv == LockInv /\ FileInv /\ TokenInv /\ PgbInv /\ StaleInv

LEMMA InitCred == Init => CredInv
  BY DEF Init, CredInv, LockInv, FileInv, TokenInv, PgbInv, StaleInv,
         NeverReadTorn, StaleIsLoud, Loaded, Relaunching, Children

(* One step per action.  The main thread's steps outside the relaunch leave *)
(* everything the invariant speaks of alone but sup.                        *)
LEMMA NextCred == TypeInv /\ TypeInv' /\ CredInv /\ [Next]_vars => CredInv'
<1> SUFFICES ASSUME TypeInv, TypeInv', CredInv, [Next]_vars PROVE CredInv'
  OBVIOUS
<1> USE DEF TypeInv, TypeOK, SupPoints, RefPoints, Children, Support, Order,
            supVars, stopVars, credVars, refVars, childVars, ageVars, world, mainVars,
            GoTo, BeginTeardown, Crash, NextChild, RefGoTo, Running,
            CredInv, LockInv, FileInv, TokenInv, PgbInv, StaleInv,
            NeverReadTorn, StaleIsLoud, Loaded, Relaunching

<1>1. CASE ShutdownRequested
  BY <1>1 DEF ShutdownRequested
<1>2. CASE KeepRunning
  BY <1>2 DEF KeepRunning
<1>3. CASE PollGrafana
  BY <1>3 DEF PollGrafana
<1>4. CASE RelaunchStunnel
  BY <1>4 DEF RelaunchStunnel
<1>5. CASE PgBouncerDied
  BY <1>5 DEF PgBouncerDied
<1>6. CASE RelaunchLock
  BY <1>6 DEF RelaunchLock
<1>7. CASE RelaunchRender
  BY <1>7 DEF RelaunchRender
<1>8. CASE RelaunchFill
  BY <1>8 DEF RelaunchFill
<1>9. CASE RelaunchFillFails
  BY <1>9 DEF RelaunchFillFails
<1>10. CASE RelaunchPgBouncer
  BY <1>10 DEF RelaunchPgBouncer
<1>11. CASE SetStop
  BY <1>11 DEF SetStop
<1>12. CASE Barrier
  BY <1>12 DEF Barrier
<1>13. CASE Terminate
  BY <1>13 DEF Terminate
<1>14. CASE ChildStopped
  BY <1>14 DEF ChildStopped
<1>15. CASE Kill
  BY <1>15 DEF Kill
<1>16. CASE Exit
  BY <1>16 DEF Exit
<1>17. CASE IntervalOver
  BY <1>17 DEF IntervalOver
<1>18. CASE MintFails
  BY <1>18 DEF MintFails
<1>19. CASE Mint
  BY <1>19 DEF Mint
<1>20. CASE CredLock
  BY <1>20 DEF CredLock
<1>21. CASE Rewrite
  BY <1>21 DEF Rewrite
<1>22. CASE RewriteFails
  BY <1>22 DEF RewriteFails
<1>23. CASE Record
  BY <1>23 DEF Record
<1>24. CASE Reload
  BY <1>24 DEF Reload
<1>25. CASE Reconnect
  BY <1>25 DEF Reconnect
<1>26. CASE ReloadFails
  BY <1>26 DEF ReloadFails
<1>27. CASE PgBouncerReadsIni
  BY <1>27 DEF PgBouncerReadsIni
<1>28. CASE PgBouncerListens
  BY <1>28 DEF PgBouncerListens
<1>29. CASE Signal
  BY <1>29 DEF Signal
<1>30. ASSUME NEW c \in Support, SupportAlive(c) PROVE CredInv'
  BY <1>30 DEF SupportAlive
<1>31. ASSUME NEW c \in Support, GiveUp(c) PROVE CredInv'
  BY <1>31 DEF GiveUp
<1>32. ASSUME NEW d \in 1 .. PGB_RELAUNCH_WINDOW_S, Sleep(d) PROVE CredInv'
  BY <1>32 DEF Sleep
<1>33. ASSUME NEW c \in Children, ChildExits(c) PROVE CredInv'
  BY <1>33 DEF ChildExits
<1>34. CASE HandlerHangs
  BY <1>34 DEF HandlerHangs
<1>35. CASE Over \/ UNCHANGED vars
  BY <1>35 DEF Over, vars
<1> QED
  BY <1>1, <1>2, <1>3, <1>4, <1>5, <1>6, <1>7, <1>8, <1>9, <1>10,
     <1>11, <1>12, <1>13, <1>14, <1>15, <1>16, <1>17, <1>18, <1>19, <1>20,
     <1>21, <1>22, <1>23, <1>24, <1>25, <1>26, <1>27, <1>28, <1>29, <1>30,
     <1>31, <1>32, <1>33, <1>34, <1>35
     DEF Next, MainThread, Supervisor, Teardown, Relaunch, Refresher, Environment

LEMMA CredInvariant == Spec => [](TypeInv /\ CredInv)
  BY InitType, NextType, InitCred, NextCred, PTL DEF Spec

(* Nobody holding the lock, the file is what a relaunch would write.        *)
THEOREM CredentialAgrees == Spec => []CredentialAgreement
<1>1. TypeInv /\ CredInv => CredentialAgreement
  BY DEF TypeInv, TypeOK, CredInv, LockInv, FileInv, CredentialAgreement
<1> QED
  BY CredInvariant, <1>1, PTL

(* No PgBouncer ever runs beside a half-written ini.                        *)
THEOREM TornUnread == Spec => []NeverReadTorn
<1>1. CredInv => NeverReadTorn
  BY DEF CredInv, PgbInv
<1> QED
  BY CredInvariant, <1>1, PTL

(* A PgBouncer on an old token is about to be reloaded, or was reported.    *)
THEOREM StaleIsReported == Spec => []StaleIsLoud
<1>1. CredInv => StaleIsLoud
  BY DEF CredInv, StaleInv
<1> QED
  BY CredInvariant, <1>1, PTL

-----------------------------------------------------------------------------
(* The two writers of pgbouncer.ini implement the one atomic credential.    *)
credential == IF ini = Torn THEN last_good_token ELSE ini
credLoaded == IF Loaded THEN server_token ELSE None

LEMMA InitRefines == Init => Credential!Init
  BY DEF Init, Credential!Init, Loaded, Children

(* Rewrite is the one step that moves the credential; PgBouncer's start,    *)
(* and a reload, load it; every other step leaves both views alone, or      *)
(* takes the credential away from a PgBouncer that ends.                    *)
LEMMA NextRefines ==
    TypeInv /\ TypeInv' /\ CredInv /\ CredInv' /\ [Next]_vars
        => [Credential!Next]_<<credential, credLoaded>>
<1> SUFFICES ASSUME TypeInv, TypeInv', CredInv, CredInv', [Next]_vars
             PROVE  Credential!Next \/ UNCHANGED <<credential, credLoaded>>
  BY DEF Credential!Next
<1> USE DEF TypeInv, TypeOK, SupPoints, RefPoints, Children, Support, Order,
            supVars, stopVars, credVars, refVars, childVars, ageVars, world, mainVars,
            GoTo, BeginTeardown, Crash, NextChild, RefGoTo, Running,
            CredInv, LockInv, FileInv, TokenInv, PgbInv, StaleInv,
            NeverReadTorn, Loaded, Relaunching, credential, credLoaded,
            Credential!Next, Credential!Rotate, Credential!Load, Credential!Die

<1>1. CASE ShutdownRequested
  BY <1>1 DEF ShutdownRequested
<1>2. CASE KeepRunning
  BY <1>2 DEF KeepRunning
<1>3. CASE PollGrafana
  BY <1>3 DEF PollGrafana
<1>4. CASE RelaunchStunnel
  BY <1>4 DEF RelaunchStunnel
<1>5. CASE PgBouncerDied
  BY <1>5 DEF PgBouncerDied
<1>6. CASE RelaunchLock
  BY <1>6 DEF RelaunchLock
<1>7. CASE RelaunchRender
  BY <1>7 DEF RelaunchRender
<1>8. CASE RelaunchFill
  BY <1>8 DEF RelaunchFill
<1>9. CASE RelaunchFillFails
  BY <1>9 DEF RelaunchFillFails
<1>10. CASE RelaunchPgBouncer
  BY <1>10 DEF RelaunchPgBouncer
<1>11. CASE SetStop
  BY <1>11 DEF SetStop
<1>12. CASE Barrier
  BY <1>12 DEF Barrier
<1>13. CASE Terminate
  BY <1>13 DEF Terminate
<1>14. CASE ChildStopped
  BY <1>14 DEF ChildStopped
<1>15. CASE Kill
  BY <1>15 DEF Kill
<1>16. CASE Exit
  BY <1>16 DEF Exit
<1>17. CASE IntervalOver
  BY <1>17 DEF IntervalOver
<1>18. CASE MintFails
  BY <1>18 DEF MintFails
<1>19. CASE Mint
  BY <1>19 DEF Mint
<1>20. CASE CredLock
  BY <1>20 DEF CredLock
<1>21. CASE Rewrite
  BY <1>21 DEF Rewrite
<1>22. CASE RewriteFails
  BY <1>22 DEF RewriteFails
<1>23. CASE Record
  BY <1>23 DEF Record
<1>24. CASE Reload
  BY <1>24 DEF Reload
<1>25. CASE Reconnect
  BY <1>25 DEF Reconnect
<1>26. CASE ReloadFails
  BY <1>26 DEF ReloadFails
<1>27. CASE PgBouncerReadsIni
  BY <1>27 DEF PgBouncerReadsIni
<1>28. CASE PgBouncerListens
  BY <1>28 DEF PgBouncerListens
<1>29. CASE Signal
  BY <1>29 DEF Signal
<1>30. ASSUME NEW c \in Support, SupportAlive(c)
      PROVE  Credential!Next \/ UNCHANGED <<credential, credLoaded>>
  BY <1>30 DEF SupportAlive
<1>31. ASSUME NEW c \in Support, GiveUp(c)
      PROVE  Credential!Next \/ UNCHANGED <<credential, credLoaded>>
  BY <1>31 DEF GiveUp
<1>32. ASSUME NEW d \in 1 .. PGB_RELAUNCH_WINDOW_S, Sleep(d)
      PROVE  Credential!Next \/ UNCHANGED <<credential, credLoaded>>
  BY <1>32 DEF Sleep
<1>33. ASSUME NEW c \in Children, ChildExits(c)
      PROVE  Credential!Next \/ UNCHANGED <<credential, credLoaded>>
  BY <1>33 DEF ChildExits
<1>34. CASE HandlerHangs
  BY <1>34 DEF HandlerHangs
<1>35. CASE Over \/ UNCHANGED vars
  BY <1>35 DEF Over, vars
<1> QED
  BY <1>1, <1>2, <1>3, <1>4, <1>5, <1>6, <1>7, <1>8, <1>9, <1>10,
     <1>11, <1>12, <1>13, <1>14, <1>15, <1>16, <1>17, <1>18, <1>19, <1>20,
     <1>21, <1>22, <1>23, <1>24, <1>25, <1>26, <1>27, <1>28, <1>29, <1>30,
     <1>31, <1>32, <1>33, <1>34, <1>35
     DEF Next, MainThread, Supervisor, Teardown, Relaunch, Refresher, Environment

(* The supervisor and the refresher, for any number of rotations and        *)
(* relaunches in any order, implement ServerCredential.                     *)
THEOREM CredentialRefinement == Spec => ImplementsCredential
<1>1. Spec => Credential!Init
  BY InitRefines DEF Spec
<1>2. Spec => [][Credential!Next]_<<credential, credLoaded>>
  BY CredInvariant, NextRefines, PTL DEF Spec
<1> QED
  BY <1>1, <1>2, PTL DEF ImplementsCredential, Credential!Spec, credential, credLoaded
=============================================================================
