------------------------ MODULE TokenLifetimeProofs -------------------------
(***************************************************************************)
(* Proofs about TokenLifetime: given Margin, for every lifetime, interval  *)
(* and number of tolerated misses, PgBouncer never has an expired token.   *)
(***************************************************************************)
EXTENDS TokenLifetime, TLAPS

USE TimesAssumption DEF TimesAssumption

LEMMA InitType == Init => TypeOK
  BY DEF Init, TypeOK

LEMMA NextType == TypeOK /\ [Next]_vars => TypeOK'
<1> SUFFICES ASSUME TypeOK, [Next]_vars PROVE TypeOK'
  OBVIOUS
<1> USE DEF TypeOK, NextInterval
<1>1. CASE Tick
  BY <1>1 DEF Tick, Less
<1>2. CASE WaitOver
  BY <1>2 DEF WaitOver
<1>3. CASE Mint
  BY <1>3 DEF Mint
<1>4. CASE Write
  BY <1>4 DEF Write
<1>5. CASE Reload
  BY <1>5 DEF Reload
<1>6. CASE Miss
  BY <1>6 DEF Miss
<1>7. CASE Relaunch
  BY <1>7 DEF Relaunch
<1>8. CASE UNCHANGED vars
  BY <1>8 DEF vars
<1> QED
  BY <1>1, <1>2, <1>3, <1>4, <1>5, <1>6, <1>7, <1>8 DEF Next

(* The clocks and the count of misses stay within their bounds.             *)
THEOREM TypeCorrect == Spec => []TypeOK
  BY InitType, NextType, PTL DEF Spec

-----------------------------------------------------------------------------
(***************************************************************************)
(* The inductive invariant: the token in use outlives the rest of the      *)
(* present cycle and every further cycle that may still fail; the file is  *)
(* never behind PgBouncer; and a token on its way to PgBouncer has aged    *)
(* only since its cycle began.                                             *)
(***************************************************************************)
Cycle == INTERVAL + CYCLE_MAX

RestOfCycle == IF phase = "wait" THEN wait + CYCLE_MAX ELSE CYCLE_MAX - busy

Ahead == missed <= MAX_MISSED => cred > (MAX_MISSED - missed) * Cycle + RestOfCycle

Newer ==
    /\ disk >= cred
    /\ phase = "write" => fresh >= disk /\ fresh + busy >= TTL
    /\ phase = "reload" => disk + busy >= TTL

AliveInv == Ahead /\ Newer

(* One more cycle costs one more Cycle.                                     *)
LEMMA CycleCost ==
    ASSUME NEW n \in Int
    PROVE  /\ (n + 1) * Cycle = n * Cycle + Cycle
           /\ n * Cycle \in Int
           /\ n >= 0 => n * Cycle >= 0
  BY DEF Cycle

LEMMA InitAlive == Margin /\ Init => AliveInv
<1> SUFFICES ASSUME Margin, Init PROVE AliveInv
  OBVIOUS
<1>1. (MAX_MISSED + 1) * Cycle = MAX_MISSED * Cycle + Cycle /\ MAX_MISSED * Cycle \in Int
      /\ MAX_MISSED * Cycle >= 0
  BY CycleCost
<1>2. BOOT_MAX + (MAX_MISSED + 1) * Cycle < TTL
  BY DEF Margin, Cycle
<1>3. PICK boot \in 0 .. BOOT_MAX : cred = IF boot < TTL THEN TTL - boot ELSE 0
  BY DEF Init
<1>4. cred > MAX_MISSED * Cycle + Cycle
  BY <1>1, <1>2, <1>3 DEF Cycle
<1> QED
  BY <1>1, <1>4 DEF Init, AliveInv, Ahead, Newer, RestOfCycle, Cycle

LEMMA NextAlive == Margin /\ TypeOK /\ AliveInv /\ [Next]_vars => AliveInv'
<1> SUFFICES ASSUME Margin, TypeOK, AliveInv, [Next]_vars PROVE AliveInv'
  OBVIOUS
<1> DEFINE left == MAX_MISSED - missed
           cost == left * Cycle
<1>1. left \in Int /\ cost \in Int /\ (left >= 0 => cost >= 0)
  BY CycleCost DEF TypeOK
<1>2. MAX_MISSED * Cycle \in Int /\ MAX_MISSED * Cycle >= 0
  BY CycleCost
<1>3. CYCLE_MAX + MAX_MISSED * Cycle + Cycle < TTL
  BY CycleCost DEF Margin, Cycle
<1>4. missed <= MAX_MISSED => cred > cost + RestOfCycle
  BY DEF AliveInv, Ahead
<1>5. ASSUME UNCHANGED missed, missed <= MAX_MISSED => cred' > cost + RestOfCycle'
      PROVE  Ahead'
  BY <1>5 DEF Ahead, Cycle
<1>6. CASE Tick
  <2>1. missed <= MAX_MISSED => cred' > cost + RestOfCycle'
    BY <1>1, <1>4, <1>6 DEF Tick, Less, RestOfCycle, TypeOK
  <2>2. Newer'
    BY <1>6 DEF Tick, Less, AliveInv, Newer, TypeOK
  <2> QED
    BY <1>5, <1>6, <2>1, <2>2 DEF Tick, AliveInv
<1>7. CASE WaitOver
  <2>1. missed <= MAX_MISSED => cred' > cost + RestOfCycle'
    BY <1>1, <1>4, <1>7 DEF WaitOver, RestOfCycle, TypeOK
  <2>2. Newer'
    BY <1>7 DEF WaitOver, AliveInv, Newer, TypeOK
  <2> QED
    BY <1>5, <1>7, <2>1, <2>2 DEF WaitOver, AliveInv
<1>8. CASE Mint
  <2>1. missed <= MAX_MISSED => cred' > cost + RestOfCycle'
    BY <1>1, <1>4, <1>8 DEF Mint, RestOfCycle, TypeOK
  <2>2. Newer'
    BY <1>8 DEF Mint, AliveInv, Newer, TypeOK
  <2> QED
    BY <1>5, <1>8, <2>1, <2>2 DEF Mint, AliveInv
<1>9. CASE Write
  <2>1. missed <= MAX_MISSED => cred' > cost + RestOfCycle'
    BY <1>1, <1>4, <1>9 DEF Write, RestOfCycle, TypeOK
  <2>2. Newer'
    BY <1>9 DEF Write, AliveInv, Newer, TypeOK
  <2> QED
    BY <1>5, <1>9, <2>1, <2>2 DEF Write, AliveInv
<1>10. CASE Reload
  <2>1. cred' > MAX_MISSED * Cycle + Cycle
    BY <1>2, <1>3, <1>10 DEF Reload, AliveInv, Newer, TypeOK, Cycle
  <2>2. Ahead'
    BY <1>2, <1>10, <2>1 DEF Reload, NextInterval, Ahead, RestOfCycle, Cycle
  <2>3. Newer'
    BY <1>10 DEF Reload, NextInterval, AliveInv, Newer, TypeOK
  <2> QED
    BY <2>2, <2>3 DEF AliveInv
<1>11. CASE Miss
  <2>1. cred' >= cred /\ cred' \in 0 .. TTL
    BY <1>11 DEF Miss, AliveInv, Newer, TypeOK
  <2>2. ASSUME missed' <= MAX_MISSED
        PROVE  cred' > (MAX_MISSED - missed') * Cycle + RestOfCycle'
    <3>1. missed' = missed + 1 /\ missed <= MAX_MISSED /\ left - 1 = MAX_MISSED - missed'
      BY <1>11, <2>2 DEF Miss, TypeOK
    <3>2. cost = (left - 1) * Cycle + Cycle /\ (left - 1) * Cycle \in Int
      BY <1>1, CycleCost DEF Cycle
    <3>3. RestOfCycle >= 0 /\ RestOfCycle \in Int /\ RestOfCycle' = Cycle
      BY <1>11 DEF Miss, NextInterval, RestOfCycle, TypeOK, Cycle
    <3> QED
      BY <1>1, <1>4, <2>1, <3>1, <3>2, <3>3 DEF TypeOK, Cycle
  <2>3. Newer'
    BY <1>11 DEF Miss, NextInterval, AliveInv, Newer, TypeOK
  <2> QED
    BY <2>2, <2>3 DEF AliveInv, Ahead, Cycle
<1>12. CASE Relaunch
  <2>1. missed <= MAX_MISSED => cred' > cost + RestOfCycle'
    BY <1>1, <1>4, <1>12 DEF Relaunch, RestOfCycle, TypeOK, AliveInv, Newer
  <2>2. Newer'
    BY <1>12 DEF Relaunch, AliveInv, Newer, TypeOK
  <2> QED
    BY <1>5, <1>12, <2>1, <2>2 DEF Relaunch, AliveInv
<1>13. CASE UNCHANGED vars
  BY <1>13 DEF vars, AliveInv, Ahead, Newer, RestOfCycle, Cycle
<1> QED
  BY <1>6, <1>7, <1>8, <1>9, <1>10, <1>11, <1>12, <1>13 DEF Next

(* With that margin, PgBouncer's token is live after any MAX_MISSED failed  *)
(* refreshes in a row, wherever the failures and the relaunches fall.       *)
THEOREM AliveWithMargin ==
    ASSUME Margin
    PROVE  Spec => []CredentialAlive
<1>1. TypeOK /\ AliveInv => CredentialAlive
  <2> SUFFICES ASSUME TypeOK, AliveInv, missed <= MAX_MISSED PROVE cred > 0
    BY DEF CredentialAlive
  <2>1. (MAX_MISSED - missed) * Cycle \in Int /\ (MAX_MISSED - missed) * Cycle >= 0
    BY CycleCost DEF TypeOK
  <2>2. RestOfCycle \in Int /\ RestOfCycle >= 0
    BY DEF RestOfCycle, TypeOK
  <2> QED
    BY <2>1, <2>2 DEF AliveInv, Ahead, TypeOK
<1>2. Init => AliveInv
  BY Margin, InitAlive
<1>3. TypeOK /\ AliveInv /\ [Next]_vars => AliveInv'
  BY Margin, NextAlive
<1>4. Spec => [](TypeOK /\ AliveInv)
  BY InitType, NextType, <1>2, <1>3, PTL DEF Spec
<1> QED
  BY <1>1, <1>4, PTL

(***************************************************************************)
(* The code's own numbers: an hour's token, refreshed every 3000 seconds   *)
(* (TOKEN_REFRESH_INTERVAL_S).  They hold as long as no cycle fails, a     *)
(* cycle takes less than five minutes, and a boot and a cycle together     *)
(* less than ten: that is what is left for a mint without a timeout.       *)
(***************************************************************************)
THEOREM AliveWithDefaults ==
    ASSUME TTL = 3600, INTERVAL = 3000, MAX_MISSED = 0,
           CYCLE_MAX < 300, BOOT_MAX + CYCLE_MAX < 600
    PROVE  Spec => []CredentialAlive
<1>1. (MAX_MISSED + 1) * (INTERVAL + CYCLE_MAX) = 3000 + CYCLE_MAX
  OBVIOUS
<1>2. Margin
  BY <1>1 DEF Margin
<1> QED
  BY <1>2, AliveWithMargin
=============================================================================
