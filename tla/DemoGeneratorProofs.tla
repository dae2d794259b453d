------------------------ MODULE DemoGeneratorProofs -------------------------
(***************************************************************************)
(* Proofs about DemoGenerator, for every number of attempts, length of the *)
(* run and bound on the clock.                                             *)
(***************************************************************************)
EXTENDS DemoGenerator, TLAPS

USE RunAssumption DEF RunAssumption

(* A connection is open exactly while the loop is at work, and a pause      *)
(* between two attempts is followed by another one.                         *)
ConnInv ==
    /\ TypeOK
    /\ open = IF pc \in {"sleep", "insert"} THEN 1 ELSE 0
    /\ pc = "backoff" => attempt < RECONNECT_MAX_ATTEMPTS

(* Up to the last successful tick everything is written; beyond it, only    *)
(* what a failed insert may have left.                                      *)
RowsInv ==
    /\ NoGap
    /\ TwiceOnlyAfterFailure
    /\ \A t \in Moments : t > prev_tick /\ t \notin blurred => written[t] = "none"

(* The clock never goes back, nor beyond its bound.                         *)
LEMMA LaterClock ==
    ASSUME TypeOK, NEW d \in Nat
    PROVE  Later(d) \in clock .. MAX_CLOCK
  BY DEF TypeOK, Later

(* Writing a set of moments again touches those moments and no other.       *)
LEMMA AgainRows ==
    ASSUME TypeOK, NEW S
    PROVE  /\ Again(S) \in [Moments -> {"none", "once", "more"}]
           /\ \A t \in Moments \cap S : Again(S)[t] # "none"
           /\ \A t \in Moments \ S : Again(S)[t] = written[t]
           /\ \A t \in Moments : written[t] = "none" => Again(S)[t] # "more"
           /\ \A t \in Moments : written[t] # "none" => Again(S)[t] # "none"
  BY DEF TypeOK, Again

LEMMA InitConn == Init => ConnInv
  BY DEF Init, ConnInv, TypeOK, Moments

LEMMA NextConn == ConnInv /\ [Next]_vars => ConnInv'
<1> SUFFICES ASSUME ConnInv, [Next]_vars PROVE ConnInv'
  OBVIOUS
<1> USE DEF ConnInv, TypeOK, End, rows
<1>1. CASE Connected
  BY <1>1, LaterClock DEF Connected
<1>2. CASE ConnectFails
  BY <1>2, LaterClock DEF ConnectFails
<1>3. CASE Backoff
  <2>1. RECONNECT_BACKOFF_S * attempt \in Nat
    OBVIOUS
  <2>2. clock' \in clock .. MAX_CLOCK
    BY <1>3, <2>1, LaterClock DEF Backoff
  <2> QED
    BY <1>3, <2>2 DEF Backoff
<1>4. CASE MintFails
  BY <1>4 DEF MintFails
<1>5. CASE Tick
  BY <1>5, LaterClock DEF Tick
<1>6. CASE Inserted
  BY <1>6, LaterClock, AgainRows DEF Inserted
<1>7. CASE InsertFails
  <2>1. written' \in [Moments -> {"none", "once", "more"}]
    BY <1>7, AgainRows DEF InsertFails
  <2>2. blurred' \subseteq Moments
    BY <1>7 DEF InsertFails, Window, Moments
  <2> QED
    BY <1>7, <2>1, <2>2, LaterClock DEF InsertFails
<1>8. CASE Cancel
  <2>1. written' \in [Moments -> {"none", "once", "more"}]
    BY <1>8, AgainRows DEF Cancel
  <2>2. blurred' \subseteq Moments
    BY <1>8 DEF Cancel, Window, Moments
  <2> QED
    BY <1>8, <2>1, <2>2 DEF Cancel
<1>9. CASE Over \/ UNCHANGED vars
  BY <1>9 DEF Over, vars
<1> QED
  BY <1>1, <1>2, <1>3, <1>4, <1>5, <1>6, <1>7, <1>8, <1>9 DEF Next, Run

LEMMA ConnInvariant == Spec => []ConnInv
  BY InitConn, NextConn, PTL DEF Spec

(* Attempts, times and connections stay within their bounds.                *)
THEOREM TypeCorrect == Spec => []TypeOK
<1>1. ConnInv => TypeOK
  BY DEF ConnInv
<1> QED
  BY ConnInvariant, <1>1, PTL

(* Never two connections, and none when the run is over.                    *)
THEOREM NoConnectionLeaks == Spec => []OneConnection
<1>1. ConnInv => OneConnection
  BY DEF ConnInv, OneConnection
<1> QED
  BY ConnInvariant, <1>1, PTL

-----------------------------------------------------------------------------
LEMMA InitRows == Init => RowsInv
  BY DEF Init, RowsInv, NoGap, TwiceOnlyAfterFailure

(* Only an insert, complete or not, touches the rows.                       *)
LEMMA NextRows == ConnInv /\ RowsInv /\ [Next]_vars => RowsInv'
<1> SUFFICES ASSUME ConnInv, RowsInv, [Next]_vars PROVE RowsInv'
  OBVIOUS
<1> USE DEF RowsInv, NoGap, TwiceOnlyAfterFailure
<1>1. TypeOK
  BY DEF ConnInv
<1>2. prev_tick \in Nat /\ now \in Nat /\ prev_tick <= now /\ now <= MAX_CLOCK
  BY <1>1 DEF TypeOK
<1>3. CASE Inserted
  <2>1. /\ \A t \in Moments : t \in Window => written'[t] # "none"
        /\ \A t \in Moments : t \notin Window => written'[t] = written[t]
        /\ \A t \in Moments : written[t] = "none" => written'[t] # "more"
        /\ prev_tick' = now /\ blurred' = blurred
    BY <1>1, <1>3, AgainRows DEF Inserted
  <2> QED
    BY <1>2, <2>1 DEF Window, Moments
<1>4. ASSUME NEW part \in SUBSET Window, written' = Again(part),
             blurred' = blurred \cup Window, prev_tick' = prev_tick
      PROVE  RowsInv'
  <2>1. /\ \A t \in Moments : t \notin Window => written'[t] = written[t]
        /\ \A t \in Moments : written[t] # "none" => written'[t] # "none"
    BY <1>1, <1>4, AgainRows
  <2> QED
    BY <1>2, <1>4, <2>1 DEF Window, Moments
<1>5. CASE InsertFails
  BY <1>4, <1>5 DEF InsertFails
<1>6. CASE Cancel
  <2>1. CASE written' = written
    BY <1>6, <2>1 DEF Cancel
  <2>2. CASE pc = "insert" /\ \E part \in SUBSET Window : written' = Again(part)
    BY <1>4, <1>6, <2>2 DEF Cancel
  <2> QED
    BY <1>6, <2>1, <2>2 DEF Cancel
<1>7. CASE Connected \/ ConnectFails \/ Backoff \/ MintFails \/ Tick
  BY <1>7 DEF Connected, ConnectFails, Backoff, MintFails, Tick, rows
<1>8. CASE Over \/ UNCHANGED vars
  BY <1>8 DEF Over, vars, rows
<1> QED
  BY <1>3, <1>5, <1>6, <1>7, <1>8 DEF Next, Run

LEMMA RowsInvariant == Spec => []RowsInv
  BY ConnInvariant, InitRows, NextRows, PTL DEF Spec

(* No moment up to the last successful tick is without rows.                *)
THEOREM NothingLost == Spec => []NoGap
<1>1. RowsInv => NoGap
  BY DEF RowsInv
<1> QED
  BY RowsInvariant, <1>1, PTL

(* Rows are doubled only where an insert failed.                            *)
THEOREM DoubledOnlyAfterFailure == Spec => []TwiceOnlyAfterFailure
<1>1. RowsInv => TwiceOnlyAfterFailure
  BY DEF RowsInv
<1> QED
  BY RowsInvariant, <1>1, PTL
=============================================================================
