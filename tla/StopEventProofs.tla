-------------------------- MODULE StopEventProofs ---------------------------
(***************************************************************************)
(* Proofs about StopEvent, for every number of signals, however deep the   *)
(* handlers nest.                                                          *)
(***************************************************************************)
EXTENDS StopEvent, TLAPS

USE SignalsAssumption DEF SignalsAssumption

Frames == {"loop", "acquire", "held", "notify", "teardown"}

(* A frame that is about to release the lock has set the flag, so nobody is *)
(* notified before it is up; and when the handlers have all returned, the   *)
(* last of them did that.  There are no more handlers than signals.         *)
RequestInv ==
    /\ stack \in Seq(Frames) /\ Len(stack) > 0
    /\ signals \in Nat /\ Len(stack) <= signals + 1
    /\ \A i \in 1 .. Len(stack) : stack[i] = "notify" => flag
    /\ ref = "notified" => flag
    /\ RequestSeen

LEMMA InitRequest == Init => RequestInv
<1> SUFFICES ASSUME Init PROVE RequestInv
  OBVIOUS
<1>1. stack \in Seq(Frames) /\ Len(stack) = 1 /\ stack[1] = "loop"
  BY DEF Init, Frames
<1>2. flag = FALSE /\ ref # "done" /\ signals = 0
  BY DEF Init
<1>3. ref # "notified"
  BY DEF Init
<1> QED
  BY <1>1, <1>2, <1>3 DEF RequestInv, RequestSeen

(* Changing the innermost frame leaves the depth and the others alone.      *)
LEMMA SetTopFrames ==
    ASSUME RequestInv, NEW s \in Frames
    PROVE  /\ SetTop(s) \in Seq(Frames) /\ Len(SetTop(s)) = Len(stack)
           /\ \A i \in 1 .. Len(stack) : SetTop(s)[i] = "notify" =>
                                           stack[i] = "notify" \/ s = "notify"
  BY DEF RequestInv, SetTop

LEMMA NextRequest == RequestInv /\ [Next]_vars => RequestInv'
<1> SUFFICES ASSUME RequestInv, [Next]_vars PROVE RequestInv'
  OBVIOUS
<1> USE DEF RequestInv, RequestSeen
<1>1. CASE BeginTeardown
  <2>1. stack' = SetTop("acquire") /\ UNCHANGED <<flag, ref, signals>>
    BY <1>1 DEF BeginTeardown
  <2> QED
    BY <2>1, SetTopFrames DEF Frames
<1>2. CASE AcquireCond
  <2>1. stack' = SetTop("held") /\ UNCHANGED <<flag, ref, signals>>
    BY <1>2 DEF AcquireCond
  <2> QED
    BY <2>1, SetTopFrames DEF Frames
<1>3. CASE SetFlag
  <2>1. stack' = SetTop("notify") /\ flag' = TRUE /\ UNCHANGED <<ref, signals>>
    BY <1>3 DEF SetFlag
  <2> QED
    BY <2>1, SetTopFrames DEF Frames
<1>4. CASE ReleaseCond
  <2>1. flag /\ ref' \in {ref, "notified"} /\ UNCHANGED <<flag, signals>>
    BY <1>4 DEF ReleaseCond, Top
  <2>2. CASE Len(stack) = 1
    <3>1. stack' = <<"teardown">>
      BY <1>4, <2>2 DEF ReleaseCond, Return
    <3>2. stack' \in Seq(Frames) /\ Len(stack') = 1 /\ stack'[1] = "teardown"
      BY <3>1 DEF Frames
    <3> QED
      BY <2>1, <3>2
  <2>3. CASE Len(stack) # 1
    <3>1. Len(stack) \in Nat /\ Len(stack) > 0
      OBVIOUS
    <3>2. \A n \in Nat : n > 0 /\ n # 1 => n > 1
      OBVIOUS
    <3>3. Len(stack) > 1
      BY <2>3, <3>1, <3>2
    <3>4. stack' = SubSeq(stack, 1, Len(stack) - 1)
      BY <1>4, <2>3 DEF ReleaseCond, Return
    <3>5. /\ stack' \in Seq(Frames) /\ Len(stack') = Len(stack) - 1
           /\ \A i \in 1 .. Len(stack') : stack'[i] = stack[i]
      BY <3>3, <3>4
    <3> QED
      BY <2>1, <3>1, <3>3, <3>5
  <2> QED
    BY <2>2, <2>3
<1>5. CASE Handler
  BY <1>5 DEF Handler, Frames
<1>6. CASE Wait
  BY <1>6 DEF Wait, WaitBegins, TimesOut, WaitReturns
<1>7. CASE TornDown \/ UNCHANGED vars
  BY <1>7 DEF TornDown, vars
<1> QED
  BY <1>1, <1>2, <1>3, <1>4, <1>5, <1>6, <1>7 DEF Next, MainThread

LEMMA RequestInvariant == Spec => []RequestInv
  BY InitRequest, NextRequest, PTL DEF Spec

(* No shutdown request is lost, for any number of signals.                  *)
THEOREM NoRequestLost == Spec => []RequestSeen
<1>1. RequestInv => RequestSeen
  BY DEF RequestInv
<1> QED
  BY RequestInvariant, <1>1, PTL

-----------------------------------------------------------------------------
(* Either only the loop's frame is there, or a signal has come.             *)
LEMMA Depth ==
    ASSUME RequestInv
    PROVE  Len(stack) = 1 \/ (Len(stack) > 1 /\ signals > 0)
<1>1. Len(stack) \in Nat /\ Len(stack) > 0 /\ Len(stack) <= signals + 1 /\ signals \in Nat
  BY DEF RequestInv
<1>2. \A n, m \in Nat : n > 0 /\ n <= m + 1 => n = 1 \/ (n > 1 /\ m > 0)
  OBVIOUS
<1> QED
  BY <1>1, <1>2

(* There is a reason to shut down from the first step on that is not the    *)
(* loop's own.                                                              *)
Asked == signals > 0 \/ stack[1] # "loop"

LEMMA AskedOffTheLoop ==
    ASSUME RequestInv, Top # "loop"
    PROVE  Asked
<1>1. CASE Len(stack) = 1
  BY <1>1 DEF Asked, Top
<1>2. CASE signals > 0
  BY <1>2 DEF Asked
<1> QED
  BY <1>1, <1>2, Depth

LEMMA AskedOnTop ==
    ASSUME RequestInv, NEW s \in Frames, s # "loop", stack' = SetTop(s), UNCHANGED signals
    PROVE  Asked'
<1>1. CASE Len(stack) = 1
  <2>1. stack'[1] = s
    BY <1>1 DEF RequestInv, SetTop
  <2> QED
    BY <2>1 DEF Asked
<1>2. CASE signals > 0
  BY <1>2 DEF Asked
<1> QED
  BY <1>1, <1>2, Depth

LEMMA StepRequest == RequestInv /\ [Next]_vars => [Request!Next]_<<Asked, flag, ref = "done">>
<1> SUFFICES ASSUME RequestInv, [Next]_vars
             PROVE  Request!Next \/ UNCHANGED <<Asked, flag, ref = "done">>
  OBVIOUS
<1> USE DEF Request!Next, Request!Ask, Request!Raise, Request!Tell
<1>1. CASE BeginTeardown
  <2>1. stack' = SetTop("acquire") /\ UNCHANGED <<owner, flag, ref, signals>>
    BY <1>1 DEF BeginTeardown
  <2>2. Asked'
    BY <2>1, AskedOnTop DEF Frames
  <2> QED
    BY <2>1, <2>2 DEF Asked
<1>2. CASE AcquireCond
  <2>1. stack' = SetTop("held") /\ UNCHANGED <<flag, ref, signals>> /\ Asked
    BY <1>2, AskedOffTheLoop DEF AcquireCond
  <2>2. Asked'
    BY <2>1, AskedOnTop DEF Frames
  <2> QED
    BY <2>1, <2>2 DEF Asked
<1>3. CASE SetFlag
  <2>1. stack' = SetTop("notify") /\ flag' = TRUE /\ UNCHANGED <<ref, signals>> /\ Asked
    BY <1>3, AskedOffTheLoop DEF SetFlag
  <2>2. Asked'
    BY <2>1, AskedOnTop DEF Frames
  <2> QED
    BY <2>1, <2>2 DEF Asked
<1>4. CASE ReleaseCond
  <2>1. UNCHANGED <<flag, signals>> /\ Asked /\ stack' = Return
    BY <1>4, AskedOffTheLoop DEF ReleaseCond
  <2>2. Asked'
    <3>1. CASE Len(stack) = 1
      BY <2>1, <3>1 DEF Return, Asked
    <3>2. CASE signals > 0
      BY <2>1, <3>2 DEF Asked
    <3> QED
      BY <3>1, <3>2, Depth
  <2>3. (ref = "done") = (ref' = "done")
    BY <1>4 DEF ReleaseCond
  <2> QED
    BY <2>1, <2>2, <2>3 DEF Asked
<1>5. CASE Handler
  <2>1. signals' > 0 /\ UNCHANGED <<flag, ref>>
    BY <1>5 DEF Handler, RequestInv
  <2> QED
    BY <2>1
<1>6. CASE Wait
  <2>1. UNCHANGED <<Asked, flag>>
    BY <1>6 DEF Wait, WaitBegins, TimesOut, WaitReturns, Asked
  <2>2. CASE ref' = "done"
    <3>1. CASE flag
      BY <2>1, <2>2, <3>1 DEF Asked
    <3>2. CASE ref = "done"
      BY <2>1, <2>2, <3>2
    <3>3. flag \/ ref = "done"
      BY <1>6, <2>2 DEF Wait, WaitBegins, TimesOut, WaitReturns, RequestInv
    <3> QED
      BY <3>1, <3>2, <3>3
  <2>3. CASE ref' # "done"
    <3>1. ref # "done"
      BY <1>6, <2>3 DEF Wait, WaitBegins, TimesOut, WaitReturns
    <3> QED
      BY <2>1, <2>3, <3>1
  <2> QED
    BY <2>2, <2>3
<1>7. CASE TornDown \/ UNCHANGED vars
  BY <1>7 DEF TornDown, vars, Asked
<1> QED
  BY <1>1, <1>2, <1>3, <1>4, <1>5, <1>6, <1>7 DEF Next, MainThread

(* However many handlers nest and whatever gets stuck, the event with its   *)
(* lock implements the shutdown request that Supervisor takes it for.       *)
THEOREM EventImplementsRequest == Spec => ImplementsRequest
<1>1. Init => Request!Init
  <2> SUFFICES ASSUME Init PROVE Request!Init
    OBVIOUS
  <2>1. signals = 0 /\ stack[1] = "loop" /\ flag = FALSE /\ ref # "done"
    BY DEF Init
  <2> QED
    BY <2>1 DEF Request!Init
<1>2. RequestInv /\ [Next]_vars => [Request!Next]_<<signals > 0 \/ stack[1] # "loop", flag, ref = "done">>
  BY StepRequest DEF Asked
<1> QED
  BY RequestInvariant, <1>1, <1>2, PTL DEF Spec, ImplementsRequest, Request!Spec
=============================================================================
