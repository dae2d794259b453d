--------------------------- MODULE StagingProofs ----------------------------
(***************************************************************************)
(* Proofs about Staging, for every bundle, every order of its archive and  *)
(* every number of failures, and that it implements Bundle.                *)
(*                                                                         *)
(* The order of an archive is fixed and it is unpacked from the front, so  *)
(* as long as the marker is missing everything after it is missing as      *)
(* well: no attempt that saw no marker opens a file that is complete,      *)
(* once the marker is there.  That is what the invariant says.             *)
(***************************************************************************)
EXTENDS Staging, FiniteSetTheorems, TLAPS

USE MembersAssumption DEF MembersAssumption

Last == Len(archive.order)

(* Types, those of the archive included.                                    *)
Shape ==
    /\ archive.order \in Seq(Members) /\ Last <= Cardinality(Members)
    /\ \A i, j \in 1 .. Last : archive.order[i] = archive.order[j] => i = j
    /\ pc \in {"down", "check", "download", "members", "extract", "copy",
               "verify", "chmod", "booting", "running"}
    /\ next \in 1 .. Cardinality(Members) + 1
    /\ file \in [Members -> {"absent", "partial", "whole"}]
    /\ exec \subseteq {m \in Members : file[m] # "absent"}
    /\ tarball \in {"absent", "partial", "whole"}
    /\ result \in {"none", "skipped", "staged"}
    /\ pc \notin {"down", "booting", "running"} => result = "none"
    /\ failures \in 0 .. MAX_FAILURES

(* How far the unpacking has come.                                          *)
Unpacked ==
    /\ pc \in {"extract", "copy"} =>
         next <= Last + 1 /\ \A i \in 1 .. next - 1 : file[archive.order[i]] = "whole"
    /\ pc = "copy" => next <= Last /\ file[archive.order[next]] = "partial"
    /\ pc \in {"verify", "chmod"} =>
         tarball = "absent" /\ \A i \in 1 .. Last : file[archive.order[i]] = "whole"

(* What is missing while the marker is, and just after it has come.         *)
Missing ==
    /\ pc \in {"download", "members"} => ~is_staged
    /\ ~is_staged => \A k \in 1 .. Last : archive.order[k] = Marker =>
                       \A j \in k .. Last : file[archive.order[j]] = "absent"
    /\ pc = "extract" /\ is_staged => \A j \in next .. Last : file[archive.order[j]] = "absent"
    /\ pc = "copy" /\ is_staged => \A j \in next + 1 .. Last : file[archive.order[j]] = "absent"

(* The loop over the key binaries, and what is returned.                    *)
Done ==
    /\ pc = "chmod" => /\ is_staged /\ next <= Len(KeyFiles) + 1
                       /\ \A i \in 1 .. next - 1 :
                            KeyFiles[i] \in Contents(archive) => KeyFiles[i] \in exec
    /\ StagedIsComplete

Safe ==
    /\ pc \in {"extract", "copy", "verify", "chmod"} => archive.safe
    /\ UnsafeExtractsNothing

StageInv == Shape /\ Unpacked /\ Missing /\ Done /\ Safe

LEMMA CardinalityNat == Cardinality(Members) \in Nat
  BY FS_CardinalityType

(* An archive's order is a sequence of distinct members.                    *)
LEMMA OrderShape ==
    ASSUME NEW o \in Orders
    PROVE  /\ o \in Seq(Members) /\ Len(o) <= Cardinality(Members)
           /\ \A i, j \in 1 .. Len(o) : o[i] = o[j] => i = j
<1>1. PICK n \in 0 .. Cardinality(Members) : o \in [1 .. n -> Members]
  BY DEF Orders
<1>2. o \in Seq(Members) /\ Len(o) = n
  BY <1>1, CardinalityNat
<1> QED
  BY <1>1, <1>2, CardinalityNat DEF Orders

LEMMA InitStage == Init => StageInv
<1> SUFFICES ASSUME Init PROVE StageInv
  OBVIOUS
<1>1. archive.order \in Orders
  BY DEF Init
<1>2. Shape
  BY <1>1, OrderShape, CardinalityNat, FailuresAssumption
  DEF Init, Shape, Last, FailuresAssumption
<1>3. Unpacked /\ Safe /\ Done
  BY DEF Init, Unpacked, Safe, Done, StagedIsComplete, UnsafeExtractsNothing
<1>4. Missing
  BY <1>2 DEF Init, Missing, is_staged, Shape, Last
<1> QED
  BY <1>2, <1>3, <1>4 DEF StageInv

(* Opening a member: it was missing if the marker is there, or comes now.   *)
LEMMA OpenStage ==
    ASSUME StageInv, ExtractOpen
    PROVE  /\ StageInv'
           /\ is_staged => file[Member] = "absent"
<1> USE DEF StageInv
<1>0. Last \in Nat /\ next \in 1 .. Last /\ Member \in Members /\ Member = archive.order[next]
  BY DEF ExtractOpen, Shape, Last, Member
<1>1. is_staged => file[Member] = "absent"
  BY <1>0 DEF ExtractOpen, Missing
<1>2. /\ file' = [file EXCEPT ![Member] = "partial"] /\ pc = "extract" /\ pc' = "copy"
      /\ UNCHANGED <<archive, next, exec, tarball, result, failures>>
  BY DEF ExtractOpen, GoTo
<1>3. Shape'
  BY <1>0, <1>2 DEF Shape, Last
<1>4. \A i \in 1 .. Last : file'[archive.order[i]] =
        IF i = next THEN "partial" ELSE file[archive.order[i]]
  BY <1>0, <1>2 DEF Shape, Last
<1>5. Unpacked'
  BY <1>0, <1>2, <1>4 DEF Unpacked, Last
<1>6. Missing'
  <2>1. CASE is_staged
    <3>1. is_staged'
      BY <1>0, <1>2, <2>1 DEF is_staged, Shape
    <3> QED
      BY <1>0, <1>2, <1>4, <2>1, <3>1 DEF Missing, Last
  <2>2. CASE ~is_staged /\ Member = Marker
    <3>1. is_staged'
      BY <1>0, <1>2, <2>2 DEF is_staged, Shape
    <3>2. \A j \in next .. Last : file[archive.order[j]] = "absent"
      BY <1>0, <2>2 DEF Missing
    <3> QED
      BY <1>0, <1>2, <1>4, <3>1, <3>2 DEF Missing, Last
  <2>3. CASE ~is_staged /\ Member # Marker
    <3>1. ~is_staged'
      BY <1>0, <1>2, <2>3 DEF is_staged, Shape
    <3>2. \A k \in 1 .. Last : archive.order[k] = Marker => next < k
      BY <1>0, <1>2, <2>3 DEF Unpacked, is_staged
    <3>3. ASSUME NEW k \in 1 .. Last, archive.order[k] = Marker, NEW j \in k .. Last
          PROVE  file'[archive.order[j]] = "absent"
      <4>1. j \in 1 .. Last /\ j # next
        BY <1>0, <3>2, <3>3
      <4>2. file[archive.order[j]] = "absent"
        BY <2>3, <3>3 DEF Missing
      <4> QED
        BY <1>4, <4>1, <4>2
    <3> QED
      BY <1>2, <3>1, <3>3 DEF Missing, Last
  <2> QED
    BY <2>1, <2>2, <2>3
<1>7. Done' /\ Safe'
  BY <1>2 DEF Done, Safe, StagedIsComplete, UnsafeExtractsNothing
<1> QED
  BY <1>1, <1>3, <1>5, <1>6, <1>7

LEMMA FillStage ==
    ASSUME StageInv, ExtractFill
    PROVE  /\ StageInv'
           /\ file[Member] = "partial" /\ Member \in Contents(archive)
           /\ is_staged' <=> is_staged
<1> USE DEF StageInv
<1>0. Last \in Nat /\ next \in 1 .. Last /\ Member \in Members /\ Member = archive.order[next]
  BY DEF ExtractFill, Shape, Last, Member, Unpacked
<1>1. file[Member] = "partial" /\ Member \in Contents(archive)
  BY <1>0 DEF ExtractFill, Unpacked, Contents, Last, Shape
<1>2. /\ file' = [file EXCEPT ![Member] = "whole"] /\ pc = "copy" /\ pc' = "extract"
      /\ next' = next + 1 /\ exec' \subseteq exec \cup {Member}
      /\ UNCHANGED <<archive, tarball, result, failures>>
  BY DEF ExtractFill, GoTo
<1>3. is_staged' <=> is_staged
  BY <1>0, <1>1, <1>2 DEF is_staged, Shape
<1>4. Shape'
  BY <1>0, <1>2, CardinalityNat DEF Shape, Last
<1>5. \A i \in 1 .. Last : file'[archive.order[i]] =
        IF i = next THEN "whole" ELSE file[archive.order[i]]
  BY <1>0, <1>2 DEF Shape, Last
<1>6. Unpacked'
  BY <1>0, <1>2, <1>5 DEF Unpacked, Last
<1>7. Missing'
  <2>1. ~is_staged => \A k \in 1 .. Last : archive.order[k] = Marker => next < k
    BY <1>0, <1>1, <1>2 DEF Unpacked, is_staged
  <2>2. ASSUME ~is_staged, NEW k \in 1 .. Last, archive.order[k] = Marker, NEW j \in k .. Last
        PROVE  file'[archive.order[j]] = "absent"
    <3>1. j \in 1 .. Last /\ j # next
      BY <1>0, <2>1, <2>2
    <3>2. file[archive.order[j]] = "absent"
      BY <2>2 DEF Missing
    <3> QED
      BY <1>5, <3>1, <3>2
  <2>3. ASSUME is_staged, NEW j \in next' .. Last
        PROVE  file'[archive.order[j]] = "absent"
    <3>1. j \in next + 1 .. Last /\ j \in 1 .. Last /\ j # next
      BY <1>0, <1>2, <2>3
    <3>2. file[archive.order[j]] = "absent"
      BY <1>2, <2>3, <3>1 DEF Missing
    <3> QED
      BY <1>5, <3>1, <3>2
  <2> QED
    BY <1>2, <1>3, <2>2, <2>3 DEF Missing, Last
<1>8. Done' /\ Safe'
  BY <1>2 DEF Done, Safe, StagedIsComplete, UnsafeExtractsNothing
<1> QED
  BY <1>1, <1>3, <1>4, <1>6, <1>7, <1>8

(* A key binary that is in the bundle is there by then and made executable. *)
LEMMA ChmodStage ==
    ASSUME StageInv, Chmod
    PROVE  StageInv' /\ (pc' = "booting" => Complete)
<1> USE DEF StageInv
<1>0. /\ pc = "chmod" /\ Last \in Nat /\ UNCHANGED <<archive, file, tarball, failures>>
      /\ next \in 1 .. Len(KeyFiles) + 1 /\ is_staged /\ is_staged'
  BY DEF Chmod, Done, Shape, Last, GoTo, Return, is_staged
<1>1. \A m \in Contents(archive) : file[m] = "whole"
  BY <1>0 DEF Unpacked, Contents, Last, Shape
<1>2. CASE next \in 1 .. Len(KeyFiles)
  <2>1. /\ exec' = IF file[KeyFiles[next]] # "absent" THEN exec \cup {KeyFiles[next]} ELSE exec
        /\ next' = next + 1 /\ pc' = "chmod" /\ result' = result
    BY <1>0, <1>2 DEF Chmod, GoTo
  <2>2. KeyFiles[next] \in Members /\ Len(KeyFiles) \in Nat
    BY <1>2
  <2>3. Shape'
    BY <1>0, <1>2, <2>1, <2>2, CardinalityNat DEF Shape, Last
  <2>4. Unpacked' /\ Missing'
    BY <1>0, <2>1 DEF Unpacked, Missing, Last
  <2>5. KeyFiles[next] \in Contents(archive) => KeyFiles[next] \in exec'
    BY <1>1, <2>1
  <2>6. \A i \in 1 .. next : KeyFiles[i] \in Contents(archive) => KeyFiles[i] \in exec'
    BY <1>0, <1>2, <2>1, <2>2, <2>5 DEF Done
  <2>7. Done'
    BY <1>0, <1>2, <2>1, <2>2, <2>6 DEF Done, StagedIsComplete, Contents
  <2>8. Safe'
    BY <1>0, <2>1 DEF Safe, UnsafeExtractsNothing
  <2> QED
    BY <2>1, <2>3, <2>4, <2>7, <2>8
<1>3. CASE next = Len(KeyFiles) + 1
  <2>1. pc' = "booting" /\ result' = "staged" /\ UNCHANGED <<next, exec>>
    BY <1>0, <1>3 DEF Chmod, Return
  <2>2. Complete
    BY <1>0, <1>1, <1>3 DEF Done, Complete
  <2>3. Complete' /\ tarball' = "absent"
    BY <1>0, <2>1, <2>2 DEF Complete, Contents, Unpacked
  <2>4. Shape'
    BY <1>0, <2>1 DEF Shape, Last
  <2>5. Unpacked' /\ Missing' /\ Done' /\ Safe'
    BY <1>0, <2>1, <2>3 DEF Unpacked, Missing, Done, Safe, StagedIsComplete, UnsafeExtractsNothing, Last
  <2> QED
    BY <2>2, <2>4, <2>5
<1> QED
  BY <1>0, <1>2, <1>3

LEMMA NextStage == StageInv /\ [Next]_vars => StageInv'
<1> SUFFICES ASSUME StageInv, [Next]_vars PROVE StageInv'
  OBVIOUS
<1> USE DEF StageInv, Done, Safe, StagedIsComplete, UnsafeExtractsNothing
<1>0. \A i \in 1 .. Last : archive.order[i] \in Members
  BY DEF Shape, Last
<1>1. CASE Start \/ Skip
  BY <1>1 DEF Start, Skip, Return, fs, Shape, Unpacked, Missing, is_staged, Last
<1>2. CASE Download \/ Downloaded
  BY <1>2 DEF Download, Downloaded, GoTo, Shape, Unpacked, Missing, is_staged, Last
<1>3. CASE CheckMembers
  <2>1. CASE archive.safe
    BY <1>3, <2>1, CardinalityNat
    DEF CheckMembers, GoTo, fs, Shape, Unpacked, Missing, is_staged, Last
  <2>2. CASE ~archive.safe
    BY <1>3, <2>2 DEF CheckMembers, Raise, fs, Shape, Unpacked, Missing, is_staged, Last
  <2> QED
    BY <2>1, <2>2
<1>4. CASE ExtractOpen \/ ExtractFill \/ Chmod
  BY <1>4, OpenStage, FillStage, ChmodStage
<1>5. CASE Unlink
  <2>1. Last \in Nat /\ next = Last + 1
    BY <1>5 DEF Unlink, Shape, Unpacked, Last
  <2> QED
    BY <1>5, <2>1 DEF Unlink, GoTo, Shape, Unpacked, Missing, is_staged, Last
<1>6. CASE Verify
  <2>1. CASE is_staged
    BY <1>6, <2>1, CardinalityNat
    DEF Verify, GoTo, fs, Shape, Unpacked, Missing, is_staged, Last
  <2>2. CASE ~is_staged
    BY <1>6, <2>2 DEF Verify, Raise, fs, Shape, Unpacked, Missing, is_staged, Last
  <2> QED
    BY <2>1, <2>2
<1>7. CASE Fail
  BY <1>7, FailuresAssumption
  DEF Fail, fs, Shape, Unpacked, Missing, is_staged, Last, FailuresAssumption
<1>8. CASE Runs \/ UNCHANGED vars
  BY <1>8 DEF Runs, vars, Shape, Unpacked, Missing, is_staged, Last, Complete, Contents
<1>9. CASE Launch
  BY <1>9 DEF Launch, fs, Shape, Unpacked, Missing, is_staged, Last, Complete, Contents
<1> QED
  BY <1>1, <1>2, <1>3, <1>4, <1>5, <1>6, <1>7, <1>8, <1>9 DEF Next, Boot

LEMMA StageInvariant == Spec => []StageInv
  BY InitStage, NextStage, PTL DEF Spec

(* The steps of stage_binaries, and the states a file can be in.            *)
THEOREM TypeCorrect == Spec => []TypeOK
<1>1. StageInv => TypeOK
  BY DEF StageInv, Shape, TypeOK
<1> QED
  BY StageInvariant, <1>1, PTL

(* A staging that returns True has left nothing out.                        *)
THEOREM StagedMeansComplete == Spec => []StagedIsComplete
<1>1. StageInv => StagedIsComplete
  BY DEF StageInv, Done
<1> QED
  BY StageInvariant, <1>1, PTL

(* Nothing of an unsafe archive is extracted.                               *)
THEOREM UnsafeStaysOut == Spec => []UnsafeExtractsNothing
<1>1. StageInv => UnsafeExtractsNothing
  BY DEF StageInv, Safe
<1> QED
  BY StageInvariant, <1>1, PTL

-----------------------------------------------------------------------------
(* The marker is opened once only, and what comes before it was filled by   *)
(* the same attempt: later ones find the marker and leave bin/ alone.       *)
LEMMA NextVouches ==
    StageInv /\ MarkerVouchesForEarlier /\ [Next]_vars => MarkerVouchesForEarlier'
<1> SUFFICES ASSUME StageInv, MarkerVouchesForEarlier, [Next]_vars
             PROVE  MarkerVouchesForEarlier'
  OBVIOUS
<1>0. archive' = archive /\ DOMAIN archive.order = 1 .. Last /\ Last \in Nat
  <2>1. archive' = archive
    BY DEF Next, Boot, Start, Skip, Download, Downloaded, CheckMembers, ExtractOpen, ExtractFill,
       Unlink, Verify, Chmod, Launch, Fail, Runs, GoTo, Raise, Return, vars
  <2> QED
    BY <2>1 DEF StageInv, Shape, Last
<1> SUFFICES ASSUME NEW k \in 1 .. Last, archive.order[k] = Marker, is_staged',
                    NEW i \in 1 .. k - 1
             PROVE  file'[archive.order[i]] = "whole"
  BY <1>0 DEF MarkerVouchesForEarlier
<1>1. i \in 1 .. Last /\ archive.order[i] \in Members
  BY <1>0 DEF StageInv, Shape, Last
<1>2. is_staged => file[archive.order[i]] = "whole"
  BY <1>0 DEF MarkerVouchesForEarlier
<1>3. CASE ExtractOpen
  <2>1. /\ file' = [file EXCEPT ![Member] = "partial"] /\ pc = "extract"
        /\ next \in 1 .. Last /\ Member = archive.order[next] /\ Member \in Members
    BY <1>0, <1>3 DEF ExtractOpen, Member, StageInv, Shape, Last
  <2>2. CASE is_staged
    <3>1. file[Member] = "absent"
      BY <1>3, <2>2, OpenStage
    <3> QED
      BY <1>1, <1>2, <2>1, <2>2, <3>1 DEF StageInv, Shape
  <2>3. CASE ~is_staged
    <3>1. Member = Marker
      BY <2>1, <2>3 DEF is_staged, StageInv, Shape
    <3>2. next = k
      BY <2>1, <3>1 DEF StageInv, Shape, Last
    <3>3. file[archive.order[i]] = "whole" /\ archive.order[i] # Member
      BY <1>0, <1>1, <2>1, <3>2 DEF StageInv, Unpacked, Shape, Last
    <3> QED
      BY <1>1, <2>1, <3>3 DEF StageInv, Shape
  <2> QED
    BY <2>2, <2>3
<1>4. CASE ExtractFill
  <2>1. file' = [file EXCEPT ![Member] = "whole"] /\ (is_staged' <=> is_staged)
    BY <1>4, FillStage DEF ExtractFill
  <2> QED
    BY <1>1, <1>2, <2>1 DEF StageInv, Shape
<1>5. ASSUME file' = file
      PROVE  file'[archive.order[i]] = "whole"
  BY <1>2, <1>5 DEF is_staged
<1> QED
  BY <1>3, <1>4, <1>5
  DEF Next, Boot, Start, Skip, Download, Downloaded, CheckMembers, Unlink, Verify, Chmod, Launch, Fail,
      Runs, fs, vars

(* Every member that the archive lists before the marker is whole once the  *)
(* marker is there, for every archive and any number of failures.           *)
THEOREM MarkerVouches == Spec => []MarkerVouchesForEarlier
<1>1. Init => MarkerVouchesForEarlier
  BY DEF Init, MarkerVouchesForEarlier, is_staged
<1> QED
  BY StageInvariant, NextVouches, <1>1, PTL DEF Spec

-----------------------------------------------------------------------------
LEMMA InitBundle == Init => Abstract!Init
  BY DEF Init, Abstract!Init, is_staged

(* Every step of the staging is a step of Bundle, or none.                  *)
LEMMA StepBundle == StageInv /\ [Next]_vars => [Abstract!Next]_(Abstract!bundleVars)
<1> SUFFICES ASSUME StageInv, [Next]_vars PROVE [Abstract!Next]_(Abstract!bundleVars)
  OBVIOUS
<1> USE DEF Abstract!bundleVars
<1>0. pc \notin {"down", "booting", "running"} => result = "none"
  BY DEF StageInv, Shape
<1>1. ASSUME UNCHANGED <<archive, file, exec>>
      PROVE  (is_staged' <=> is_staged) /\ (Complete' <=> Complete)
  BY <1>1 DEF is_staged, Complete, Contents
<1>2. CASE Start
  BY <1>1, <1>2 DEF Start, fs, Abstract!Next, Abstract!Call
<1>3. CASE Skip
  BY <1>1, <1>3 DEF Skip, Return, fs, Abstract!Next, Abstract!Skip
<1>4. CASE Download
  BY <1>0, <1>1, <1>4 DEF Download, GoTo, Abstract!Next, Abstract!Begin
<1>5. CASE Downloaded
  BY <1>1, <1>5 DEF Downloaded, GoTo
<1>6. CASE CheckMembers
  BY <1>1, <1>6 DEF CheckMembers, GoTo, Raise, fs, Abstract!Next, Abstract!Abandon
<1>7. CASE ExtractOpen
  <2>1. /\ Member \in Contents(archive) /\ Member \in Members /\ archive' = archive
        /\ file' = [file EXCEPT ![Member] = "partial"] /\ file \in [Members -> {"absent", "partial", "whole"}]
        /\ pc = "extract" /\ pc' = "copy" /\ result' = result
    BY <1>7 DEF ExtractOpen, GoTo, Member, Contents, StageInv, Shape
  <2>2. ~Complete' /\ (is_staged => ~Complete /\ is_staged')
    BY <1>7, <2>1, OpenStage DEF Complete, Contents, is_staged
  <2> QED
    BY <2>1, <2>2 DEF Abstract!Next, Abstract!Progress
<1>8. CASE ExtractFill
  <2>1. ~Complete /\ (is_staged' <=> is_staged)
    BY <1>8, FillStage DEF Complete
  <2> QED
    BY <1>8, <2>1 DEF ExtractFill, GoTo, Abstract!Next, Abstract!Progress
<1>9. CASE Unlink
  BY <1>1, <1>9 DEF Unlink, GoTo
<1>10. CASE Verify
  BY <1>1, <1>10 DEF Verify, GoTo, Raise, fs, Abstract!Next, Abstract!Abandon
<1>11. CASE Chmod
  <2>1. /\ pc = "chmod" /\ UNCHANGED <<archive, file>> /\ (is_staged' <=> is_staged) /\ is_staged
    BY <1>11 DEF Chmod, GoTo, Return, is_staged, StageInv, Done
  <2>2. CASE pc' = "chmod"
    <3>1. exec \subseteq exec' /\ result' = result
      BY <1>11, <2>2 DEF Chmod, GoTo, Return
    <3>2. Complete => Complete'
      BY <2>1, <3>1 DEF Complete, Contents
    <3> QED
      BY <2>1, <2>2, <3>1, <3>2 DEF Abstract!Next, Abstract!Progress
  <2>3. CASE pc' = "booting"
    <3>1. result' = "staged" /\ exec' = exec
      BY <1>11, <2>3 DEF Chmod, GoTo, Return
    <3>2. Complete /\ Complete'
      BY <1>1, <1>11, <2>1, <2>3, <3>1, ChmodStage
    <3> QED
      BY <2>1, <2>3, <3>1, <3>2 DEF Abstract!Next, Abstract!Finish
  <2> QED
    BY <1>11, <2>2, <2>3 DEF Chmod, GoTo, Return
<1>12. CASE Fail
  BY <1>1, <1>12 DEF Fail, fs, Abstract!Next, Abstract!Abandon
<1>13. CASE Launch
  BY <1>1, <1>13 DEF Launch, fs
<1>14. CASE Runs \/ UNCHANGED vars
  BY <1>1, <1>14 DEF Runs, vars
<1> QED
  BY <1>2, <1>3, <1>4, <1>5, <1>6, <1>7, <1>8, <1>9, <1>10, <1>11, <1>12, <1>13, <1>14 DEF Next, Boot

(* stage_binaries keeps the promise Boot relies on.                         *)
THEOREM StagingRefinement == Spec => ImplementsBundle
  BY StageInvariant, InitBundle, StepBundle, PTL DEF Spec, ImplementsBundle, Abstract!Spec
=============================================================================
