------------------------------ MODULE Staging -------------------------------
(***************************************************************************)
(* lib/staging.py: the binary bundle is downloaded from a UC Volume and    *)
(* unpacked into bin/ before anything is launched from there.  The file    *)
(* system outlives the process, so a process that is killed, or that       *)
(* raises, half way leaves its files to the next start of the container.   *)
(*                                                                         *)
(* A member of the bundle is absent, partial (created, its data not all    *)
(* there) or whole, and carries an exec bit.  The archive is any order of  *)
(* any of the members: assemble_bundle.sh tars a directory, in the order   *)
(* the directory lists them.                                               *)
(***************************************************************************)
EXTENDS Naturals, Sequences, FiniteSets

CONSTANTS
    Members,       \* what a bundle may hold
    Marker,        \* marker_rel: the Grafana binary
    KeyFiles,      \* the binaries made executable, in the order of the loop
    Launched,      \* the binaries main() launches: stunnel, PgBouncer, Grafana
    MAX_FAILURES   \* bound: kills and failing calls

ASSUME MembersAssumption ==
    /\ IsFiniteSet(Members) /\ Marker \in Members
    /\ KeyFiles \in Seq(Members) /\ Len(KeyFiles) <= Cardinality(Members)
    /\ Marker \in Launched /\ \A b \in Launched : \E i \in DOMAIN KeyFiles : b = KeyFiles[i]
ASSUME FailuresAssumption == MAX_FAILURES \in Nat

VARIABLES
    archive,    \* the Volume's tarball: its order, exec bits and safety
    pc,         \* where stage_binaries is; "booting" after it has returned,
                \* "running" from the last launch on, "down" without a process
    next,       \* the member being extracted, or the key file in the loop
    file,       \* state of each member under bin/
    exec,       \* members whose exec bit is set
    tarball,    \* bin.tar.gz under bin/
    result,     \* what stage_binaries returned
    failures

vars == <<archive, pc, next, file, exec, tarball, result, failures>>
fs   == <<file, exec, tarball>>

Orders == {o \in UNION {[1 .. n -> Members] : n \in 0 .. Cardinality(Members)} :
              \A i, j \in DOMAIN o : o[i] = o[j] => i = j}

Contents(a) == {a.order[i] : i \in DOMAIN a.order}

Init ==
    /\ archive \in [order : Orders, exec : SUBSET Members, safe : BOOLEAN]
    /\ archive.exec \subseteq Contents(archive)
    /\ pc = "down" /\ next = 1 /\ result = "none"
    /\ file = [m \in Members |-> "absent"] /\ exec = {} /\ tarball = "absent"
    /\ failures = 0

is_staged == file[Marker] # "absent"

-----------------------------------------------------------------------------
GoTo(point) == pc' = point /\ UNCHANGED <<archive, result, failures>>

\* The process ends with an exception the caller does not catch.
Raise == pc' = "down" /\ UNCHANGED <<archive, result, failures>>

Return(r) == pc' = "booting" /\ result' = r /\ UNCHANGED <<archive, failures>>

Start ==
    /\ pc = "down"
    /\ pc' = "check" /\ result' = "none"
    /\ UNCHANGED <<archive, next, fs, failures>>

Skip ==
    /\ pc = "check" /\ is_staged
    /\ Return("skipped")
    /\ UNCHANGED <<next, fs>>

\* Seeded bug: a tarball left behind by an earlier attempt is not overwritten.
Download_KeepsOld ==
    /\ pc = "check" /\ ~is_staged
    /\ IF tarball = "absent" THEN tarball' = "partial" /\ GoTo("download")
                             ELSE tarball' = tarball /\ Raise
    /\ UNCHANGED <<next, file, exec>>

\* Seeded bug: the bundle is unpacked over a bin/ that is staged already.
Download_Always ==
    /\ pc = "check"
    /\ tarball' = "partial"
    /\ GoTo("download")
    /\ UNCHANGED <<next, file, exec>>

Download ==
    /\ pc = "check" /\ ~is_staged
    /\ tarball' = "partial"
    /\ GoTo("download")
    /\ UNCHANGED <<next, file, exec>>

Downloaded ==
    /\ pc = "download"
    /\ tarball' = "whole"
    /\ GoTo("members")
    /\ UNCHANGED <<next, file, exec>>

\* Seeded bug: members are checked one by one as they are extracted.
CheckMembers_Late ==
    /\ pc = "members"
    /\ GoTo("extract") /\ next' = 1
    /\ UNCHANGED fs

\* _assert_safe_members looks at every member before any is extracted.
CheckMembers ==
    /\ pc = "members"
    /\ IF archive.safe THEN GoTo("extract") /\ next' = 1
                       ELSE Raise /\ next' = next
    /\ UNCHANGED fs

Member == archive.order[next]

\* The file is opened (and truncated), then filled, then given its mode.
ExtractOpen ==
    /\ pc = "extract" /\ next \in DOMAIN archive.order
    /\ file' = [file EXCEPT ![Member] = "partial"]
    /\ GoTo("copy")
    /\ UNCHANGED <<next, exec, tarball>>

ExtractFill ==
    /\ pc = "copy"
    /\ file' = [file EXCEPT ![Member] = "whole"]
    /\ exec' = IF Member \in archive.exec THEN exec \cup {Member} ELSE exec \ {Member}
    /\ GoTo("extract") /\ next' = next + 1
    /\ UNCHANGED tarball

Unlink ==
    /\ pc = "extract" /\ next \notin DOMAIN archive.order
    /\ tarball' = "absent"
    /\ GoTo("verify")
    /\ UNCHANGED <<next, file, exec>>

Verify ==
    /\ pc = "verify"
    /\ IF is_staged THEN GoTo("chmod") /\ next' = 1
                    ELSE Raise /\ next' = next
    /\ UNCHANGED fs

\* Seeded bug: the exec bits are left as the archive had them.
Chmod_Skipped ==
    /\ pc = "chmod" /\ Return("staged")
    /\ UNCHANGED <<next, fs>>

\* Seeded bug: chmod without looking whether the bundle has the binary.
Chmod_Unguarded ==
    /\ pc = "chmod"
    /\ IF next \in DOMAIN KeyFiles
         THEN exec' = exec \cup {KeyFiles[next]} /\ next' = next + 1 /\ GoTo("chmod")
         ELSE Return("staged") /\ UNCHANGED <<next, exec>>
    /\ UNCHANGED <<file, tarball>>

\* The loop over the key binaries, and the return after it.
Chmod ==
    /\ pc = "chmod"
    /\ IF next \in DOMAIN KeyFiles
         THEN /\ exec' = IF file[KeyFiles[next]] # "absent"
                           THEN exec \cup {KeyFiles[next]} ELSE exec
              /\ next' = next + 1
              /\ GoTo("chmod")
         ELSE Return("staged") /\ UNCHANGED <<next, exec>>
    /\ UNCHANGED <<file, tarball>>

\* Popen raises for a binary that is not there or not executable.
Launch ==
    /\ pc = "booting"
    /\ pc' = IF Launched \subseteq exec THEN "running" ELSE "down"
    /\ UNCHANGED <<archive, next, fs, result, failures>>

\* A download or an extraction raises, or the process is killed: what it has
\* written stays.
Fail ==
    /\ pc # "down" /\ failures < MAX_FAILURES
    /\ failures' = failures + 1
    /\ pc' = "down"
    /\ UNCHANGED <<archive, next, fs, result>>

\* An application that has booted and is left to run.
Runs == pc = "running" /\ UNCHANGED vars

Boot ==
    \/ Start \/ Skip \/ Download \/ Downloaded \/ CheckMembers \/ ExtractOpen
    \/ ExtractFill \/ Unlink \/ Verify \/ Chmod \/ Launch

Next == Boot \/ Fail \/ Runs

Spec == Init /\ [][Next]_vars

\* The platform restarts a process that ended, and a process goes on.
FairSpec == Spec /\ WF_vars(Boot)

-----------------------------------------------------------------------------
(* Types: the steps up to the launch, and the states a file can be in.      *)
TypeOK ==
    /\ pc \in {"down", "check", "download", "members", "extract", "copy",
               "verify", "chmod", "booting", "running"}
    /\ next \in 1 .. Cardinality(Members) + 1
    /\ file \in [Members -> {"absent", "partial", "whole"}]
    /\ exec \subseteq {m \in Members : file[m] # "absent"}
    /\ tarball \in {"absent", "partial", "whole"}
    /\ result \in {"none", "skipped", "staged"}
    /\ failures \in 0 .. MAX_FAILURES

(***************************************************************************)
(* A stage_binaries that returns True has unpacked every member, made the  *)
(* key binaries executable and removed the tarball, whatever earlier       *)
(* attempts of the same container left behind.                             *)
(***************************************************************************)
Complete ==
    /\ \A m \in Contents(archive) : file[m] = "whole"
    /\ \A i \in DOMAIN KeyFiles : KeyFiles[i] \in Contents(archive) => KeyFiles[i] \in exec

StagedIsComplete ==
    pc \in {"booting", "running"} /\ result = "staged" => Complete /\ tarball = "absent"

(***************************************************************************)
(* staging.py:40-41: no member of an archive that reaches outside bin/ is  *)
(* extracted, not even the members that come before the offending one.     *)
(***************************************************************************)
UnsafeExtractsNothing == ~archive.safe => \A m \in Members : file[m] = "absent"

(***************************************************************************)
(* staging.py:83 "a half-staged bundle must not boot".                     *)
(***************************************************************************)
HalfStagedNeverBoots == pc = "running" => Complete

(***************************************************************************)
(* What the marker does vouch for, in a bin/ that any number of attempts   *)
(* has worked on: every member the archive lists before it is whole.  So   *)
(* an archive that lists its marker last would leave only the marker half  *)
(* written.                                                                *)
(***************************************************************************)
MarkerVouchesForEarlier ==
    \A k \in DOMAIN archive.order : archive.order[k] = Marker /\ is_staged =>
        \A i \in 1 .. k - 1 : file[archive.order[i]] = "whole"

(***************************************************************************)
(* Staging implements Bundle, which Boot relies on: a call that returns    *)
(* "staged" leaves a whole bundle and one that returns "skipped" found the *)
(* marker; a whole bundle is never taken apart again by a later attempt    *)
(* that unpacks over it; and only an attempt that saw no marker changes    *)
(* bin/ at all.                                                            *)
(***************************************************************************)
Abstract == INSTANCE Bundle WITH
    bundle   <- IF ~is_staged THEN "none" ELSE IF Complete THEN "whole" ELSE "marked",
    attempt  <- pc \in {"download", "members", "extract", "copy", "verify", "chmod"},
    returned <- IF result = "none" THEN "nothing" ELSE result

ImplementsBundle == Abstract!Spec

(***************************************************************************)
(* A start that failed before it opened the marker is made good by a later *)
(* one, whatever it left in bin/: a good bundle ends up complete and runs. *)
(* The alternative is a failure after the marker was opened.  The marker   *)
(* then hides what is missing, and a binary that is missing or not         *)
(* executable makes every later start of the container fail at its launch. *)
(***************************************************************************)
Good == archive.safe /\ Launched \subseteq Contents(archive)

RetryCompletes ==
    Good /\ pc = "down" /\ ~is_staged ~>
        (pc = "running" /\ Complete) \/ (pc = "down" /\ is_staged)
=============================================================================
