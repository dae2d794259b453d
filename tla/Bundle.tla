------------------------------- MODULE Bundle -------------------------------
(***************************************************************************)
(* What stage_binaries promises its caller about bin/, whatever ended the  *)
(* earlier calls of the same container.  Staging implements it; Boot calls *)
(* it.  The marker is the file whose presence counts as "staged".          *)
(***************************************************************************)
VARIABLES
    bundle,   \* "none": no marker; "marked": the marker, but not everything;
              \* "whole": every member, the key binaries executable
    attempt,  \* a call has looked for the marker and is staging
    returned  \* what the last call returned: "nothing", "skipped", "staged"

bundleVars == <<bundle, attempt, returned>>

Init == bundle = "none" /\ attempt = FALSE /\ returned = "nothing"

\* A call begins: whatever the one before it returned was to another process.
Call == ~attempt /\ returned' = "nothing" /\ UNCHANGED <<bundle, attempt>>

Skip ==
    /\ ~attempt /\ bundle # "none"
    /\ returned' = "skipped"
    /\ UNCHANGED <<bundle, attempt>>

Begin ==
    /\ ~attempt /\ bundle = "none" /\ returned = "nothing"
    /\ attempt' = TRUE
    /\ UNCHANGED <<bundle, returned>>

\* The marker may come before or after the rest; what is whole stays whole.
Progress ==
    /\ attempt /\ bundle # "whole"
    /\ bundle' \in {"marked", "whole"}
    /\ UNCHANGED <<attempt, returned>>

Finish ==
    /\ attempt /\ bundle = "whole"
    /\ attempt' = FALSE /\ returned' = "staged"
    /\ UNCHANGED bundle

\* It raises, or the process ends.
Abandon == attempt /\ attempt' = FALSE /\ UNCHANGED <<bundle, returned>>

Next == Call \/ Skip \/ Begin \/ Progress \/ Finish \/ Abandon

Spec == Init /\ [][Next]_bundleVars
=============================================================================
