----------------------------- MODULE BootProofs -----------------------------
(***************************************************************************)
(* Proofs about Boot, for every set of environments and number of boots.   *)
(***************************************************************************)
EXTENDS Boot, EnvironmentProofs

USE BootAssumption DEF BootAssumption, LeftAlone

(* The process has done this step.                                          *)
Past(step) == \E i \in 1 .. at - 1 : Steps[i] = step

(* The order of main() as the proofs use it: what comes before what.        *)
LEMMA StepOrder ==
    ASSUME at \in DOMAIN Steps
    PROVE  /\ ~At("supervise") /\ running => at + 1 \in DOMAIN Steps
           /\ At("stunnel") => Past("stunnel.conf")
           /\ At("PgBouncer") => Past("pgbouncer.ini") /\ Past("userlist.txt")
           /\ At("Grafana") => /\ Past("lakebase.yaml") /\ Past("provider.yaml")
                               /\ Past("databricks.yaml")
           /\ \A c \in Children : At(c) => Past("lib_path") /\ Past("stage") /\ Past("preflight")
           /\ \A f \in Files : At(f) => /\ Past("endpoint") /\ Past("mint")
                                        /\ Past("client_pw") /\ Past("preflight")
           /\ At("preflight") => ~Past("preflight")
<1>1. at \in 1 .. 21
  BY DEF Steps
<1>2. ~At("supervise") /\ running => at + 1 \in DOMAIN Steps
  BY <1>1 DEF Steps, At
<1>3. /\ At("stunnel") => at = 11
      /\ At("PgBouncer") => at = 14
      /\ At("Grafana") => at = 18
      /\ \A c \in Children : At(c) => at > 10
      /\ \A f \in Files : At(f) => at > 9
  BY <1>1 DEF Steps, At, Children, Files
<1>4. /\ at > 8 => Past("stage") /\ Past("lib_path") /\ Past("endpoint") /\ Past("mint") /\ Past("preflight")
      /\ at > 9 => Past("client_pw")
      /\ at > 10 => Past("stunnel.conf")
      /\ at > 13 => Past("pgbouncer.ini") /\ Past("userlist.txt")
      /\ at > 17 => Past("lakebase.yaml") /\ Past("provider.yaml") /\ Past("databricks.yaml")
  <2>1. \A i \in 1 .. 21 : at > i => Past(Steps[i])
    BY <1>1 DEF Past
  <2>2. /\ Steps[4] = "stage" /\ Steps[5] = "lib_path" /\ Steps[6] = "endpoint"
        /\ Steps[7] = "mint" /\ Steps[8] = "preflight" /\ Steps[9] = "client_pw"
        /\ Steps[10] = "stunnel.conf" /\ Steps[12] = "pgbouncer.ini"
        /\ Steps[13] = "userlist.txt" /\ Steps[15] = "lakebase.yaml"
        /\ Steps[16] = "provider.yaml" /\ Steps[17] = "databricks.yaml"
    BY DEF Steps
  <2> QED
    BY <1>1, <2>1, <2>2
<1>5. At("preflight") => ~Past("preflight")
  BY <1>1 DEF Steps, At, Past
<1> QED
  BY <1>1, <1>2, <1>3, <1>4, <1>5

(* Advancing over a step makes it, and nothing else, past.                  *)
LEMMA AdvancePast ==
    ASSUME at \in DOMAIN Steps, Advance, NEW step
    PROVE  Past(step)' <=> Past(step) \/ Steps[at] = step
  BY DEF Advance, Past, Steps

(* The types, of what is a truth value and of the rest.                     *)
Flags == lib_path \in BOOLEAN /\ attempt \in BOOLEAN /\ running \in BOOLEAN

Shape ==
    /\ boot \in 0 .. MAX_BOOTS /\ at \in DOMAIN Steps
    /\ envs \in Seq(Environments) /\ Len(envs) = boot /\ privilege \in Answers
    /\ {ep, token, password} \subseteq {0, boot}
    /\ bundle \in {"none", "marked", "whole"}
    /\ returned \in {"nothing", "skipped", "staged"}
    /\ file \in [Files -> 0 .. boot \cup {Torn}]
    /\ children \subseteq Children /\ orphans \subseteq Children
    /\ ended_by \in {"none", "preflight", "exception", "signal", "supervisor"}

(* An ended process keeps nothing in memory and has no children.            *)
Dead ==
    /\ ~running => ep = 0 /\ token = 0 /\ password = 0 /\ children = {}
    /\ running => ended_by = "none"

(* What each step that is past has seen to.                                 *)
Seen ==
    /\ Past("lib_path") => lib_path
    /\ Past("endpoint") => ep = boot
    /\ Past("mint") => token = boot
    /\ Past("client_pw") => password = boot
    /\ Past("stage") /\ Set(env, "GRAFANA_BUNDLE_VOLUME_PATH") => bundle # "none"
    /\ \A f \in Files : Past(f) => file[f] = boot \/ (f = "databricks.yaml" /\ ~warehouse(env))

(* No child and no file of this boot before the preflight has passed.       *)
Privilege ==
    /\ running /\ Past("preflight") => Privileged
    /\ running /\ ~Past("preflight") => children = {}
    /\ running /\ ~Past("preflight") => \A f \in Files : file[f] # boot
    /\ ended_by = "preflight" => \A f \in Files : file[f] # boot

Staged == returned = "staged" => bundle = "whole"

(* The steps in groups that leave the same things alone.                    *)
LEMMA NextFlags == Flags /\ [Next]_vars => Flags'
<1> SUFFICES ASSUME Flags, [Next]_vars PROVE Flags'
  OBVIOUS
<1> USE DEF Flags, Bin!Call, Bin!Begin, Bin!Progress, Bin!Skip, Bin!Finish, Bin!Abandon,
            End, Gone, Advance, memory, bin, platform, Bin!bundleVars
<1>1. CASE Start
  BY <1>1, Zenon DEF Start
<1>2. CASE Proceed \/ StageSkipped
  BY <1>2, Zenon DEF Proceed, StageSkipped
<1>3. CASE Stage
  BY <1>3, Zenon DEF Stage
<1>4. CASE PrependLibPath \/ ResolveEndpoint \/ MintToken \/ ClientPassword
  BY <1>4, Zenon DEF PrependLibPath, ResolveEndpoint, MintToken, ClientPassword
<1>5. CASE Preflight
  BY <1>5, Zenon DEF Preflight
<1>6. CASE (\E f \in Files : WriteFile(f)) \/ (\E c \in Children : Launch(c))
  BY <1>6, Zenon DEF WriteFile, Launch
<1>7. CASE Raise \/ SignalDuringBoot \/ SupervisorEnds
  BY <1>7, Zenon DEF Raise, SignalDuringBoot, SupervisorEnds
<1>8. CASE ChildExits \/ NoMoreBoots \/ UNCHANGED vars
  BY <1>8, Zenon DEF ChildExits, NoMoreBoots, vars
<1> QED
  BY <1>1, <1>2, <1>3, <1>4, <1>5, <1>6, <1>7, <1>8 DEF Next

(* Bin's operations keep bundle and returned among their values.            *)
LEMMA BinShape ==
    ASSUME Shape, \/ Bin!Call \/ Bin!Begin \/ Bin!Progress \/ Bin!Skip
                  \/ Bin!Finish \/ Bin!Abandon \/ UNCHANGED bin
    PROVE  /\ bundle' \in {"none", "marked", "whole"}
           /\ returned' \in {"nothing", "skipped", "staged"}
  BY DEF Shape, bin, Bin!Call, Bin!Begin, Bin!Progress, Bin!Skip, Bin!Finish, Bin!Abandon

(* A file is rendered with values of this boot, or of none.                 *)
LEMMA RenderedShape ==
    ASSUME Shape, NEW f \in Files
    PROVE  Rendered(f) \in 0 .. boot
  BY DEF Shape, Rendered

(* A process that is cut short tears at most one file.                      *)
LEMMA CutShortShape ==
    ASSUME Shape, CutShort
    PROVE  /\ file' \in [Files -> 0 .. boot \cup {Torn}]
           /\ \A f \in Files : file'[f] = file[f] \/ file'[f] = Torn
  BY DEF Shape, CutShort

LEMMA NextShape == Shape /\ Dead /\ [Next]_vars => Shape' /\ Dead'
<1> SUFFICES ASSUME Shape, Dead, [Next]_vars PROVE Shape' /\ Dead'
  OBVIOUS
<1>0. Shape /\ Dead
  OBVIOUS
<1> USE DEF Advance, memory, platform, procs
<1>1. CASE Start
  <2>1. /\ boot' = boot + 1 /\ boot' \in 0 .. MAX_BOOTS /\ at' = 1 /\ at' \in DOMAIN Steps
        /\ running' = TRUE /\ ended_by' = "none"
        /\ ep' = 0 /\ token' = 0 /\ password' = 0 /\ UNCHANGED <<file, children, orphans>>
    BY <1>0, <1>1 DEF Start, Shape, Dead, Steps
  <2>2. envs' \in Seq(Environments) /\ Len(envs') = boot'
    BY <1>0, <1>1, <2>1 DEF Start, Shape
  <2>3. file' \in [Files -> 0 .. boot' \cup {Torn}]
    BY <1>0, <2>1 DEF Shape
  <2> QED
    BY <1>0, <1>1, <2>1, <2>2, <2>3, BinShape DEF Start, Shape, Dead
<1>2. CASE Proceed \/ StageSkipped
  BY <1>0, <1>2, StepOrder DEF Proceed, StageSkipped, At, bin, Shape, Dead
<1>3. CASE Stage
  <2>1. at' \in DOMAIN Steps /\ UNCHANGED <<running, ended_by, memory, platform, file, procs>>
    BY <1>0, <1>3, StepOrder DEF Stage, At, Shape
  <2> QED
    BY <1>0, <1>3, <2>1, BinShape DEF Stage, Shape, Dead
<1>4. CASE PrependLibPath \/ ResolveEndpoint \/ MintToken \/ ClientPassword
  BY <1>0, <1>4, StepOrder
  DEF PrependLibPath, ResolveEndpoint, MintToken, ClientPassword, At, bin, Shape, Dead
<1>5. ASSUME NEW how \in {"preflight", "exception", "signal", "supervisor"}, Gone(how),
             UNCHANGED platform, file' \in [Files -> 0 .. boot \cup {Torn}],
             children' = {}, orphans' \subseteq Children
      PROVE  Shape' /\ Dead'
  <2>1. at' \in DOMAIN Steps
    BY <1>5 DEF Gone, Steps
  <2> QED
    BY <1>0, <1>5, <2>1, BinShape DEF Gone, Shape, Dead
<1>6. CASE Preflight
  <2>1. CASE Privileged
    BY <1>0, <1>6, <2>1, StepOrder DEF Preflight, At, bin, Shape, Dead
  <2>2. CASE ~Privileged
    BY <1>0, <1>5, <1>6, <2>2 DEF Preflight, End, Shape
  <2> QED
    BY <2>1, <2>2
<1>7. CASE Raise \/ SignalDuringBoot
  BY <1>0, <1>5, <1>7, CutShortShape DEF Raise, SignalDuringBoot, End, Shape
<1>8. CASE SupervisorEnds
  BY <1>0, <1>5, <1>8 DEF SupervisorEnds, Shape
<1>9. ASSUME NEW f \in Files, WriteFile(f)
      PROVE  Shape' /\ Dead'
  <2>1. file' \in [Files -> 0 .. boot \cup {Torn}]
    BY <1>0, <1>9, RenderedShape DEF WriteFile, Shape
  <2> QED
    BY <1>0, <1>9, <2>1, StepOrder DEF WriteFile, At, bin, Shape, Dead, Files
<1>10. ASSUME NEW c \in Children, Launch(c)
       PROVE  Shape' /\ Dead'
  BY <1>0, <1>10, StepOrder DEF Launch, At, bin, Shape, Dead, Children
<1>11. CASE ChildExits
  BY <1>0, <1>11 DEF ChildExits, bin, Shape, Dead
<1>12. CASE NoMoreBoots \/ UNCHANGED vars
  BY <1>0, <1>12 DEF NoMoreBoots, vars, bin, Shape, Dead
<1> QED
  BY <1>1, <1>2, <1>3, <1>4, <1>6, <1>7, <1>8, <1>9, <1>10, <1>11, <1>12 DEF Next

-----------------------------------------------------------------------------
BootInv == Shape /\ Dead /\ Seen /\ Privilege /\ Staged

(* At the first step nothing is past.                                       *)
LEMMA FirstPast ==
    ASSUME at' = 1, NEW step
    PROVE  ~Past(step)'
  BY DEF Past

(* A step that stays where it is makes nothing past.                        *)
LEMMA SamePast ==
    ASSUME UNCHANGED at, NEW step
    PROVE  Past(step)' <=> Past(step)
  BY DEF Past

LEMMA NextStaged == Staged /\ [Next]_vars => Staged'
<1> SUFFICES ASSUME Staged, [Next]_vars PROVE Staged'
  OBVIOUS
<1> USE DEF Staged
<1>1. ASSUME \/ Bin!Call \/ Bin!Begin \/ Bin!Progress \/ Bin!Skip
             \/ Bin!Finish \/ Bin!Abandon \/ UNCHANGED bin
      PROVE  Staged'
  BY <1>1 DEF bin, Bin!Call, Bin!Begin, Bin!Progress, Bin!Skip, Bin!Finish, Bin!Abandon
<1>2. CASE Start \/ Proceed \/ StageSkipped \/ Stage
  BY <1>1, <1>2 DEF Start, Proceed, StageSkipped, Stage
<1>3. CASE PrependLibPath \/ ResolveEndpoint \/ MintToken \/ ClientPassword
  BY <1>1, <1>3 DEF PrependLibPath, ResolveEndpoint, MintToken, ClientPassword
<1>4. CASE Preflight \/ Raise \/ SignalDuringBoot \/ SupervisorEnds
  BY <1>1, <1>4 DEF Preflight, Raise, SignalDuringBoot, SupervisorEnds, End, Gone
<1>5. CASE (\E f \in Files : WriteFile(f)) \/ (\E c \in Children : Launch(c))
  BY <1>1, <1>5 DEF WriteFile, Launch
<1>6. CASE ChildExits \/ NoMoreBoots \/ UNCHANGED vars
  BY <1>1, <1>6 DEF ChildExits, NoMoreBoots, vars, bin
<1> QED
  BY <1>2, <1>3, <1>4, <1>5, <1>6 DEF Next

(* Only a child or a file of a boot that passed the preflight appears.      *)
LEMMA NextPrivilege == BootInv /\ [Next]_vars => Privilege'
<1> SUFFICES ASSUME BootInv, [Next]_vars PROVE Privilege'
  OBVIOUS
<1>0. Shape /\ Dead /\ Privilege
  BY DEF BootInv
<1> USE DEF memory, platform, procs, Privileged
<1>1. CASE Start
  <2>1. \A f \in Files : file[f] # boot + 1
    BY <1>0 DEF Shape
  <2> QED
    BY <1>0, <1>1, <2>1, FirstPast DEF Start, Dead, Privilege
<1>2. ASSUME Advance, running, Steps[at] # "preflight", UNCHANGED <<privilege, boot, children, file>>
      PROVE  Privilege'
  <2>1. Past("preflight")' <=> Past("preflight")
    BY <1>0, <1>2, AdvancePast DEF Shape
  <2> QED
    BY <1>0, <1>2, <2>1 DEF Advance, Privilege
<1>3. CASE Proceed \/ StageSkipped \/ PrependLibPath \/ ResolveEndpoint \/ MintToken \/ ClientPassword
  BY <1>2, <1>3
  DEF Proceed, StageSkipped, PrependLibPath, ResolveEndpoint, MintToken, ClientPassword, At
<1>4. CASE Stage
  <2>1. CASE Advance
    BY <1>2, <1>4, <2>1 DEF Stage, At
  <2>2. CASE UNCHANGED <<at, running, ended_by>>
    BY <1>0, <1>4, <2>2, SamePast DEF Stage, Privilege
  <2> QED
    BY <1>4, <2>1, <2>2 DEF Stage
<1>5. CASE Preflight
  <2>1. ~Past("preflight") /\ running
    BY <1>0, <1>5, StepOrder DEF Preflight, At, Shape
  <2>2. CASE Privileged
    BY <1>0, <1>5, <2>1, <2>2, AdvancePast DEF Preflight, Advance, Privilege, Shape, At, Dead
  <2>3. CASE ~Privileged
    BY <1>0, <1>5, <2>1, <2>3 DEF Preflight, End, Gone, Privilege
  <2> QED
    BY <2>2, <2>3
<1>6. CASE Raise \/ SignalDuringBoot \/ SupervisorEnds
  BY <1>6 DEF Raise, SignalDuringBoot, SupervisorEnds, End, Gone, Privilege
<1>7. ASSUME NEW f \in Files, WriteFile(f)
      PROVE  Privilege'
  <2>1. Past("preflight") /\ running /\ Steps[at] # "preflight" /\ Advance
    BY <1>0, <1>7, StepOrder DEF WriteFile, At, Shape, Files
  <2>2. Past("preflight")'
    BY <1>0, <2>1, AdvancePast DEF Shape
  <2> QED
    BY <1>0, <1>7, <2>1, <2>2 DEF WriteFile, Privilege, Dead, Advance
<1>8. ASSUME NEW c \in Children, Launch(c)
      PROVE  Privilege'
  <2>1. Past("preflight") /\ running /\ Steps[at] # "preflight" /\ Advance
    BY <1>0, <1>8, StepOrder DEF Launch, At, Shape, Children
  <2>2. Past("preflight")'
    BY <1>0, <2>1, AdvancePast DEF Shape
  <2> QED
    BY <1>0, <1>8, <2>1, <2>2 DEF Launch, Privilege, Dead, Advance
<1>9. CASE ChildExits
  BY <1>0, <1>9, SamePast DEF ChildExits, Privilege
<1>10. CASE NoMoreBoots \/ UNCHANGED vars
  BY <1>0, <1>10, SamePast DEF NoMoreBoots, vars, Privilege
<1> QED
  BY <1>1, <1>3, <1>4, <1>5, <1>6, <1>7, <1>8, <1>9, <1>10 DEF Next

(* The environment of a boot does not change while it runs.                 *)
LEMMA SameEnv ==
    ASSUME UNCHANGED platform
    PROVE  /\ warehouse(env)' <=> warehouse(env)
           /\ Set(env, "GRAFANA_BUNDLE_VOLUME_PATH")' <=> Set(env, "GRAFANA_BUNDLE_VOLUME_PATH")
  BY DEF platform, env, warehouse, Set, Get

(* Each step sees to what is expected of it once it is past, and no later   *)
(* one undoes that.                                                         *)
LEMMA NextSeen == BootInv /\ [Next]_vars => Seen'
<1> SUFFICES ASSUME BootInv, [Next]_vars PROVE Seen'
  OBVIOUS
<1>0. Shape /\ Seen
  BY DEF BootInv
<1>past. ASSUME Advance, NEW step
         PROVE  Past(step)' <=> Past(step) \/ Steps[at] = step
  BY <1>0, <1>past, AdvancePast DEF Shape
<1> USE DEF memory, platform, procs
<1>1. ASSUME at' = 1
      PROVE  Seen'
  BY <1>1, FirstPast DEF Seen
<1>2. CASE Start \/ SignalDuringBoot \/ Raise \/ SupervisorEnds
  BY <1>1, <1>2 DEF Start, SignalDuringBoot, Raise, SupervisorEnds, End, Gone
<1>3. ASSUME Advance, UNCHANGED <<memory, platform, file, bundle>>,
             Steps[at] \in {"config", "client", "secret_key", "refresher", "handlers",
                            "preflight"} \cup Children
      PROVE  Seen'
  <2>1. \A step \in {"lib_path", "endpoint", "mint", "client_pw", "stage"} \cup Files :
           Past(step)' <=> Past(step)
    BY <1>3, <1>past DEF Children, Files
  <2> QED
    BY <1>0, <1>3, <2>1, SameEnv DEF Seen, Files
<1>4. CASE Proceed
  BY <1>3, <1>4 DEF Proceed, At, bin
<1>5. CASE StageSkipped
  BY <1>0, <1>5, <1>past, SameEnv DEF StageSkipped, At, bin, Seen, Files
<1>6. CASE Stage
  <2>1. UNCHANGED <<memory, platform, file>> /\ Steps[at] = "stage"
    BY <1>6 DEF Stage, At
  <2>2. CASE (Bin!Begin \/ Bin!Progress) /\ UNCHANGED <<at, running, ended_by>>
    BY <1>0, <2>1, <2>2, SamePast, SameEnv DEF Bin!Begin, Bin!Progress, Seen
  <2>3. CASE (Bin!Skip \/ Bin!Finish) /\ Advance
    <3>1. bundle' # "none"
      BY <2>3 DEF Bin!Skip, Bin!Finish
    <3> QED
      BY <1>0, <1>past, <2>1, <2>3, <3>1, SameEnv DEF Seen, Files
  <2> QED
    BY <1>6, <2>2, <2>3 DEF Stage
<1>7. CASE PrependLibPath
  BY <1>0, <1>7, <1>past, SameEnv DEF PrependLibPath, At, bin, Seen, Files
<1>8. CASE ResolveEndpoint
  BY <1>0, <1>8, <1>past, SameEnv DEF ResolveEndpoint, At, bin, Seen, Files
<1>9. CASE MintToken
  BY <1>0, <1>9, <1>past, SameEnv DEF MintToken, At, bin, Seen, Files
<1>10. CASE ClientPassword
  BY <1>0, <1>10, <1>past, SameEnv DEF ClientPassword, At, bin, Seen, Files
<1>11. CASE Preflight
  BY <1>1, <1>3, <1>11 DEF Preflight, At, bin, End, Gone
<1>12. ASSUME NEW f \in Files, WriteFile(f)
       PROVE  Seen'
  <2>1. Advance /\ Steps[at] = f /\ UNCHANGED <<memory, platform, bin>>
    BY <1>12 DEF WriteFile, At
  <2>2. Past("endpoint") /\ Past("mint") /\ Past("client_pw")
    BY <1>0, <1>12, StepOrder DEF WriteFile, Shape
  <2>3. Rendered(f) = boot
    BY <1>0, <2>2 DEF Rendered, Seen, Files
  <2>4. /\ file'[f] = boot \/ (f = "databricks.yaml" /\ ~warehouse(env))
        /\ \A g \in Files \ {f} : file'[g] = file[g]
    BY <1>0, <1>12, <2>3 DEF WriteFile, Shape
  <2>5. \A step : step # f => (Past(step)' <=> Past(step))
    BY <1>past, <2>1
  <2>6. f \notin {"lib_path", "endpoint", "mint", "client_pw", "stage"}
    BY DEF Files
  <2>7. \A g \in Files : Past(g)' =>
           file'[g] = boot' \/ (g = "databricks.yaml" /\ ~warehouse(env)')
    BY <1>0, <2>1, <2>4, <2>5, SameEnv DEF Seen
  <2> QED
    BY <1>0, <2>1, <2>5, <2>6, <2>7, SameEnv DEF Seen, bin
<1>13. ASSUME NEW c \in Children, Launch(c)
       PROVE  Seen'
  BY <1>3, <1>13 DEF Launch, At, bin
<1>14. CASE ChildExits
  BY <1>0, <1>14, SamePast, SameEnv DEF ChildExits, bin, Seen
<1>15. CASE NoMoreBoots \/ UNCHANGED vars
  BY <1>0, <1>15, SamePast, SameEnv DEF NoMoreBoots, vars, bin, Seen
<1> QED
  BY <1>2, <1>4, <1>5, <1>6, <1>7, <1>8, <1>9, <1>10, <1>11, <1>12, <1>13, <1>14, <1>15 DEF Next

-----------------------------------------------------------------------------
LEMMA InitBoot == Init => Flags /\ BootInv
<1> SUFFICES ASSUME Init PROVE Flags /\ BootInv
  OBVIOUS
<1>1. Flags
  BY Zenon DEF Init, Flags
<1>2. Shape
  BY DEF Init, Shape, Steps
<1>3. \A step : ~Past(step)
  BY DEF Init, Past
<1> QED
  BY <1>1, <1>2, <1>3 DEF Init, BootInv, Dead, Seen, Privilege, Staged

LEMMA BootInvariant == Spec => [](Flags /\ BootInv)
<1>1. BootInv /\ [Next]_vars => BootInv'
  BY NextShape, NextSeen, NextPrivilege, NextStaged DEF BootInv
<1> QED
  BY InitBoot, NextFlags, <1>1, PTL DEF Spec

(* Contents are boots that have happened, or a torn file, and so on.        *)
THEOREM TypeCorrect == Spec => []TypeOK
<1>1. Flags /\ BootInv => TypeOK
  BY DEF Flags, BootInv, Shape, TypeOK
<1> QED
  BY BootInvariant, <1>1, PTL

(* A principal without CREATE starts nothing and writes nothing.            *)
THEOREM PreflightGuards == Spec => []UnprivilegedRunsNothing
<1>1. BootInv => UnprivilegedRunsNothing
  BY DEF BootInv, Privilege, UnprivilegedRunsNothing
<1> QED
  BY BootInvariant, <1>1, PTL

(* Whatever earlier boots left, a child is launched only when all it reads  *)
(* is whole and of this boot, but for a datasource left by an earlier one.  *)
THEOREM LaunchedWhenReady == Spec => LaunchesAreReady
<1> DEFINE Launched == \A c \in Children : c \in children' \ children => Ready(c)
<1>1. BootInv /\ [Next]_vars => [Launched]_vars
  <2> SUFFICES ASSUME BootInv, [Next]_vars, NEW c \in Children, c \in children' \ children
               PROVE  Ready(c)
    OBVIOUS
  <2>1. Launch(c)
    BY DEF Next, Start, Proceed, StageSkipped, Stage, PrependLibPath, ResolveEndpoint, MintToken,
           Preflight, ClientPassword, WriteFile, Launch, Raise, SignalDuringBoot, SupervisorEnds,
           ChildExits, NoMoreBoots, End, procs, vars
  <2>2. /\ At(c) /\ Past("lib_path") /\ Past("stage") /\ Shape /\ Seen /\ Staged
    BY <2>1, StepOrder DEF Launch, BootInv, Shape
  <2>3. \A f \in Reads(c) : Past(f) /\ f \in Files
    BY <2>2, StepOrder DEF Shape, Reads, Files, Children
  <2> QED
    BY <2>2, <2>3 DEF Seen, Staged, Ready
<1> QED
  BY BootInvariant, <1>1, PTL DEF Spec, LaunchesAreReady

-----------------------------------------------------------------------------
(* Of two merged environments the left one wins, and taking out the service *)
(* principal's variables leaves the others.                                 *)
LEMMA ComputedWins ==
    ASSUME NEW e, NEW b, NEW k \in DOMAIN build_env(e, b), k \notin ServicePrincipal
    PROVE  grafana_env(e, b)[k] = build_env(e, b)[k]
<1>1. k \in DOMAIN Merged(e, b) /\ Merged(e, b)[k] = build_env(e, b)[k]
  BY DEF Merged, Updated
<1> QED
  BY <1>1 DEF grafana_env, Restrict

LEMMA AuthWins ==
    ASSUME NEW e, NEW b, NEW k \in DOMAIN auth_env(auth_proxy(e))
    PROVE  k \in DOMAIN build_env(e, b) /\ build_env(e, b)[k] = auth_env(auth_proxy(e))[k]
  BY DEF build_env, Updated

LEMMA ServerWins ==
    ASSUME NEW e, NEW b, NEW k \in DOMAIN server_env(e, b), k \notin DOMAIN auth_env(auth_proxy(e))
    PROVE  k \in DOMAIN build_env(e, b) /\ build_env(e, b)[k] = server_env(e, b)[k]
  BY DEF build_env, Updated

(* Grafana is the last to be launched: all it depends on was done before.   *)
LEMMA GrafanaIsLast ==
    ASSUME at \in DOMAIN Steps, Past("Grafana")
    PROVE  /\ Past("config") /\ Past("mint") /\ Past("client_pw")
           /\ \A f \in Files : Past(f)
<1>1. at \in 1 .. 21 /\ at > 18
  BY DEF Steps, Past
<1>2. \A i \in 1 .. 18 : Past(Steps[i])
  BY <1>1 DEF Past
<1>3. /\ Steps[1] = "config" /\ Steps[7] = "mint" /\ Steps[9] = "client_pw"
      /\ Steps[10] = "stunnel.conf" /\ Steps[12] = "pgbouncer.ini"
      /\ Steps[13] = "userlist.txt" /\ Steps[15] = "lakebase.yaml"
      /\ Steps[16] = "provider.yaml" /\ Steps[17] = "databricks.yaml"
  BY DEF Steps
<1> QED
  BY <1>2, <1>3 DEF Files

(* A child's process is past its launch, and has loaded its configuration.  *)
Parent ==
    /\ \A c \in children : running /\ Past(c)
    /\ running => boot > 0 /\ (Past("config") => Loads(env))

LEMMA SameLoads ==
    ASSUME UNCHANGED platform
    PROVE  (boot > 0)' = (boot > 0) /\ (Loads(env)' <=> Loads(env))
  BY DEF platform, env

LEMMA NextParent == BootInv /\ Parent /\ [Next]_vars => Parent'
<1> SUFFICES ASSUME BootInv, Parent, [Next]_vars PROVE Parent'
  OBVIOUS
<1>0. Shape /\ Dead
  BY DEF BootInv
<1> USE DEF Parent, memory, platform, procs
<1>1. ASSUME children' = {}, running' = FALSE
      PROVE  Parent'
  BY <1>1
<1>2. CASE SignalDuringBoot \/ Raise \/ SupervisorEnds
  BY <1>1, <1>2 DEF SignalDuringBoot, Raise, SupervisorEnds, End, Gone
<1>3. CASE Start
  <2>1. children' = {} /\ at' = 1 /\ boot' > 0
    BY <1>0, <1>3 DEF Start, Dead, Shape
  <2> QED
    BY <2>1, FirstPast
<1>4. ASSUME Advance, children' \subseteq children \cup {Steps[at]}, running, UNCHANGED platform,
             Steps[at] = "config" => Loads(env)
      PROVE  Parent'
  <2>1. \A step : Past(step)' <=> Past(step) \/ Steps[at] = step
    BY <1>0, <1>4, AdvancePast DEF Shape
  <2>2. running' = running
    BY <1>4 DEF Advance
  <2> QED
    BY <1>4, <2>1, <2>2, SameLoads
<1>5. ASSUME UNCHANGED <<at, running>>, children' \subseteq children, UNCHANGED platform
      PROVE  Parent'
  BY <1>5, SamePast, SameLoads
<1>6. CASE Proceed
  BY <1>4, <1>6 DEF Proceed, At
<1>7. CASE StageSkipped \/ PrependLibPath \/ ResolveEndpoint \/ MintToken \/ ClientPassword
  BY <1>4, <1>7 DEF StageSkipped, PrependLibPath, ResolveEndpoint, MintToken, ClientPassword, At
<1>8. CASE Stage
  BY <1>4, <1>5, <1>8 DEF Stage, At
<1>9. CASE Preflight
  BY <1>1, <1>4, <1>9 DEF Preflight, End, Gone, At
<1>10. CASE (\E f \in Files : WriteFile(f)) \/ (\E c \in Children : Launch(c))
  BY <1>4, <1>10 DEF WriteFile, Launch, At, Files, Children
<1>11. CASE ChildExits \/ NoMoreBoots \/ UNCHANGED vars
  BY <1>5, <1>11 DEF ChildExits, NoMoreBoots, vars
<1> QED
  BY <1>2, <1>3, <1>6, <1>7, <1>8, <1>9, <1>10, <1>11 DEF Next

LEMMA ParentInvariant == Spec => [](BootInv /\ Parent)
<1>1. Init => Parent
  BY DEF Init, Parent
<1> QED
  BY BootInvariant, NextParent, <1>1, PTL DEF Spec

(* Everything Grafana depends on is of this boot, and its environment is    *)
(* one that load_config accepts.                                            *)
LEMMA AllOfThisBoot ==
    ASSUME BootInv, Parent, "Grafana" \in children
    PROVE  /\ token = boot /\ password = boot /\ boot \in 1 .. MAX_BOOTS
           /\ \A f \in Files : file[f] = boot \/ (f = "databricks.yaml" /\ ~warehouse(env))
           /\ env \in Environments /\ Loads(env)
<1>1. Past("Grafana") /\ running /\ Shape /\ Seen
  BY DEF BootInv, Parent
<1>2. /\ Past("config") /\ Past("mint") /\ Past("client_pw")
      /\ \A f \in Files : Past(f)
  BY <1>1, GrafanaIsLast DEF Shape
<1>3. boot \in 1 .. MAX_BOOTS
  BY <1>1 DEF Shape, Parent
<1>4. env \in Environments
  BY <1>1, <1>3 DEF Shape, env
<1> QED
  BY <1>1, <1>2, <1>3, <1>4 DEF Seen, Parent

(* A variable that is set is there.                                         *)
LEMMA SetIsThere ==
    ASSUME NEW e, NEW k, Set(e, k)
    PROVE  k \in DOMAIN e /\ Get(e, k) = e[k] /\ e[k] # <<>>
  BY DEF Set, Get

LEMMA RequiredIsThere ==
    ASSUME NEW e, Loads(e)
    PROVE  REQUIRED \subseteq DOMAIN e
  BY SetIsThere DEF Loads

(* What is quoted from an environment is read as it stands there.           *)
LEMMA EnvironmentQuoted ==
    ASSUME NEW e \in Environments, NEW k \in DOMAIN e
    PROVE  Unquoted(yq(e[k])) = e[k]
<1>1. e[k] \in Seq(Range(e[k]))
  BY EnvironmentsAssumption
<1> QED
  BY <1>1, QuotingRoundTrip

LEMMA PasswordQuoted == \A b : Unquoted(yq(client_pw(b))) = client_pw(b)
<1> SUFFICES ASSUME NEW b PROVE Unquoted(yq(client_pw(b))) = client_pw(b)
  OBVIOUS
<1>1. client_pw(b) \in Seq({"password", ToString(b)})
  BY DEF client_pw
<1> QED
  BY <1>1, QuotingRoundTrip

LEMMA StoreVariables ==
    ASSUME NEW e, NEW b
    PROVE  \A k \in {"GF_DATABASE_HOST", "GF_DATABASE_NAME", "GF_DATABASE_USER",
                     "GF_DATABASE_PASSWORD"} : grafana_env(e, b)[k] = server_env(e, b)[k]
<1>1. \A k \in {"GF_DATABASE_HOST", "GF_DATABASE_NAME", "GF_DATABASE_USER",
                "GF_DATABASE_PASSWORD"} :
         /\ k \in DOMAIN server_env(e, b) /\ k \notin ServicePrincipal
         /\ k \notin DOMAIN auth_env(auth_proxy(e))
  BY DEF server_env, ServicePrincipal, auth_env
<1> QED
  BY <1>1, ServerWins, ComputedWins

(* Grafana's own store and its datasource are answered all the way to       *)
(* Lakebase, for names that PgBouncer takes unquoted.                       *)
THEOREM LakebaseIsReached == Spec => []GrafanaReachesLakebase
<1>1. BootInv /\ Parent => GrafanaReachesLakebase
  <2> SUFFICES ASSUME BootInv, Parent, "Grafana" \in children, PlainNames(env)
               PROVE  StoreReached /\ DatasourceReached /\ Reloadable
    BY DEF GrafanaReachesLakebase
  <2>1. /\ token = boot /\ password = boot /\ env \in Environments /\ Loads(env)
        /\ \A f \in {"stunnel.conf", "pgbouncer.ini", "userlist.txt", "lakebase.yaml"} :
             file[f] = boot
    BY AllOfThisBoot DEF Files
  <2>2. /\ IniInForce = Ini(env, boot) /\ ListInForce = Userlist(env, boot)
        /\ ShimInForce = StunnelConf(env) /\ DataSource = LakebaseDatasource(env, boot)
        /\ GrafanaEnv = grafana_env(env, boot)
    BY <2>1 DEF IniInForce, ListInForce, ShimInForce, DataSource, GrafanaEnv, env
  <2> DEFINE db   == env["LAKEBASE_DATABASE_NAME"]
             user == env["LAKEBASE_DB_USER"]
  <2>plain. /\ AsKey(db) = db /\ AsValue(db) = db
            /\ AsValue(user) = user /\ AsListed(user) = user /\ AsDoubleQuoted(user) = user
    BY DEF PlainNames
  <2>secret. AsValue(Token(boot)) = Token(boot) /\ AsDoubleQuoted(client_pw(boot)) = client_pw(boot)
    BY SecretsAssumption, AllOfThisBoot
  <2>ini. /\ IniInForce = [listen_port |-> pgbouncer_port(env), db |-> db, dbname |-> db,
                           server_port |-> STUNNEL_PORT(env), server_user |-> user,
                           password |-> Token(boot), admin_users |-> user]
          /\ ListInForce = [user |-> user, password |-> client_pw(boot)]
          /\ Reconnected(env) = db
    BY <2>2, <2>plain, <2>secret DEF Ini, Userlist, Reconnected
  <2>3. StoreReached
    BY <2>1, <2>2, <2>ini, StoreVariables
    DEF StoreReached, Answered, server_env, StunnelConf
  <2>4. DatasourceReached
    <3>1. "LAKEBASE_DATABASE_NAME" \in DOMAIN env /\ "LAKEBASE_DB_USER" \in DOMAIN env
      BY <2>1, RequiredIsThere DEF REQUIRED
    <3>2. /\ Unquoted(DataSource.database) = env["LAKEBASE_DATABASE_NAME"]
          /\ Unquoted(DataSource.user) = env["LAKEBASE_DB_USER"]
          /\ Unquoted(DataSource.password) = client_pw(boot)
      BY <2>1, <2>2, <3>1, EnvironmentQuoted, PasswordQuoted DEF LakebaseDatasource
    <3>3. DataSource.port = pgbouncer_port(env)
      BY <2>2 DEF LakebaseDatasource
    <3> QED
      BY <2>1, <2>2, <2>ini, <3>2, <3>3 DEF DatasourceReached, Answered, StunnelConf
  <2>5. Reloadable
    BY <2>ini DEF Reloadable
  <2> QED
    BY <2>3, <2>4, <2>5
<1> QED
  BY ParentInvariant, <1>1, PTL

(* Where each variable of Grafana's comes from: from the code, from another *)
(* variable, or it is the loopback password.                                *)
LEMMA WhereFrom ==
    ASSUME NEW e, NEW b, Loads(e), NEW k \in DOMAIN grafana_env(e, b)
    PROVE  \/ grafana_env(e, b)[k] \in Literals \cup {client_pw(b)}
           \/ \E v \in DOMAIN e \ ServicePrincipal : grafana_env(e, b)[k] = e[v]
<1>1. k \in DOMAIN Merged(e, b) \ ServicePrincipal /\ grafana_env(e, b)[k] = Merged(e, b)[k]
  BY DEF grafana_env, Restrict
<1>2. CASE k \in DOMAIN auth_env(auth_proxy(e))
  <2>1. grafana_env(e, b)[k] = auth_env(auth_proxy(e))[k]
    BY <1>1, <1>2, AuthWins, ComputedWins
  <2>2. auth_env(auth_proxy(e)) = auth_env(TRUE) \/ auth_env(auth_proxy(e)) = auth_env(FALSE)
    BY DEF auth_env
  <2>3. auth_env(auth_proxy(e))[k] \in Literals
    BY <1>2, <2>2 DEF Literals, Range
  <2> QED
    BY <2>1, <2>3
<1>3. CASE k \in DOMAIN server_env(e, b) /\ k \notin DOMAIN auth_env(auth_proxy(e))
  <2>1. grafana_env(e, b)[k] = server_env(e, b)[k]
    BY <1>1, <1>3, ServerWins, ComputedWins
  <2>2. {"LAKEBASE_DATABASE_NAME", "LAKEBASE_DB_USER", "DATABRICKS_APP_PORT", "GRAFANA_ROOT_URL"}
          \subseteq DOMAIN e \ ServicePrincipal
    BY RequiredIsThere DEF REQUIRED, ServicePrincipal
  <2>3. k \in {"GF_DATABASE_HOST", "GF_DATABASE_NAME", "GF_DATABASE_USER", "GF_DATABASE_PASSWORD",
               "GF_SERVER_HTTP_PORT", "GF_SERVER_ROOT_URL", "GF_SERVER_SERVE_FROM_SUB_PATH"}
    BY <1>3 DEF server_env
  <2>4. CASE k = "GF_DATABASE_HOST"
    <3>1. server_env(e, b)[k] = pgbouncer_port(e)
      BY <2>4 DEF server_env
    <3>2. pgbouncer_port(e) = <<"6432">> \/
          ("PGBOUNCER_PORT" \in DOMAIN e /\ pgbouncer_port(e) = e["PGBOUNCER_PORT"])
      BY DEF pgbouncer_port, GetOr
    <3> QED
      BY <2>1, <3>1, <3>2 DEF Literals, ServicePrincipal
  <2>5. CASE k = "GF_DATABASE_PASSWORD"
    BY <2>1, <2>5 DEF server_env
  <2>6. CASE k = "GF_SERVER_SERVE_FROM_SUB_PATH"
    <3>1. server_env(e, b)[k] = serve_from_sub_path(e["GRAFANA_ROOT_URL"])
      BY <2>6 DEF server_env
    <3>2. serve_from_sub_path(e["GRAFANA_ROOT_URL"]) \in {<<"true">>, <<"false">>}
      BY DEF serve_from_sub_path
    <3> QED
      BY <2>1, <3>1, <3>2 DEF Literals
  <2>7. CASE k \in {"GF_DATABASE_NAME", "GF_DATABASE_USER", "GF_SERVER_HTTP_PORT",
                    "GF_SERVER_ROOT_URL"}
    <3>1. \E v \in {"LAKEBASE_DATABASE_NAME", "LAKEBASE_DB_USER", "DATABRICKS_APP_PORT",
                    "GRAFANA_ROOT_URL"} : server_env(e, b)[k] = e[v]
      BY <2>7 DEF server_env
    <3> QED
      BY <2>1, <2>2, <3>1
  <2> QED
    BY <2>3, <2>4, <2>5, <2>6, <2>7
<1>4. CASE k \notin DOMAIN build_env(e, b)
  BY <1>1, <1>4 DEF Merged, Updated
<1>5. DOMAIN build_env(e, b) = DOMAIN server_env(e, b) \cup DOMAIN auth_env(auth_proxy(e))
  BY DEF build_env, Updated
<1> QED
  BY <1>2, <1>3, <1>4, <1>5

(* A token is no text of the code's own, and no password.                   *)
LEMMA TokenIsNoLiteral ==
    ASSUME NEW b \in Nat, NEW c \in Nat
    PROVE  Token(b) \notin Literals \cup {client_pw(c)}
<1>1. \A t \in Literals : t[1] # "token"
  <2>1. \A k \in DOMAIN auth_env(TRUE) : auth_env(TRUE)[k][1] # "token"
    <3>1. DOMAIN auth_env(TRUE) =
            {"GF_AUTH_PROXY_ENABLED", "GF_AUTH_PROXY_HEADER_NAME", "GF_AUTH_PROXY_WHITELIST",
             "GF_AUTH_ANONYMOUS_ENABLED", "GF_AUTH_DISABLE_LOGIN_FORM",
             "GF_USERS_AUTO_ASSIGN_ORG_ROLE"}
      BY DEF auth_env
    <3>2. /\ auth_env(TRUE)["GF_AUTH_PROXY_ENABLED"][1] = "true"
          /\ auth_env(TRUE)["GF_AUTH_PROXY_HEADER_NAME"][1] = "X-Forwarded-Email"
          /\ auth_env(TRUE)["GF_AUTH_PROXY_WHITELIST"][1] = "127.0.0.1, ::1"
          /\ auth_env(TRUE)["GF_AUTH_ANONYMOUS_ENABLED"][1] = "false"
          /\ auth_env(TRUE)["GF_AUTH_DISABLE_LOGIN_FORM"][1] = "true"
          /\ auth_env(TRUE)["GF_USERS_AUTO_ASSIGN_ORG_ROLE"][1] = "Editor"
      BY DEF auth_env
    <3> QED
      BY <3>1, <3>2
  <2>2. \A k \in DOMAIN auth_env(FALSE) : auth_env(FALSE)[k][1] # "token"
    BY DEF auth_env
  <2>3. \A t \in Range(auth_env(TRUE)) \cup Range(auth_env(FALSE)) : t[1] # "token"
    BY <2>1, <2>2 DEF Range
  <2>4. \A t \in {<<"6432">>, <<"true">>, <<"false">>} : t[1] # "token"
    OBVIOUS
  <2> QED
    BY <2>3, <2>4 DEF Literals
<1>2. Token(b)[1] = "token" /\ client_pw(c)[1] = "password"
  BY DEF Token, client_pw
<1> QED
  BY <1>1, <1>2

(* Grafana has Lakebase's token from nowhere, and the principal's secret    *)
(* from databricks.yaml and from nowhere else.                              *)
THEOREM IsolationOfSecrets == Spec => []SecretsStayPut
<1>1. BootInv /\ Parent => SecretsStayPut
  <2> SUFFICES ASSUME BootInv, Parent, "Grafana" \in children
               PROVE  SecretsStayPut
    BY DEF SecretsStayPut
  <2> DEFINE secret == Get(env, "DATABRICKS_CLIENT_SECRET")
  <2>1. /\ token = boot /\ password = boot /\ boot \in 0 .. MAX_BOOTS /\ boot \in Nat
        /\ env \in Environments /\ Loads(env)
        /\ warehouse(env) => file["databricks.yaml"] = boot
    BY AllOfThisBoot DEF Files
  <2>2. ASSUME NEW k \in DOMAIN GrafanaEnv, secret # <<>>
        PROVE  GrafanaEnv[k] # secret
    <3>1. \/ GrafanaEnv[k] \in Literals \cup {client_pw(boot)}
          \/ \E v \in DOMAIN env \ ServicePrincipal : GrafanaEnv[k] = env[v]
      BY <2>1, WhereFrom DEF GrafanaEnv
    <3> QED
      BY <2>1, <2>2, <3>1, EnvironmentsAssumption
  <2>3. ASSUME NEW k \in DOMAIN GrafanaEnv
        PROVE  GrafanaEnv[k] # Token(token)
    <3>1. \/ GrafanaEnv[k] \in Literals \cup {client_pw(boot)}
          \/ \E v \in DOMAIN env : GrafanaEnv[k] = env[v]
      BY <2>1, WhereFrom DEF GrafanaEnv
    <3> QED
      BY <2>1, <3>1, TokenIsNoLiteral, EnvironmentsAssumption
  <2>4. ASSUME warehouse(env)
        PROVE  Unquoted(DatabricksDatasource(envs[file["databricks.yaml"]]).clientSecret)
                 = env["DATABRICKS_CLIENT_SECRET"]
    <3>1. DatabricksDatasource(envs[file["databricks.yaml"]]) = DatabricksDatasource(env)
      BY <2>1, <2>4 DEF env
    <3>2. "DATABRICKS_CLIENT_SECRET" \in DOMAIN env
      BY <2>4, SetIsThere DEF warehouse
    <3> QED
      BY <2>1, <3>1, <3>2, EnvironmentQuoted DEF DatabricksDatasource
  <2> QED
    BY <2>2, <2>3, <2>4 DEF SecretsStayPut
<1> QED
  BY ParentInvariant, <1>1, PTL
=============================================================================
