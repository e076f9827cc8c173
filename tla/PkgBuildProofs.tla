--------------------------- MODULE PkgBuildProofs ---------------------------
(***************************************************************************)
(* Theorems about PkgBuild, for every set of packages, every dependency    *)
(* graph and every set of command lines.                                   *)
(***************************************************************************)
EXTENDS PkgBuild, TLAPS

(* A script is a sequence of recipes. *)
LEMMA ScriptType ==
    /\ Script \in [CommandLines -> Seq(RecipeTarget)]
    /\ \A line \in CommandLines : Script[line] \in Seq(RecipeTarget)
BY PlanAssumption DEF Script

(* So are the recipes of the latest invocation. *)
LEMMA RecipesType ==
    ASSUME goals \in CommandLines \cup {<<>>}
    PROVE  Recipes \in Seq(RecipeTarget) /\ Len(Recipes) \in Nat
BY ScriptType DEF Recipes

(* The owner of a package's stamp recipe is a package. *)
LEMMA OwnerIsPkg ==
    ASSUME goals \in CommandLines \cup {<<>>}, at \in 1..Len(Recipes),
           Recipes[at][1] \in RecipeVerb
    PROVE  Recipes[at][2] \in Pkg
BY RecipesType DEF RecipeTarget, RecipeVerb, Stamp, Ephemeral, TopLevel

(* Wearing work out, one piece or all of it, keeps it a quality of work. *)
LEMMA StaleType ==
    /\ \A q \in Quality : Stale(q) \in Quality
    /\ \A b : GoodIf(b) \in Quality
    /\ \A f \in [Work -> Quality] : StaleAll(f) \in [Work -> Quality]
    /\ \A f \in [Area -> Quality] : StaleAll(f) \in [Area -> Quality]
BY DEF Stale, GoodIf, Quality, StaleAll

(* However a step moves make on, the position stays within the script.     *)
LEMMA MakeType ==
    ASSUME MakeTypeOK, (Done /\ ~Idle) \/ FirstHalf \/ GiveUp
    PROVE  MakeTypeOK'
<1>1. Recipes' = Recipes /\ Len(Recipes) \in Nat
  BY RecipesType DEF MakeTypeOK, Recipes, Done, FirstHalf, GiveUp
<1>2. goals' \in CommandLines \cup {<<>>}
  BY DEF MakeTypeOK, Done, FirstHalf, GiveUp
<1>3. at' \in 1..Len(Recipes') + 1
  BY <1>1 DEF MakeTypeOK, Done, Idle, FirstHalf, GiveUp
<1>4. half' \in BOOLEAN /\ failed' \in BOOLEAN
  BY Zenon DEF MakeTypeOK, Done, FirstHalf, GiveUp
<1> QED BY <1>2, <1>3, <1>4, Zenon DEF MakeTypeOK

(* No recipe of a package leaves the state outside its type. *)
LEMMA RecipeType ==
    ASSUME TypeOK, NEW p \in Pkg, Recipe(p)
    PROVE  TypeOK'
<1> USE StaleType DEF TypeOK, PkgTypeOK, TopTypeOK, pkgVars, topVars, Whole
<1>1. CASE Touch(p)
  BY <1>1, MakeType DEF Touch, Running
<1>2. CASE DownloadCmds(p) \/ RsyncSourced(p)
  BY <1>2, MakeType DEF DownloadCmds, RsyncSourced, Running
<1>3. CASE ExtractCmds(p)
  BY <1>3, MakeType DEF ExtractCmds, Running, Quality, Work
<1>4. CASE RsyncCmds(p)
  <2>1. tree' \in [Pkg -> [Work -> Quality]]
    BY <1>4 DEF RsyncCmds, Quality, Work
  <2>2. inst' \in [Pkg -> [Area -> Quality]]
    BY <1>4 DEF RsyncCmds
  <2> QED
    BY <1>4, <2>1, <2>2, MakeType DEF RsyncCmds, Running
<1>5. CASE PatchCmds(p)
  BY <1>5, MakeType DEF PatchCmds, Running, Quality, Work
<1>6. CASE ConfigureCmds(p)
  BY <1>6, MakeType DEF ConfigureCmds, Running, Quality, Work
<1>7. CASE BuildCmds(p)
  BY <1>7, MakeType DEF BuildCmds, Running, Quality, Work
<1>8. ASSUME NEW x \in Area, InstallCmds(p, x)
      PROVE  TypeOK'
  <2>1. MakeTypeOK'
    BY <1>8, MakeType DEF InstallCmds
  <2>2. PkgTypeOK'
    BY <1>8 DEF InstallCmds
  <2>3. final' \in BOOLEAN
    BY <1>8, Zenon DEF InstallCmds
  <2> QED
    BY <1>8, <2>1, <2>2, <2>3 DEF InstallCmds
<1>9. CASE UninstallStamps(p)
  BY <1>9, MakeType DEF UninstallStamps, Running
<1>10. CASE UninstallCmds(p)
  BY <1>10, MakeType DEF UninstallCmds, Running, Quality, Area
<1>11. CASE CleanCmds(p)
  BY <1>11, MakeType DEF CleanCmds, Running, Quality, Work
<1>12. CASE CleanStamp(p)
  BY <1>12, MakeType DEF CleanStamp, Running
<1>13. CASE Dirclean(p)
  BY <1>13, MakeType DEF Dirclean, DircleanThen, Running, Quality, Work
<1>14. CASE CleanForRebuild(p)
  BY <1>14, MakeType DEF CleanForRebuild, Running
<1>15. CASE CleanForReconfigure(p)
  BY <1>15, MakeType DEF CleanForReconfigure, Running
<1>16. CASE PatchFails(p)
  BY <1>16, MakeType DEF PatchFails
<1> QED
  BY <1>1, <1>2, <1>3, <1>4, <1>5, <1>6, <1>7, <1>8, <1>9, <1>10, <1>11, <1>12, <1>13,
     <1>14, <1>15, <1>16 DEF Recipe

(* Nor does a recipe that is cut short. *)
LEMMA BreakType ==
    ASSUME TypeOK, NEW p \in Pkg, Break(p)
    PROVE  TypeOK'
<1> USE StaleType DEF TypeOK, PkgTypeOK, TopTypeOK, pkgVars, topVars, Breaks
<1>1. CASE BreakBeforeTouch(p) \/ BreakDownload(p)
  BY <1>1, MakeType DEF BreakBeforeTouch, BreakDownload
<1>2. CASE BreakExtract(p)
  BY <1>2, MakeType DEF BreakExtract, Quality, Work
<1>3. CASE BreakRsync(p)
  <2>1. tree' \in [Pkg -> [Work -> Quality]]
    BY <1>3, SMT DEF BreakRsync, Stale, Quality, Work
  <2> QED
    BY <1>3, <2>1, MakeType DEF BreakRsync
<1>8. CASE BreakPatch(p)
  <2>1. tree' \in [Pkg -> [Work -> Quality]]
    <3>1. CASE UNCHANGED tree
      BY <3>1
    <3>2. CASE tree' = [tree EXCEPT ![p]["patches"] = "bad"]
      BY <3>2 DEF Quality, Work
    <3> QED
      BY <1>8, <3>1, <3>2 DEF BreakPatch
  <2> QED
    BY <1>8, <2>1, MakeType DEF BreakPatch
<1>9. CASE BreakConfigure(p)
  <2>1. tree' \in [Pkg -> [Work -> Quality]]
    BY <1>9, SMT DEF BreakConfigure, Stale, Quality, Work
  <2> QED
    BY <1>9, <2>1, MakeType DEF BreakConfigure
<1>10. CASE BreakBuild(p)
  BY <1>10, MakeType DEF BreakBuild, Quality, Work
<1>11. CASE BreakClean(p)
  BY <1>11, MakeType DEF BreakClean, Quality, Work
<1>4. ASSUME NEW x \in Area, BreakInstall(p, x)
      PROVE  TypeOK'
  <2>1. MakeTypeOK'
    BY <1>4, MakeType DEF BreakInstall
  <2>2. PkgTypeOK'
    BY <1>4 DEF BreakInstall, Quality
  <2>3. final' \in BOOLEAN
    BY <1>4, Zenon DEF BreakInstall
  <2> QED
    BY <1>4, <2>1, <2>2, <2>3 DEF BreakInstall
<1>5. CASE BreakUninstall(p)
  BY <1>5, MakeType DEF BreakUninstall, Area
<1>6. CASE BreakDirclean(p)
  <2>1. stamps' \in [Pkg -> SUBSET Stamp]
    BY <1>6 DEF BreakDirclean
  <2>2. tree' \in [Pkg -> [Work -> Quality]]
    BY <1>6 DEF BreakDirclean, Quality
  <2> QED
    BY <1>6, <2>1, <2>2, MakeType DEF BreakDirclean
<1>7. CASE BreakCleanForRebuild(p)
  BY <1>7, MakeType DEF BreakCleanForRebuild
<1> QED
  BY <1>1, <1>2, <1>3, <1>4, <1>5, <1>6, <1>7, <1>8, <1>9, <1>10, <1>11 DEF Break

(* Nor does the user, who only comes when make has ended. *)
LEMMA UserType ==
    ASSUME TypeOK, User
    PROVE  TypeOK'
<1> USE DEF TypeOK, PkgTypeOK, TopTypeOK, pkgVars, topVars
<1>1. ASSUME NEW line \in CommandLines, Invoke(line)
      PROVE  TypeOK'
  <2>1. Recipes' \in Seq(RecipeTarget)
    BY <1>1, ScriptType, PlanAssumption DEF Invoke, Recipes
  <2> QED
    <3>1. goals' \in CommandLines \cup {<<>>} /\ at' \in 1..Len(Recipes') + 1
      BY <1>1, <2>1 DEF Invoke
    <3>2. half' \in BOOLEAN /\ failed' \in BOOLEAN
      BY <1>1, Zenon DEF Invoke
    <3> QED
      BY <1>1, <3>1, <3>2, Zenon DEF Invoke, MakeTypeOK
<1>2. ASSUME NEW p \in Pkg, Edit(p) \/ RemoveStamp(p)
      PROVE  TypeOK'
  BY <1>2 DEF Edit, RemoveStamp, makeVars, MakeTypeOK, Recipes
<1> QED
  BY <1>1, <1>2 DEF User

(* The type invariant. *)
THEOREM TypeCorrect == Spec => []TypeOK
<1>1. Init => TypeOK
  <2> SUFFICES ASSUME Init PROVE TypeOK
    OBVIOUS
  <2>1. MakeTypeOK
    <3>1. at \in 1..Len(Recipes) + 1
      BY RecipesType DEF Init
    <3>2. goals \in CommandLines \cup {<<>>} /\ half \in BOOLEAN /\ failed \in BOOLEAN
      BY Zenon DEF Init
    <3> QED
      BY <3>1, <3>2, Zenon DEF MakeTypeOK
  <2>2. PkgTypeOK
    BY DEF Init, PkgTypeOK, Quality
  <2>3. TopTypeOK
    BY DEF Init, TopTypeOK
  <2> QED
    BY <2>1, <2>2, <2>3 DEF TypeOK
<1>2. TypeOK /\ [Next]_vars => TypeOK'
  <2> SUFFICES ASSUME TypeOK, [Next]_vars PROVE TypeOK'
    OBVIOUS
  <2>1. CASE NothingToDo
    BY <2>1, MakeType DEF NothingToDo, TypeOK, PkgTypeOK, TopTypeOK, pkgVars, topVars
  <2>2. CASE InstallToolchain \/ TargetFinalize \/ MakeRootfs \/ PostImage
    <3>1. MakeTypeOK' /\ PkgTypeOK'
      BY <2>2, MakeType DEF InstallToolchain, TargetFinalize, MakeRootfs, PostImage, Whole,
                            Running, TypeOK, PkgTypeOK, pkgVars
    <3>2. toolchain' \in BOOLEAN /\ final' \in BOOLEAN
      BY <2>2, Zenon DEF InstallToolchain, TargetFinalize, MakeRootfs, PostImage, TypeOK,
                         TopTypeOK, topVars
    <3>3. image' \in [made : BOOLEAN, has : SUBSET Pkg, final : BOOLEAN]
      <4>1. CASE MakeRootfs
        <5>1. {p \in TargetPkg \ HostPkg : inst[p]["target"] = "good"} \in SUBSET Pkg
          BY PkgAssumption
        <5>2. final \in BOOLEAN
          BY DEF TypeOK, TopTypeOK
        <5> QED
          BY <4>1, <5>1, <5>2 DEF MakeRootfs
      <4>2. CASE ~MakeRootfs
        BY <2>2, <4>2 DEF InstallToolchain, TargetFinalize, PostImage, TypeOK, TopTypeOK, topVars
      <4> QED
        BY <4>1, <4>2
    <3> QED
      BY <3>1, <3>2, <3>3 DEF TypeOK, TopTypeOK
  <2>3. CASE \E p \in Pkg : Recipe(p)
    BY <2>3, RecipeType
  <2>4. CASE Fault
    BY <2>4, BreakType DEF Fault
  <2>5. CASE User
    BY <2>5, UserType
  <2>6. CASE UNCHANGED vars
    BY <2>6 DEF TypeOK, MakeTypeOK, PkgTypeOK, TopTypeOK, Recipes, vars, makeVars, pkgVars,
                topVars
  <2> QED
    BY <2>1, <2>2, <2>3, <2>4, <2>5, <2>6 DEF Next, Make
<1> QED
  BY <1>1, <1>2, PTL DEF Spec

-----------------------------------------------------------------------------
(* The four installation stamps are stamps, and different ones. *)
LEMMA InstallStamps ==
    /\ \A x \in Area : InstallStamp[x] \in Stamp /\ InstallStamp[x] \in Installing
    /\ \A x \in Area : InstallStamp[x] \notin {".stamp_extracted", ".stamp_rsynced",
          ".stamp_patched", ".stamp_configured", ".stamp_built", ".stamp_downloaded"}
    /\ \A x, y \in Area : InstallStamp[x] = InstallStamp[y] => x = y
    /\ Installing = { ".stamp_host_installed", ".stamp_staging_installed",
                      ".stamp_target_installed", ".stamp_images_installed" }
BY DEF InstallStamp, Installing, Area, Stamp

(* What <p>-clean-for-rebuild removes. *)
LEMMA RebuildSet ==
    ASSUME NEW p \in Pkg
    PROVE  FirstStamps(p, Len(RebuildStamps(p))) =
              {".stamp_built"} \cup Installing
                 \cup (IF p \in OverridePkg THEN {".stamp_rsynced"} ELSE {})
<1>1. CASE p \in OverridePkg
  <2>1. RebuildStamps(p) = << ".stamp_rsynced", ".stamp_built", ".stamp_staging_installed",
              ".stamp_target_installed", ".stamp_images_installed", ".stamp_host_installed" >>
    BY <1>1 DEF RebuildStamps
  <2> QED
    BY <1>1, <2>1, InstallStamps DEF FirstStamps
<1>2. CASE p \notin OverridePkg
  <2>1. RebuildStamps(p) = << ".stamp_built", ".stamp_staging_installed",
              ".stamp_target_installed", ".stamp_images_installed", ".stamp_host_installed" >>
    BY <1>2 DEF RebuildStamps
  <2> QED
    BY <1>2, <2>1, InstallStamps DEF FirstStamps
<1> QED
  BY <1>1, <1>2

(* A recipe that makes a stamp takes none away. *)
LEMMA RemovedByStamp ==
    ASSUME NEW t, t[1] \in Stamp
    PROVE  Removed(t) = {}
BY DEF Removed, Stamp

(* What a recipe needs are the stamps of packages. *)
LEMMA NeedsType ==
    ASSUME NEW t, t[2] \in Pkg, NEW u \in Needs(t)
    PROVE  u \in Stamp \X Pkg
<1>1. \A p \in Pkg : SourceNeeds(p) \subseteq Stamp \X Pkg
  BY DEF SourceNeeds, Stamp
<1>2. \A p \in Pkg : DepNeeds(p) \subseteq Stamp \X Pkg
  <2> SUFFICES ASSUME NEW p \in Pkg, NEW i \in DOMAIN Dependencies[p],
                      NEW x \in Areas(Dependencies[p][i])
               PROVE  <<InstallStamp[x], Dependencies[p][i]>> \in Stamp \X Pkg
    BY DEF DepNeeds
  <2>1. Dependencies[p][i] \in Pkg
    BY PkgAssumption
  <2>2. x \in Area
    BY DEF Areas, Area
  <2> QED
    BY <2>1, <2>2, InstallStamps
<1> QED
  BY <1>1, <1>2 DEF Needs, Stamp

(* Needs and Removed, recipe by recipe. *)
LEMMA NeedsOf ==
    ASSUME NEW p
    PROVE  /\ Needs(<<".stamp_patched", p>>) = { <<".stamp_extracted", p>> }
           /\ Needs(<<".stamp_configured", p>>) = SourceNeeds(p) \cup DepNeeds(p)
           /\ Needs(<<".stamp_built", p>>) =
                 SourceNeeds(p) \cup DepNeeds(p) \cup { <<".stamp_configured", p>> }
           /\ \A x \in Area : Needs(<<InstallStamp[x], p>>) = DepNeeds(p) \cup { <<".stamp_built", p>> }
<1> USE SMT DEF Needs, SourceNeeds, DepNeeds, Installing, Area, InstallStamp
<1>1. Needs(<<".stamp_patched", p>>) = { <<".stamp_extracted", p>> }
  OBVIOUS
<1>2. Needs(<<".stamp_configured", p>>) = SourceNeeds(p) \cup DepNeeds(p)
  OBVIOUS
<1>3. Needs(<<".stamp_built", p>>) =
         SourceNeeds(p) \cup DepNeeds(p) \cup { <<".stamp_configured", p>> }
  OBVIOUS
<1>4. \A x \in Area : Needs(<<InstallStamp[x], p>>) = DepNeeds(p) \cup { <<".stamp_built", p>> }
  OBVIOUS
<1> QED
  BY <1>1, <1>2, <1>3, <1>4

(* The stamps that each recipe removes. *)
LEMMA RemovedOf ==
    ASSUME NEW p
    PROVE  /\ Removed(<<".stamp_uninstalled", p>>) =
                 {".stamp_staging_installed", ".stamp_target_installed"}
           /\ Removed(<<".stamp_cleaned", p>>) = {".stamp_built"}
           /\ Removed(<<".stamp_dircleaned", p>>) = Stamp
           /\ Removed(<<"clean-for-rebuild", p>>) = FirstStamps(p, Len(RebuildStamps(p)))
           /\ Removed(<<"clean-for-reconfigure", p>>) = {".stamp_configured"}
BY DEF Removed

(* While make is running there is a current recipe in an orderly script. *)
LEMMA Current ==
    ASSUME TypeOK, Orderly, ~Idle
    PROVE  /\ Recipes \in Seq(RecipeTarget)
           /\ at \in DOMAIN Recipes /\ at \in Nat /\ at > 0
           /\ OrderlyScript(Recipes)
           /\ \A i \in DOMAIN Recipes : Recipes[i] = <<Recipes[i][1], Recipes[i][2]>>
<1>1. Recipes \in Seq(RecipeTarget) /\ Len(Recipes) \in Nat
  BY RecipesType DEF TypeOK, MakeTypeOK
<1>2. at \in 1..Len(Recipes)
  BY <1>1 DEF TypeOK, MakeTypeOK, Idle
<1>3. goals \in CommandLines
  BY <1>2 DEF TypeOK, MakeTypeOK, Recipes
<1>4. OrderlyScript(Recipes)
  BY <1>3, PlanAssumption DEF Orderly, Recipes
<1>5. \A i \in DOMAIN Recipes : Recipes[i] \in RecipeTarget
  BY <1>1
<1>6. \A t \in RecipeTarget : t = <<t[1], t[2]>>
  BY DEF RecipeTarget
<1> QED
  BY <1>1, <1>2, <1>4, <1>5, <1>6

(* What the current recipe needs is there. *)
LEMMA NeedsMet ==
    ASSUME TypeOK, Orderly, PassedIsDone, ~Idle,
           Recipes[at][1] \in Stamp, Recipes[at][2] \in Pkg,
           NEW t \in Needs(Recipes[at])
    PROVE  t[1] \in stamps[t[2]]
<1>1. PICK i \in 1..at-1 : /\ Recipes[i] = t
                           /\ \A j \in i+1..at-1 : ~Removes(Recipes[j], t)
  BY Current DEF OrderlyScript
<1>2. t \in Stamp \X Pkg
  BY NeedsType
<1>3. ~Removes(Recipes[at], t)
  BY RemovedByStamp DEF Removes
<1>4. \A j \in i+1..at : ~Removes(Recipes[j], t)
  BY <1>1, <1>3, Current
<1> QED
  BY <1>1, <1>2, <1>4 DEF PassedIsDone

(* What make has passed stays done when a recipe removes only what it is   *)
(* known to remove and, at its end, leaves its own stamp.                  *)
LEMMA PassedKept ==
    ASSUME TypeOK, PassedIsDone, ~Idle, goals' = goals, at' = at \/ at' = at + 1,
           \A q \in Pkg : \A s \in stamps[q] :
              s \in stamps'[q] \/ Removes(Recipes[at], <<s, q>>),
           at' = at + 1 /\ Recipes[at][1] \in Stamp =>
              Recipes[at][1] \in stamps'[Recipes[at][2]]
    PROVE  PassedIsDone'
<1>1. Recipes' = Recipes /\ Recipes \in Seq(RecipeTarget) /\ at \in Nat /\ Len(Recipes) \in Nat
  BY RecipesType DEF Recipes, TypeOK, MakeTypeOK
<1> SUFFICES ASSUME ~Idle', NEW i \in 1..at'-1, Recipes[i][1] \in Stamp
             PROVE  \/ Recipes[i][1] \in stamps'[Recipes[i][2]]
                    \/ \E j \in i+1..at' : Removes(Recipes[j], Recipes[i])
  BY <1>1 DEF PassedIsDone
<1>2. CASE ~(i < at)
  <2>1. at' = at + 1
    BY <1>1, <1>2
  <2>2. Recipes[i][1] \in stamps'[Recipes[i][2]]
    <3>1. i = at
      BY <1>1, <1>2, <2>1
    <3> QED
      BY <2>1, <3>1, Zenon
  <2> QED
    BY <2>2, Zenon
<1>3. CASE i < at
  <2>1. i \in 1..at-1 /\ i \in DOMAIN Recipes
    BY <1>1, <1>3 DEF Idle
  <2>2. Recipes[i][2] \in Pkg /\ Recipes[i] = <<Recipes[i][1], Recipes[i][2]>>
    <3>1. Recipes[i] \in RecipeTarget
      BY <1>1, <2>1
    <3> QED
      BY <3>1 DEF RecipeTarget, TopLevel, Stamp
  <2>3. CASE Recipes[i][1] \in stamps[Recipes[i][2]]
    <3>1. Recipes[i][1] \in stamps'[Recipes[i][2]] \/ Removes(Recipes[at], Recipes[i])
      BY <2>2, <2>3
    <3> QED
      BY <3>1, <2>1, <1>1
  <2>4. CASE \E j \in i+1..at : Removes(Recipes[j], Recipes[i])
    BY <2>4, <2>1, <1>1
  <2> QED
    BY <2>1, <2>3, <2>4 DEF PassedIsDone
<1> QED
  BY <1>2, <1>3

-----------------------------------------------------------------------------
(* What the steps of make do to the stamps and to the developer's edits.   *)

(* A stamp goes only by the recipe that is known to remove it.             *)
LEMMA RecipeKeepsStamps ==
    ASSUME TypeOK, NEW p \in Pkg, Recipe(p), NEW q \in Pkg, NEW s \in stamps[q]
    PROVE  s \in stamps'[q] \/ Removes(Recipes[at], <<s, q>>)
<1>0. stamps \in [Pkg -> SUBSET Stamp]
  BY DEF TypeOK, PkgTypeOK
<1>1. CASE Touch(p)
  BY <1>0, <1>1 DEF Touch
<1>2. ASSUME NEW v, Recipes[at] = <<v, p>>, NEW gone, gone \subseteq Removed(<<v, p>>),
             stamps' = [stamps EXCEPT ![p] = @ \ gone]
      PROVE  s \in stamps'[q] \/ Removes(Recipes[at], <<s, q>>)
  BY <1>0, <1>2 DEF Removes
<1>3. CASE UninstallStamps(p)
  BY <1>2, <1>3, RemovedOf DEF UninstallStamps, Running
<1>4. CASE CleanStamp(p)
  BY <1>2, <1>4, RemovedOf DEF CleanStamp, Running
<1>5. CASE CleanForRebuild(p)
  BY <1>2, <1>5, RemovedOf DEF CleanForRebuild, Running
<1>6. CASE CleanForReconfigure(p)
  BY <1>2, <1>6, RemovedOf DEF CleanForReconfigure, Running
<1>7. CASE Dirclean(p)
  <2>1. stamps' = [stamps EXCEPT ![p] = @ \ Stamp]
    BY <1>0, <1>7 DEF Dirclean, DircleanThen
  <2> QED
    BY <2>1, <1>2, <1>7, RemovedOf DEF Dirclean, DircleanThen, Running
<1>8. CASE \/ DownloadCmds(p) \/ RsyncSourced(p) \/ ExtractCmds(p) \/ RsyncCmds(p)
           \/ PatchCmds(p) \/ ConfigureCmds(p) \/ BuildCmds(p)
           \/ (\E x \in Area : InstallCmds(p, x))
           \/ UninstallCmds(p) \/ CleanCmds(p) \/ PatchFails(p)
  BY <1>8 DEF DownloadCmds, RsyncSourced, ExtractCmds, RsyncCmds, PatchCmds, ConfigureCmds,
              BuildCmds, InstallCmds, UninstallCmds, CleanCmds, PatchFails, pkgVars
<1> QED
  BY <1>1, <1>3, <1>4, <1>5, <1>6, <1>7, <1>8 DEF Recipe

(* A stamp comes only at the end of its recipe.                            *)
LEMMA RecipeNewStamp ==
    ASSUME TypeOK, NEW p \in Pkg, Recipe(p), NEW q \in Pkg, NEW s \in stamps'[q]
    PROVE  s \in stamps[q] \/ (half /\ Done /\ Running(<<s, q>>))
<1>0. stamps \in [Pkg -> SUBSET Stamp]
  BY DEF TypeOK, PkgTypeOK
<1>1. CASE Touch(p)
  BY <1>0, <1>1 DEF Touch
<1>2. CASE UninstallStamps(p) \/ CleanStamp(p) \/ CleanForRebuild(p) \/ CleanForReconfigure(p)
           \/ Dirclean(p)
  BY <1>0, <1>2 DEF UninstallStamps, CleanStamp, CleanForRebuild, CleanForReconfigure, Dirclean,
                    DircleanThen
<1>3. CASE \/ DownloadCmds(p) \/ RsyncSourced(p) \/ ExtractCmds(p) \/ RsyncCmds(p)
           \/ PatchCmds(p) \/ ConfigureCmds(p) \/ BuildCmds(p)
           \/ (\E x \in Area : InstallCmds(p, x))
           \/ UninstallCmds(p) \/ CleanCmds(p) \/ PatchFails(p)
  BY <1>3 DEF DownloadCmds, RsyncSourced, ExtractCmds, RsyncCmds, PatchCmds, ConfigureCmds,
              BuildCmds, InstallCmds, UninstallCmds, CleanCmds, PatchFails, pkgVars
<1> QED
  BY <1>1, <1>2, <1>3 DEF Recipe

(* A recipe with a stamp ends by making it.                                *)
LEMMA RecipeLeavesStamp ==
    ASSUME TypeOK, NEW p \in Pkg, Recipe(p), Done, ~GiveUp, Recipes[at][1] \in Stamp
    PROVE  Recipes[at][1] \in stamps'[Recipes[at][2]]
<1>1. CASE Touch(p)
  <2>1. PICK s \in Stamp : Running(<<s, p>>) /\ stamps' = [stamps EXCEPT ![p] = @ \cup {s}]
    BY <1>1 DEF Touch
  <2> QED
    BY <2>1 DEF Running, TypeOK, PkgTypeOK
<1>3. CASE \/ RsyncSourced(p) \/ UninstallCmds(p) \/ CleanStamp(p) \/ Dirclean(p)
           \/ CleanForRebuild(p) \/ CleanForReconfigure(p)
  BY <1>3 DEF RsyncSourced, UninstallCmds, CleanStamp, Dirclean, DircleanThen, CleanForRebuild,
              CleanForReconfigure, Running, Stamp
<1>4. ASSUME FirstHalf
      PROVE  FALSE
  BY <1>4 DEF FirstHalf, Done
<1>5. CASE \/ DownloadCmds(p) \/ ExtractCmds(p) \/ RsyncCmds(p)
           \/ PatchCmds(p) \/ ConfigureCmds(p) \/ BuildCmds(p)
           \/ (\E x \in Area : InstallCmds(p, x))
           \/ UninstallStamps(p) \/ CleanCmds(p)
  BY <1>4, <1>5 DEF DownloadCmds, ExtractCmds, RsyncCmds, PatchCmds, ConfigureCmds,
              BuildCmds, InstallCmds, UninstallStamps, CleanCmds
<1>6. CASE PatchFails(p)
  BY <1>6 DEF PatchFails
<1> QED
  BY <1>1, <1>3, <1>5, <1>6 DEF Recipe

(* The edits of the developer only ever go while make runs, and a recipe   *)
(* that is half way through the rsync has brought them.                    *)
LEMMA RecipeEdits ==
    ASSUME TypeOK, NEW p \in Pkg, Recipe(p)
    PROVE  /\ dirty' \subseteq dirty
           /\ \A q \in Pkg : FirstHalf /\ Running(<<".stamp_rsynced", q>>) => q \notin dirty'
<1>0. ~(FirstHalf /\ Done) /\ ~(FirstHalf /\ GiveUp)
  BY DEF FirstHalf, Done, GiveUp
<1>1. CASE RsyncCmds(p)
  BY <1>1 DEF RsyncCmds, Running
<1>2. CASE BuildCmds(p)
  <2>1. dirty' \subseteq dirty
    BY <1>2 DEF BuildCmds
  <2> QED
    BY <1>2, <2>1 DEF BuildCmds, Running
<1>3. CASE \E x \in Area : InstallCmds(p, x)
  <2>1. \A x \in Area : InstallStamp[x] # ".stamp_rsynced"
    BY InstallStamps
  <2> QED
    BY <1>3, <2>1 DEF InstallCmds, Running
<1>4. CASE DownloadCmds(p) \/ ExtractCmds(p) \/ PatchCmds(p) \/ ConfigureCmds(p)
           \/ UninstallStamps(p) \/ CleanCmds(p)
  BY <1>4 DEF DownloadCmds, ExtractCmds, PatchCmds, ConfigureCmds, UninstallStamps, CleanCmds, Running,
              pkgVars
<1>5. CASE Touch(p) \/ RsyncSourced(p) \/ UninstallCmds(p) \/ CleanStamp(p) \/ Dirclean(p)
           \/ CleanForRebuild(p) \/ CleanForReconfigure(p) \/ PatchFails(p)
  BY <1>0, <1>5 DEF Touch, RsyncSourced, UninstallCmds, CleanStamp, Dirclean, DircleanThen,
              CleanForRebuild, CleanForReconfigure, PatchFails, Whole, pkgVars
<1> QED
  BY <1>1, <1>2, <1>3, <1>4, <1>5 DEF Recipe

-----------------------------------------------------------------------------
(* A step of make that goes on: every recipe but one that gives up.        *)
GoesOn == Make /\ ~Idle /\ ~GiveUp

LEMMA MakeGoesOn ==
    ASSUME TypeOK, Orderly, GoesOn
    PROVE  /\ Recipes' = Recipes /\ Recipes \in Seq(RecipeTarget) /\ Len(Recipes) \in Nat
           /\ at \in 1..Len(Recipes)
           /\ (Done /\ at' = at + 1 /\ ~half') \/ (FirstHalf /\ at' = at /\ half')
<1>1. Recipes \in Seq(RecipeTarget) /\ Len(Recipes) \in Nat /\ at \in 1..Len(Recipes)
  BY Current, RecipesType DEF GoesOn, TypeOK, MakeTypeOK
<1>2. Done \/ FirstHalf
  <2>1. CASE NothingToDo \/ InstallToolchain \/ TargetFinalize \/ MakeRootfs \/ PostImage
    BY <2>1 DEF NothingToDo, InstallToolchain, TargetFinalize, MakeRootfs, PostImage, Whole
  <2>2. ASSUME NEW p \in Pkg, Recipe(p)
        PROVE  Done \/ FirstHalf
    BY <2>2 DEF GoesOn, Recipe, Touch, DownloadCmds, RsyncSourced, ExtractCmds, RsyncCmds, PatchCmds,
        ConfigureCmds, BuildCmds, InstallCmds, UninstallStamps, UninstallCmds, CleanCmds, CleanStamp,
        Dirclean, DircleanThen, CleanForRebuild, CleanForReconfigure, PatchFails, Whole
  <2> QED
    BY <2>1, <2>2 DEF GoesOn, Make
<1>3. Recipes' = Recipes
  BY <1>2 DEF Done, FirstHalf, Recipes
<1> QED
  BY <1>1, <1>2, <1>3 DEF Done, FirstHalf

LEMMA MakeStamps ==
    ASSUME TypeOK, GoesOn
    PROVE  /\ \A q \in Pkg : \A s \in stamps[q] : s \in stamps'[q] \/ Removes(Recipes[at], <<s, q>>)
           /\ \A q \in Pkg : \A s \in stamps'[q] : s \in stamps[q] \/ (half /\ Done /\ Running(<<s, q>>))
           /\ Done /\ Recipes[at][1] \in Stamp => Recipes[at][1] \in stamps'[Recipes[at][2]]
           /\ dirty' \subseteq dirty
           /\ \A q \in Pkg : FirstHalf /\ Running(<<".stamp_rsynced", q>>) => q \notin dirty'
<1>1. ASSUME NEW p \in Pkg, Recipe(p)
      PROVE  /\ \A q \in Pkg : \A s \in stamps[q] : s \in stamps'[q] \/ Removes(Recipes[at], <<s, q>>)
             /\ \A q \in Pkg : \A s \in stamps'[q] : s \in stamps[q] \/ (half /\ Done /\ Running(<<s, q>>))
             /\ Done /\ Recipes[at][1] \in Stamp => Recipes[at][1] \in stamps'[Recipes[at][2]]
             /\ dirty' \subseteq dirty
             /\ \A q \in Pkg : FirstHalf /\ Running(<<".stamp_rsynced", q>>) => q \notin dirty'
  BY <1>1, RecipeKeepsStamps, RecipeNewStamp, RecipeLeavesStamp, RecipeEdits DEF GoesOn
<1>2. CASE NothingToDo
  <2>1. UNCHANGED pkgVars /\ Done /\ UpToDate(Recipes[at])
    BY <1>2 DEF NothingToDo
  <2>2. Recipes[at][1] \in Stamp => Recipes[at][1] \in stamps[Recipes[at][2]]
    BY <2>1 DEF UpToDate, Stamp
  <2> QED
    BY <2>1, <2>2 DEF pkgVars, FirstHalf, Done
<1>3. CASE InstallToolchain \/ TargetFinalize \/ MakeRootfs \/ PostImage
  <2>1. UNCHANGED pkgVars /\ Done /\ Recipes[at][1] \in TopLevel
    BY <1>3 DEF InstallToolchain, TargetFinalize, MakeRootfs, PostImage, Whole, Running, TopLevel
  <2>2. Recipes[at][1] \notin Stamp
    BY <2>1 DEF TopLevel, Stamp
  <2> QED
    BY <2>1, <2>2 DEF pkgVars, FirstHalf, Done
<1> QED
  BY <1>1, <1>2, <1>3 DEF GoesOn, Make

-----------------------------------------------------------------------------
(* The stamps of one package are honest. *)
AllDone(p) == \A s \in stamps[p] : WorkDone(s, p)
DoneButBuilt(p) == \A s \in stamps[p] \ {".stamp_built"} : WorkDone(s, p)

(* Outside the second half of a clean, the stamps of a sound package are.  *)
LEMMA NowDone ==
    ASSUME NEW p \in Pkg, Sound(p), NEW v, NEW q, Running(<<v, q>>),
           ~(v = ".stamp_cleaned" /\ half)
    PROVE  AllDone(p)
<1>1. ~Cleaning(p)
  BY DEF Cleaning, Running
<1> QED
  BY <1>1 DEF Sound, Honest, AllDone

(* How make can move on in a step of a recipe.                             *)
Moves == Done \/ FirstHalf \/ GiveUp

LEMMA MovesOn ==
    ASSUME TypeOK, Moves, ~Idle
    PROVE  /\ Recipes' = Recipes /\ at \in Nat /\ Len(Recipes) \in Nat
           /\ Done => at' = at + 1 /\ ~half'
           /\ FirstHalf => at' = at /\ half'
           /\ GiveUp => Idle' /\ ~half'
<1>1. Recipes' = Recipes
  BY DEF Moves, Done, FirstHalf, GiveUp, Recipes
<1>2. at \in Nat /\ Len(Recipes) \in Nat
  BY RecipesType DEF TypeOK, MakeTypeOK
<1> QED
  BY <1>1, <1>2 DEF Done, FirstHalf, GiveUp, Idle

(* Only <p>-clean-for-rebuild comes just before -clean-for-reconfigure.    *)
LEMMA NotJustCleaned ==
    ASSUME TypeOK, Orderly, ~Idle, Moves, NEW p, Recipes[at] # <<"clean-for-rebuild", p>>
    PROVE  JustCleaned(p)'
<1>1. SUFFICES ASSUME ~Idle', ~half', Recipes'[at'] = <<"clean-for-reconfigure", p>>
               PROVE  FALSE
  BY DEF JustCleaned
<1>2. Recipes' = Recipes /\ at' = at + 1 /\ at \in Nat
  BY <1>1, MovesOn DEF Moves
<1>3. at + 1 \in DOMAIN Recipes
  BY <1>1, <1>2, Current DEF Idle
<1>4. Recipes[at + 1][1] = "clean-for-reconfigure" /\ Recipes[at + 1][2] = p
  BY <1>1, <1>2
<1> QED
  BY <1>2, <1>3, <1>4, Current DEF OrderlyScript

(* A package that a step of another's recipe leaves alone stays sound.     *)
LEMMA LeftAlone ==
    ASSUME TypeOK, Orderly, NEW q \in Pkg, Sound(q), ~Idle, Moves,
           \A v : Recipes[at] # <<v, q>>,
           stamps'[q] = stamps[q], tree'[q] = tree[q], inst'[q] = inst[q],
           q \in dirty' => q \in dirty
    PROVE  Sound(q)'
<1>1. Honest(q)'
  <2>1. ~Cleaning(q)
    BY DEF Cleaning, Running
  <2> QED
    BY <2>1 DEF Sound, Honest, WorkDone
<1>2. Chained(q)'
  BY DEF Sound, Chained
<1>3. HalfDone(q)'
  <2> SUFFICES ASSUME half' PROVE \A v : ~Running(<<v, q>>)'
    BY DEF HalfDone
  <2>1. Recipes' = Recipes /\ at' = at
    BY MovesOn DEF Moves
  <2> QED
    BY <2>1 DEF Running
<1>4. JustCleaned(q)'
  BY NotJustCleaned
<1> QED
  BY <1>1, <1>2, <1>3, <1>4 DEF Sound

(* The first half of a recipe. *)
LEMMA FirstHalfStep ==
    ASSUME TypeOK, NEW p \in Pkg, Sound(p), NEW v, Running(<<v, p>>), FirstHalf,
           v # ".stamp_uninstalled",
           stamps' = stamps, p \in dirty' => p \in dirty,
           AllDone(p)' \/ (v = ".stamp_cleaned" /\ DoneButBuilt(p)'),
           v \in Stamp => WorkDone(v, p)'
    PROVE  Sound(p)'
<1>0. Recipes[at] = <<v, p>> /\ ~Idle /\ Recipes' = Recipes /\ at' = at /\ half'
  BY DEF Running, FirstHalf, Recipes
<1>1. Honest(p)'
  <2>1. CASE v = ".stamp_cleaned"
    <3>1. ~Idle' /\ ~UpToDate(<<v, p>>)'
      BY <1>0, <2>1 DEF Idle, UpToDate, Stamp
    <3>2. Cleaning(p)'
      BY <1>0, <2>1, <3>1 DEF Cleaning, Running
    <3> QED
      BY <3>2 DEF Honest, AllDone, DoneButBuilt
  <2>2. CASE v # ".stamp_cleaned"
    BY <2>2 DEF Honest, AllDone
  <2> QED
    BY <2>1, <2>2
<1>2. Chained(p)'
  BY DEF Sound, Chained
<1>3. HalfDone(p)'
  <2>1. \A w : Running(<<w, p>>)' => w = v
    BY <1>0 DEF Running
  <2> QED
    BY <2>1 DEF HalfDone
<1>4. JustCleaned(p)'
  BY <1>0 DEF JustCleaned
<1> QED
  BY <1>1, <1>2, <1>3, <1>4 DEF Sound

(* A recipe's end, or the whole of a short one. *)
LEMMA DoneStep ==
    ASSUME TypeOK, Orderly, NEW p \in Pkg, NEW v, Running(<<v, p>>), Done,
           p \in dirty' => p \in OverridePkg,
           AllDone(p)', Chained(p)', v = "clean-for-rebuild" => JustCleaned(p)'
    PROVE  Sound(p)'
<1>0. Recipes[at] = <<v, p>> /\ ~Idle /\ Moves
  BY DEF Running, Moves
<1>1. Honest(p)'
  BY DEF Honest, AllDone
<1>2. HalfDone(p)'
  BY DEF HalfDone, Done
<1>3. JustCleaned(p)'
  BY <1>0, NotJustCleaned
<1> QED
  BY <1>1, <1>2, <1>3 DEF Sound

(* A recipe that ends the invocation. *)
LEMMA BreakStep ==
    ASSUME TypeOK, NEW p \in Pkg, Sound(p), NEW v, Running(<<v, p>>), GiveUp,
           stamps' = stamps, p \in dirty' => p \in dirty, AllDone(p)'
    PROVE  Sound(p)'
<1>1. Idle' /\ ~half'
  BY MovesOn DEF Moves, Running
<1>2. Honest(p)'
  BY DEF Honest, AllDone
<1>3. Chained(p)'
  BY DEF Sound, Chained
<1>4. HalfDone(p)' /\ JustCleaned(p)'
  BY <1>1 DEF HalfDone, JustCleaned
<1> QED
  BY <1>2, <1>3, <1>4 DEF Sound

(* The recipes of one package leave the others alone.                      *)
LEMMA RecipeFrame ==
    ASSUME TypeOK, NEW p \in Pkg, Recipe(p) \/ Break(p), NEW q \in Pkg \ {p}
    PROVE  /\ ~Idle /\ Moves /\ \A v : Recipes[at] # <<v, q>>
           /\ stamps'[q] = stamps[q] /\ tree'[q] = tree[q] /\ inst'[q] = inst[q]
           /\ q \in dirty' => q \in dirty
<1>0. /\ stamps \in [Pkg -> SUBSET Stamp] /\ tree \in [Pkg -> [Work -> Quality]]
      /\ inst \in [Pkg -> [Area -> Quality]]
  BY DEF TypeOK, PkgTypeOK
<1>1. ASSUME NEW t, Running(<<t, p>>)
      PROVE  ~Idle /\ \A v : Recipes[at] # <<v, q>>
  BY <1>1 DEF Running
<1>2. CASE Recipe(p)
  <2>1. (\E t : Running(<<t, p>>)) /\ Moves
    BY <1>2 DEF Recipe, Touch, DownloadCmds, RsyncSourced, ExtractCmds, RsyncCmds, PatchCmds,
        ConfigureCmds, BuildCmds, InstallCmds, UninstallStamps, UninstallCmds, CleanCmds, CleanStamp,
        Dirclean, DircleanThen, CleanForRebuild, CleanForReconfigure, PatchFails, Whole, Moves
  <2>2. stamps'[q] = stamps[q]
    BY <1>0, <1>2 DEF Recipe, Touch, DownloadCmds, RsyncSourced, ExtractCmds, RsyncCmds, PatchCmds,
        ConfigureCmds, BuildCmds, InstallCmds, UninstallStamps, UninstallCmds, CleanCmds, CleanStamp,
        Dirclean, DircleanThen, CleanForRebuild, CleanForReconfigure, PatchFails, pkgVars
  <2>3. tree'[q] = tree[q]
    BY <1>0, <1>2 DEF Recipe, Touch, DownloadCmds, RsyncSourced, ExtractCmds, RsyncCmds, PatchCmds,
        ConfigureCmds, BuildCmds, InstallCmds, UninstallStamps, UninstallCmds, CleanCmds, CleanStamp,
        Dirclean, DircleanThen, CleanForRebuild, CleanForReconfigure, PatchFails, pkgVars
  <2>4. inst'[q] = inst[q]
    BY <1>0, <1>2 DEF Recipe, Touch, DownloadCmds, RsyncSourced, ExtractCmds, RsyncCmds, PatchCmds,
        ConfigureCmds, BuildCmds, InstallCmds, UninstallStamps, UninstallCmds, CleanCmds, CleanStamp,
        Dirclean, DircleanThen, CleanForRebuild, CleanForReconfigure, PatchFails, pkgVars
  <2>5. dirty' \subseteq dirty
    BY <1>2, RecipeEdits
  <2> QED
    BY <1>1, <2>1, <2>2, <2>3, <2>4, <2>5
<1>3. CASE Break(p)
  <2>1. (\E t : Running(<<t, p>>)) /\ Moves /\ dirty' = dirty
    BY <1>3 DEF Break, BreakBeforeTouch, BreakDownload, BreakExtract, BreakRsync, BreakPatch,
        BreakConfigure, BreakBuild, BreakInstall, BreakUninstall, BreakClean, BreakDirclean,
        BreakCleanForRebuild, Breaks, Moves, pkgVars
  <2>2. stamps'[q] = stamps[q]
    BY <1>0, <1>3 DEF Break, BreakBeforeTouch, BreakDownload, BreakExtract, BreakRsync, BreakPatch,
        BreakConfigure, BreakBuild, BreakInstall, BreakUninstall, BreakClean, BreakDirclean,
        BreakCleanForRebuild, pkgVars
  <2>3. tree'[q] = tree[q]
    BY <1>0, <1>3 DEF Break, BreakBeforeTouch, BreakDownload, BreakExtract, BreakRsync, BreakPatch,
        BreakConfigure, BreakBuild, BreakInstall, BreakUninstall, BreakClean, BreakDirclean,
        BreakCleanForRebuild, pkgVars
  <2>4. inst'[q] = inst[q]
    BY <1>0, <1>3 DEF Break, BreakBeforeTouch, BreakDownload, BreakExtract, BreakRsync, BreakPatch,
        BreakConfigure, BreakBuild, BreakInstall, BreakUninstall, BreakClean, BreakDirclean,
        BreakCleanForRebuild, pkgVars
  <2> QED
    BY <1>1, <2>1, <2>2, <2>3, <2>4
<1> QED
  BY <1>2, <1>3

(* The stamps that can be there when a step's recipe runs. *)
LEMMA StampsBefore ==
    ASSUME TypeOK, Orderly, NEW p \in Pkg, Chained(p), NEW v \in Stamp, Running(<<v, p>>)
    PROVE  /\ v \notin stamps[p] /\ stamps[p] \subseteq Stamp
           /\ v = ".stamp_extracted"  => stamps[p] \subseteq {".stamp_downloaded"}
           /\ v = ".stamp_rsynced"    =>
                 stamps[p] \subseteq {".stamp_downloaded", ".stamp_patched", ".stamp_configured"}
           /\ v = ".stamp_patched"    =>
                 stamps[p] \subseteq {".stamp_downloaded", ".stamp_extracted"}
           /\ v = ".stamp_configured" =>
                 stamps[p] \subseteq {".stamp_downloaded", ".stamp_extracted",
                                    ".stamp_rsynced", ".stamp_patched"}
<1>1. v \notin stamps[p] /\ ~Idle /\ Recipes[at] = <<v, p>>
  BY DEF Running, UpToDate
<1>2. /\ v = ".stamp_rsynced" => p \in OverridePkg
      /\ v \in {".stamp_extracted", ".stamp_patched"} => p \notin OverridePkg
  BY <1>1, Current DEF OrderlyScript
<1>3. stamps[p] \subseteq Stamp
  BY DEF TypeOK, PkgTypeOK
<1>5. Stamp = {".stamp_downloaded", ".stamp_extracted", ".stamp_rsynced", ".stamp_patched",
               ".stamp_configured", ".stamp_built"} \cup Installing
  BY InstallStamps DEF Stamp
<1>6. \A s \in stamps[p] \cap ({".stamp_built"} \cup Installing) :
         /\ ".stamp_configured" \in stamps[p]
         /\ p \in OverridePkg => ".stamp_rsynced" \in stamps[p]
  BY DEF Chained
<1>7. /\ p \in OverridePkg => ".stamp_extracted" \notin stamps[p]
      /\ p \notin OverridePkg =>
            /\ ".stamp_configured" \in stamps[p] => ".stamp_patched" \in stamps[p]
            /\ ".stamp_patched" \in stamps[p] => ".stamp_extracted" \in stamps[p]
            /\ ".stamp_rsynced" \notin stamps[p]
  BY DEF Chained
<1>8. CASE v = ".stamp_extracted"
  BY <1>1, <1>2, <1>3, <1>5, <1>6, <1>7, <1>8
<1>9. CASE v = ".stamp_rsynced"
  BY <1>1, <1>2, <1>3, <1>5, <1>6, <1>7, <1>9
<1>10. CASE v = ".stamp_patched"
  BY <1>1, <1>2, <1>3, <1>5, <1>6, <1>7, <1>10
<1>11. CASE v = ".stamp_configured"
  BY <1>1, <1>2, <1>3, <1>5, <1>6, <1>7, <1>11
<1> QED
  BY <1>1, <1>3, <1>8, <1>9, <1>10, <1>11

(* When a sound package is configured or built, its source and its         *)
(* dependencies are as they should be, if these are sound too.             *)
SoundDeps(p) == \A i \in DOMAIN Dependencies[p] : Sound(Dependencies[p][i])

LEMMA InputsReady ==
    ASSUME TypeOK, Orderly, PassedIsDone, NEW p \in Pkg, Sound(p), SoundDeps(p),
           NEW v \in {".stamp_configured", ".stamp_built"}, Running(<<v, p>>)
    PROVE  SourceReady(p) /\ DepsInstalled(p)
<1>0. Recipes[at] = <<v, p>> /\ ~Idle /\ v \in Stamp
  BY DEF Running, Stamp
<1>1. \A t \in SourceNeeds(p) \cup DepNeeds(p) : t[1] \in stamps[t[2]]
  <2>1. SourceNeeds(p) \cup DepNeeds(p) \subseteq Needs(<<v, p>>)
    BY NeedsOf
  <2>2. Recipes[at][1] = v /\ Recipes[at][2] = p
    BY <1>0
  <2> QED
    BY <1>0, <2>1, <2>2, NeedsMet
<1>2. \A q \in Pkg : Sound(q) => \A s \in stamps[q] : WorkDone(s, q)
  BY NowDone DEF AllDone
<1>3. SourceReady(p)
  <2>1. CASE p \in OverridePkg
    <3>1. ".stamp_rsynced" \in stamps[p]
      <4>1. <<".stamp_rsynced", p>> \in SourceNeeds(p)
        BY <2>1 DEF SourceNeeds
      <4> QED
        BY <4>1, <1>1
    <3> QED
      BY <2>1, <3>1, <1>2 DEF SourceReady, WorkDone
  <2>2. CASE p \notin OverridePkg
    <3>1. ".stamp_extracted" \in stamps[p] /\ ".stamp_patched" \in stamps[p]
      <4>1. {<<".stamp_extracted", p>>, <<".stamp_patched", p>>} \subseteq SourceNeeds(p)
        BY <2>2 DEF SourceNeeds
      <4> QED
        BY <4>1, <1>1
    <3> QED
      BY <2>2, <3>1, <1>2 DEF SourceReady, WorkDone
  <2> QED
    BY <2>1, <2>2
<1>4. DepsInstalled(p)
  <2> SUFFICES ASSUME NEW i \in DOMAIN Dependencies[p], NEW x \in Areas(Dependencies[p][i])
               PROVE  inst[Dependencies[p][i]][x] = "good"
    BY DEF DepsInstalled, Installed
  <2>1. Dependencies[p][i] \in Pkg /\ Sound(Dependencies[p][i])
    BY PkgAssumption DEF SoundDeps
  <2>2. x \in Area
    BY DEF Areas, Area
  <2>3. InstallStamp[x] \in stamps[Dependencies[p][i]]
    <3>1. <<InstallStamp[x], Dependencies[p][i]>> \in DepNeeds(p)
      BY DEF DepNeeds
    <3> QED
      BY <3>1, <1>1
  <2> QED
    BY <2>1, <2>2, <2>3, <1>2 DEF WorkDone
<1> QED
  BY <1>3, <1>4

(* A stamp made in its turn extends the chain. *)
LEMMA ChainedOn ==
    ASSUME TypeOK, Orderly, PassedIsDone, NEW p \in Pkg, Chained(p), NEW s \in Stamp, Running(<<s, p>>),
           stamps'[p] = stamps[p] \cup {s}
    PROVE  Chained(p)'
<1>0. Recipes[at] = <<s, p>> /\ ~Idle
  BY DEF Running
<1>1. \A t \in Needs(<<s, p>>) : t[1] \in stamps[t[2]]
  BY <1>0, NeedsMet
<1>2. /\ s = ".stamp_rsynced" => p \in OverridePkg
      /\ s \in {".stamp_extracted", ".stamp_patched"} => p \notin OverridePkg
  BY <1>0, Current DEF OrderlyScript
<1>3. CASE s \in {".stamp_downloaded", ".stamp_extracted", ".stamp_rsynced"}
  BY <1>0, <1>2, <1>3, InstallStamps DEF Chained
<1>4. CASE s = ".stamp_patched"
  <2>1. <<".stamp_extracted", p>> \in Needs(<<s, p>>)
    BY <1>4, NeedsOf
  <2>2. ".stamp_extracted" \in stamps[p]
    BY <1>1, <2>1
  <2> QED
    BY <1>0, <1>2, <1>4, <2>2, InstallStamps DEF Chained
<1>5. CASE s \in {".stamp_configured", ".stamp_built"}
  <2>1. SourceNeeds(p) \subseteq Needs(<<s, p>>)
    BY <1>5, NeedsOf
  <2>2. IF p \in OverridePkg THEN ".stamp_rsynced" \in stamps[p]
                             ELSE ".stamp_patched" \in stamps[p]
    <3>1. CASE p \in OverridePkg
      <4>1. <<".stamp_rsynced", p>> \in SourceNeeds(p)
        BY <3>1 DEF SourceNeeds
      <4> QED
        BY <1>1, <2>1, <3>1, <4>1
    <3>2. CASE p \notin OverridePkg
      <4>1. <<".stamp_patched", p>> \in SourceNeeds(p)
        BY <3>2 DEF SourceNeeds
      <4> QED
        BY <1>1, <2>1, <3>2, <4>1
    <3> QED
      BY <3>1, <3>2
  <2>3. s = ".stamp_built" => ".stamp_configured" \in stamps[p]
    <3>1. s = ".stamp_built" => <<".stamp_configured", p>> \in Needs(<<s, p>>)
      BY NeedsOf
    <3> QED
      BY <1>1, <3>1
  <2> QED
    BY <1>0, <1>5, <2>2, <2>3, InstallStamps DEF Chained
<1>6. CASE s \in Installing
  <2>1. PICK x \in Area : s = InstallStamp[x]
    BY <1>6 DEF Installing
  <2>2. <<".stamp_built", p>> \in Needs(<<s, p>>)
    BY <2>1, NeedsOf
  <2>3. ".stamp_built" \in stamps[p]
    BY <1>1, <2>2
  <2> QED
    BY <1>0, <1>6, <2>3, InstallStamps DEF Chained
<1> QED
  BY <1>3, <1>4, <1>5, <1>6, InstallStamps DEF Stamp

(* The same for a recipe that is known to be running. *)
LEMMA RunningNeedsMet ==
    ASSUME TypeOK, Orderly, PassedIsDone, NEW p \in Pkg, NEW v \in Stamp, Running(<<v, p>>)
    PROVE  \A t \in Needs(<<v, p>>) : t[1] \in stamps[t[2]]
<1>1. Recipes[at] = <<v, p>> /\ ~Idle
  BY DEF Running
<1> QED
  BY <1>1, NeedsMet

(* The recipes of <p>-clean-for-rebuild and <p>-clean-for-reconfigure.       *)
LEMMA CleanForSound ==
    ASSUME TypeOK, Orderly, NEW p \in Pkg, Sound(p), CleanForRebuild(p) \/ CleanForReconfigure(p)
    PROVE  Sound(p)'
<1>0. stamps \in [Pkg -> SUBSET Stamp] /\ Chained(p) /\ JustCleaned(p) /\ (p \in dirty => p \in OverridePkg)
  BY DEF TypeOK, PkgTypeOK, Sound
<1>1. CASE CleanForRebuild(p)
  <2>1. Running(<<"clean-for-rebuild", p>>) /\ Done /\ Recipes' = Recipes
    BY <1>1 DEF CleanForRebuild, Whole, Done, Recipes
  <2>2. /\ stamps'[p] = stamps[p] \ FirstStamps(p, Len(RebuildStamps(p)))
        /\ tree' = tree /\ inst' = inst /\ dirty' = dirty
    BY <1>1, <1>0 DEF CleanForRebuild, topVars
  <2>3. stamps'[p] = stamps[p] \ ({".stamp_built"} \cup Installing
                        \cup (IF p \in OverridePkg THEN {".stamp_rsynced"} ELSE {}))
    BY <2>2, RebuildSet
  <2>4. AllDone(p)'
    <3>1. AllDone(p)
      BY <1>0, <2>1, NowDone
    <3> QED
      BY <2>2, <2>3, <3>1 DEF AllDone, WorkDone
  <2>5. Chained(p)'
    BY <1>0, <2>3, InstallStamps DEF Chained
  <2>6. JustCleaned(p)'
    BY <2>3 DEF JustCleaned
  <2> QED
    BY <1>0, <2>1, <2>2, <2>4, <2>5, <2>6, DoneStep DEF Stamp
<1>2. CASE CleanForReconfigure(p)
  <2>1. Running(<<"clean-for-reconfigure", p>>) /\ Done /\ ~half
    BY <1>2 DEF CleanForReconfigure, Whole
  <2>2. /\ stamps'[p] = stamps[p] \ {".stamp_configured"}
        /\ tree' = tree /\ inst' = inst /\ dirty' = dirty
    BY <1>2, <1>0 DEF CleanForReconfigure, topVars
  <2>3. AllDone(p)'
    <3>1. AllDone(p)
      BY <2>1, NowDone
    <3> QED
      BY <2>2, <3>1 DEF AllDone, WorkDone
  <2>4. stamps[p] \cap ({".stamp_built"} \cup Installing) = {}
    BY <1>0, <2>1 DEF JustCleaned, Running
  <2>5. Chained(p)'
    BY <1>0, <2>2, <2>4, InstallStamps DEF Chained
  <2> QED
    BY <1>0, <2>1, <2>2, <2>3, <2>5, DoneStep
<1> QED
  BY <1>1, <1>2

(* Removing the build directory makes it sound, whatever was there.        *)
LEMMA DircleanSound ==
    ASSUME TypeOK, Orderly, NEW p \in Pkg, Dirclean(p)
    PROVE  Sound(p)'
<1>1. Running(<<".stamp_dircleaned", p>>) /\ Done
  BY DEF Dirclean, DircleanThen, Whole
<1>2. stamps'[p] = {} /\ (p \in dirty' => p \in OverridePkg)
  BY DEF Dirclean, DircleanThen, TypeOK, PkgTypeOK
<1>3. AllDone(p)' /\ Chained(p)'
  BY <1>2 DEF AllDone, Chained
<1> QED
  BY <1>1, <1>2, <1>3, DoneStep

(* The recipes of a package leave it sound.                                *)
LEMMA RecipeSound ==
    ASSUME TypeOK, Orderly, PassedIsDone, NEW p \in Pkg, Sound(p),
           Recipes[at][1] \in Stamp => SoundDeps(p), Recipe(p)
    PROVE  Sound(p)'
<1> USE DEF pkgVars, topVars, Whole
<1>0. /\ stamps \in [Pkg -> SUBSET Stamp] /\ tree \in [Pkg -> [Work -> Quality]]
      /\ inst \in [Pkg -> [Area -> Quality]] /\ (p \in dirty => p \in OverridePkg)
      /\ Honest(p) /\ Chained(p) /\ HalfDone(p)
  BY DEF TypeOK, PkgTypeOK, Sound
<1>1. CASE Touch(p)
  <2>1. PICK s \in Stamp : Running(<<s, p>>) /\ stamps' = [stamps EXCEPT ![p] = @ \cup {s}]
    BY <1>1 DEF Touch
  <2>2. tree' = tree /\ inst' = inst /\ dirty' = dirty /\ half /\ Done
    BY <1>1 DEF Touch
  <2>3. stamps'[p] = stamps[p] \cup {s}
    BY <1>0, <2>1
  <2>4. AllDone(p)
    BY <1>0, <2>1, NowDone DEF Stamp
  <2>5. WorkDone(s, p)
    BY <1>0, <2>1, <2>2 DEF HalfDone
  <2>6. AllDone(p)'
    BY <2>2, <2>3, <2>4, <2>5 DEF AllDone, WorkDone
  <2>7. Chained(p)'
    BY <1>0, <2>1, <2>3, ChainedOn
  <2> QED
    BY <1>0, <2>1, <2>2, <2>6, <2>7, DoneStep DEF Stamp
<1>2. CASE DownloadCmds(p)
  <2>1. AllDone(p)
    BY <1>0, <1>2, NowDone DEF DownloadCmds
  <2>2. AllDone(p)'
    BY <1>2, <2>1 DEF DownloadCmds, AllDone, WorkDone
  <2>3. WorkDone(".stamp_downloaded", p)'
    BY InstallStamps DEF WorkDone
  <2> QED
    BY <1>2, <2>2, <2>3, FirstHalfStep DEF DownloadCmds
<1>3. CASE RsyncSourced(p)
  <2>1. AllDone(p)
    BY <1>0, <1>3, NowDone DEF RsyncSourced
  <2>2. AllDone(p)'
    BY <1>3, <2>1 DEF RsyncSourced, AllDone, WorkDone
  <2>3. Chained(p)'
    BY <1>3, <1>0 DEF RsyncSourced, Chained
  <2> QED
    BY <1>0, <1>3, <2>2, <2>3, DoneStep DEF RsyncSourced, Stamp
<1>4. CASE ExtractCmds(p)
  <2>1. Running(<<".stamp_extracted", p>>) /\ FirstHalf
    BY <1>4 DEF ExtractCmds
  <2>2. stamps[p] \subseteq {".stamp_downloaded"}
    BY <1>0, <2>1, StampsBefore DEF Stamp
  <2>3. AllDone(p)'
    BY <1>4, <2>2, InstallStamps DEF ExtractCmds, AllDone, WorkDone
  <2>4. WorkDone(".stamp_extracted", p)'
    BY <1>4, <1>0, InstallStamps DEF WorkDone, ExtractCmds, Work, StaleAll
  <2> QED
    BY <1>4, <1>0, <2>3, <2>4, FirstHalfStep DEF ExtractCmds
<1>5. CASE RsyncCmds(p)
  <2>1. Running(<<".stamp_rsynced", p>>) /\ FirstHalf
    BY <1>5 DEF RsyncCmds
  <2>2. stamps[p] \subseteq {".stamp_downloaded", ".stamp_patched", ".stamp_configured"}
    BY <1>0, <2>1, StampsBefore DEF Stamp
  <2>3. /\ tree'[p]["source"] = "good" /\ tree'[p]["patches"] = tree[p]["patches"]
        /\ tree'[p]["config"] = tree[p]["config"]
    BY <1>5, <1>0, SMT DEF RsyncCmds, Work
  <2>4. AllDone(p)
    BY <1>0, <2>1, NowDone
  <2>5. AllDone(p)'
    BY <1>5, <2>2, <2>3, <2>4, InstallStamps DEF RsyncCmds, AllDone, WorkDone
  <2>6. WorkDone(".stamp_rsynced", p)'
    BY <2>3, InstallStamps DEF WorkDone
  <2> QED
    BY <1>5, <2>5, <2>6, FirstHalfStep DEF RsyncCmds
<1>6. CASE PatchCmds(p)
  <2>1. Running(<<".stamp_patched", p>>) /\ FirstHalf
    BY <1>6 DEF PatchCmds
  <2>2. stamps[p] \subseteq {".stamp_downloaded", ".stamp_extracted"}
    BY <1>0, <2>1, StampsBefore DEF Stamp
  <2>3. AllDone(p)
    BY <1>0, <2>1, NowDone
  <2>4. tree'[p]["source"] = tree[p]["source"]
    BY <1>6, <1>0 DEF PatchCmds, Work
  <2>5. AllDone(p)'
    BY <1>6, <2>2, <2>3, <2>4, InstallStamps DEF PatchCmds, AllDone, WorkDone
  <2>6. tree[p]["source"] = "good"
    <3>1. <<".stamp_extracted", p>> \in Needs(<<".stamp_patched", p>>)
      BY NeedsOf
    <3>2. \A t \in Needs(<<".stamp_patched", p>>) : t[1] \in stamps[t[2]]
      BY <1>0, <2>1, RunningNeedsMet DEF Stamp
    <3>3. ".stamp_extracted" \in stamps[p]
      BY <3>1, <3>2
    <3> QED
      BY <2>3, <3>3 DEF AllDone, WorkDone
  <2>7. WorkDone(".stamp_patched", p)'
    BY <1>6, <1>0, <2>6, InstallStamps DEF WorkDone, PatchCmds, GoodIf, Work
  <2> QED
    BY <1>6, <1>0, <2>5, <2>7, FirstHalfStep DEF PatchCmds
<1>7. CASE ConfigureCmds(p)
  <2>1. Running(<<".stamp_configured", p>>) /\ FirstHalf
    BY <1>7 DEF ConfigureCmds
  <2>2. stamps[p] \subseteq {".stamp_downloaded", ".stamp_extracted", ".stamp_rsynced",
                           ".stamp_patched"}
    BY <1>0, <2>1, StampsBefore DEF Stamp
  <2>3. AllDone(p)
    BY <1>0, <2>1, NowDone
  <2>4. SourceReady(p) /\ DepsInstalled(p)
    <3>1. SoundDeps(p)
      BY <2>1 DEF Running, Stamp
    <3> QED
      BY <2>1, <3>1, InputsReady
  <2>5. /\ tree'[p]["source"] = tree[p]["source"] /\ tree'[p]["patches"] = tree[p]["patches"]
        /\ tree'[p]["config"] = "good"
    BY <1>7, <1>0, <2>4, SMT DEF ConfigureCmds, GoodIf, Work
  <2>6. AllDone(p)'
    BY <1>7, <2>2, <2>3, <2>5, InstallStamps DEF ConfigureCmds, AllDone, WorkDone
  <2>7. WorkDone(".stamp_configured", p)'
    BY <2>5, InstallStamps DEF WorkDone
  <2> QED
    BY <1>7, <2>6, <2>7, FirstHalfStep DEF ConfigureCmds
<1>8. CASE BuildCmds(p)
  <2>1. Running(<<".stamp_built", p>>) /\ FirstHalf
    BY <1>8 DEF BuildCmds
  <2>2. ".stamp_built" \notin stamps[p]
    BY <2>1 DEF Running, UpToDate, Stamp
  <2>3. AllDone(p)
    BY <1>0, <2>1, NowDone
  <2>4. SourceReady(p) /\ DepsInstalled(p)
    <3>1. SoundDeps(p)
      BY <2>1 DEF Running, Stamp
    <3> QED
      BY <2>1, <3>1, InputsReady
  <2>5. tree[p]["config"] = "good"
    <3>1. <<".stamp_configured", p>> \in Needs(<<".stamp_built", p>>)
      BY NeedsOf
    <3>2. \A t \in Needs(<<".stamp_built", p>>) : t[1] \in stamps[t[2]]
      BY <1>0, <2>1, RunningNeedsMet DEF Stamp
    <3>3. ".stamp_configured" \in stamps[p]
      BY <3>1, <3>2
    <3> QED
      BY <2>3, <3>3 DEF AllDone, WorkDone
  <2>6. inst' = inst /\ dirty' = dirty
    <3>1. p \notin dirty \ OverridePkg
      BY <1>0
    <3> QED
      BY <1>8, <1>0, <3>1 DEF BuildCmds
  <2>7. tree' = [tree EXCEPT ![p]["objects"] = "good"]
    BY <1>8, <2>4, <2>5 DEF BuildCmds, GoodIf
  <2>8. /\ \A w \in Work \ {"objects"} : tree'[p][w] = tree[p][w]
        /\ tree'[p]["objects"] = "good"
    BY <2>7, <1>0 DEF Work
  <2>9. AllDone(p)'
    BY <1>8, <2>2, <2>3, <2>6, <2>8 DEF BuildCmds, AllDone, WorkDone, Work
  <2>10. WorkDone(".stamp_built", p)'
    BY <2>8, InstallStamps DEF WorkDone
  <2> QED
    BY <1>8, <1>0, <2>6, <2>7, <2>9, <2>10, FirstHalfStep DEF BuildCmds
<1>9. ASSUME NEW x \in Area, InstallCmds(p, x)
      PROVE  Sound(p)'
  <2>1. Running(<<InstallStamp[x], p>>) /\ FirstHalf
    BY <1>9 DEF InstallCmds
  <2>2. AllDone(p)
    BY <1>0, <2>1, NowDone, InstallStamps DEF Stamp
  <2>3. tree[p]["objects"] = "good"
    <3>1. <<".stamp_built", p>> \in Needs(<<InstallStamp[x], p>>)
      BY NeedsOf
    <3>2. \A t \in Needs(<<InstallStamp[x], p>>) : t[1] \in stamps[t[2]]
      BY <1>0, <2>1, RunningNeedsMet, InstallStamps
    <3>3. ".stamp_built" \in stamps[p]
      BY <3>1, <3>2
    <3> QED
      BY <2>2, <3>3 DEF AllDone, WorkDone
  <2>4. inst' = [inst EXCEPT ![p][x] = "good"]
    BY <1>9, <2>3 DEF InstallCmds, GoodIf
  <2>5. inst'[p][x] = "good" /\ \A y \in Area \ {x} : inst'[p][y] = inst[p][y]
    BY <2>4, <1>0
  <2>6. AllDone(p)'
    BY <1>9, <2>2, <2>5 DEF InstallCmds, AllDone, WorkDone
  <2>7. WorkDone(InstallStamp[x], p)'
    BY <2>5, InstallStamps DEF WorkDone
  <2>8. InstallStamp[x] # ".stamp_uninstalled"
    BY InstallStamps DEF Stamp
  <2> QED
    BY <1>9, <1>0, <2>4, <2>6, <2>7, <2>8, FirstHalfStep DEF InstallCmds
<1>10. CASE UninstallStamps(p)
  <2>1. Running(<<".stamp_uninstalled", p>>) /\ FirstHalf /\ Recipes' = Recipes /\ ~Idle
    BY <1>10 DEF UninstallStamps, Running, FirstHalf, Recipes
  <2>2. /\ stamps'[p] = stamps[p] \ {".stamp_staging_installed", ".stamp_target_installed"}
        /\ tree' = tree /\ inst' = inst /\ dirty' = dirty
    BY <1>10, <1>0 DEF UninstallStamps
  <2>3. Honest(p)'
    <3>1. AllDone(p)
      BY <2>1, NowDone
    <3> QED
      BY <2>2, <3>1 DEF AllDone, Honest, WorkDone
  <2>4. Chained(p)'
    BY <1>0, <2>2, InstallStamps DEF Chained
  <2>5. HalfDone(p)'
    <3>1. \A w : Running(<<w, p>>)' => w = ".stamp_uninstalled"
      BY <2>1 DEF Running, FirstHalf
    <3> QED
      BY <2>2, <3>1 DEF HalfDone, Stamp
  <2>6. JustCleaned(p)'
    BY <2>1 DEF JustCleaned, FirstHalf
  <2> QED
    BY <1>0, <2>2, <2>3, <2>4, <2>5, <2>6 DEF Sound
<1>11. CASE UninstallCmds(p)
  <2>1. Running(<<".stamp_uninstalled", p>>) /\ half /\ Done
    BY <1>11 DEF UninstallCmds
  <2>2. stamps[p] \cap {".stamp_staging_installed", ".stamp_target_installed"} = {}
    BY <1>0, <2>1 DEF HalfDone
  <2>3. AllDone(p)
    BY <1>0, <2>1, NowDone
  <2>4. \A x \in Area \ {"staging", "target"} : inst'[p][x] = inst[p][x]
    BY <1>11, <1>0, SMT DEF UninstallCmds, Area
  <2>5. AllDone(p)'
    <3>1. \A x \in Area : InstallStamp[x] \in stamps[p] => inst'[p][x] = inst[p][x]
      BY <2>2, <2>4 DEF InstallStamp, Area
    <3> QED
      BY <1>11, <2>3, <3>1 DEF UninstallCmds, AllDone, WorkDone
  <2>6. Chained(p)'
    BY <1>11, <1>0 DEF UninstallCmds, Chained
  <2> QED
    BY <1>0, <1>11, <2>1, <2>5, <2>6, DoneStep DEF UninstallCmds, Stamp
<1>12. CASE CleanCmds(p)
  <2>1. Running(<<".stamp_cleaned", p>>) /\ FirstHalf
    BY <1>12 DEF CleanCmds
  <2>2. AllDone(p)
    BY <1>0, <2>1, NowDone DEF FirstHalf
  <2>3. \A w \in Work \ {"objects"} : tree'[p][w] = tree[p][w]
    BY <1>12, <1>0 DEF CleanCmds, Work
  <2>4. DoneButBuilt(p)'
    BY <1>12, <2>2, <2>3 DEF CleanCmds, AllDone, DoneButBuilt, WorkDone, Work
  <2> QED
    BY <1>12, <1>0, <2>1, <2>4, FirstHalfStep DEF CleanCmds, Stamp
<1>13. CASE CleanStamp(p)
  <2>1. Running(<<".stamp_cleaned", p>>) /\ half /\ Done
    BY <1>13 DEF CleanStamp
  <2>2. /\ stamps'[p] = stamps[p] \ {".stamp_built"}
        /\ tree' = tree /\ inst' = inst /\ dirty' = dirty
    BY <1>13, <1>0 DEF CleanStamp
  <2>3. AllDone(p)'
    BY <1>0, <2>2 DEF Honest, AllDone, WorkDone
  <2>4. Chained(p)'
    BY <1>0, <2>2, InstallStamps DEF Chained
  <2> QED
    BY <1>0, <2>1, <2>2, <2>3, <2>4, DoneStep DEF Stamp
<1>14. CASE Dirclean(p)
  BY <1>14, DircleanSound
<1>15. CASE CleanForRebuild(p) \/ CleanForReconfigure(p)
  BY <1>15, CleanForSound
<1>16. CASE PatchFails(p)
  <2>1. Running(<<".stamp_patched", p>>) /\ GiveUp
    BY <1>16 DEF PatchFails
  <2>2. AllDone(p)
    BY <1>0, <2>1, NowDone
  <2>3. AllDone(p)'
    BY <1>16, <2>2 DEF PatchFails, AllDone, WorkDone
  <2> QED
    BY <1>16, <2>3, BreakStep DEF PatchFails
<1> QED
  BY <1>1, <1>2, <1>3, <1>4, <1>5, <1>6, <1>7, <1>8, <1>9, <1>10, <1>11, <1>12, <1>13,
     <1>14, <1>15, <1>16 DEF Recipe

(* So do those that are cut short, clean-ups excepted.                     *)
LEMMA BreakSound ==
    ASSUME TypeOK, Orderly, NEW p \in Pkg, Sound(p), CarefulWith(p), Break(p)
    PROVE  Sound(p)'
<1> USE DEF pkgVars, topVars, Breaks
<1>0. /\ tree \in [Pkg -> [Work -> Quality]] /\ inst \in [Pkg -> [Area -> Quality]]
      /\ Chained(p) /\ HalfDone(p)
  BY DEF TypeOK, PkgTypeOK, Sound
<1>1. CASE BreakBeforeTouch(p)
  <2>1. PICK s \in Stamp : Running(<<s, p>>) /\ GiveUp
    BY <1>1 DEF BreakBeforeTouch, CarefulWith, CleanUps
  <2>2. AllDone(p)
    BY <1>0, <2>1, NowDone DEF Stamp
  <2>3. AllDone(p)'
    BY <1>1, <2>2 DEF BreakBeforeTouch, AllDone, WorkDone
  <2> QED
    BY <1>1, <2>1, <2>3, BreakStep DEF BreakBeforeTouch
<1>2. CASE BreakDownload(p)
  <2>1. AllDone(p)
    BY <1>0, <1>2, NowDone DEF BreakDownload
  <2>2. AllDone(p)'
    BY <1>2, <2>1 DEF BreakDownload, AllDone, WorkDone
  <2> QED
    BY <1>2, <2>2, BreakStep DEF BreakDownload
<1>3. CASE BreakExtract(p)
  <2>1. stamps[p] \subseteq {".stamp_downloaded"}
    BY <1>0, <1>3, StampsBefore DEF BreakExtract, Stamp
  <2>2. AllDone(p)'
    BY <1>3, <2>1, InstallStamps DEF BreakExtract, AllDone, WorkDone
  <2> QED
    BY <1>3, <1>0, <2>2, BreakStep DEF BreakExtract
<1>4. CASE BreakRsync(p)
  <2>1. stamps[p] \subseteq {".stamp_downloaded", ".stamp_patched", ".stamp_configured"}
    BY <1>0, <1>4, StampsBefore DEF BreakRsync, Stamp
  <2>2. AllDone(p)
    BY <1>0, <1>4, NowDone DEF BreakRsync
  <2>3. tree'[p]["patches"] = tree[p]["patches"] /\ tree'[p]["config"] = tree[p]["config"]
    BY <1>4, <1>0, SMT DEF BreakRsync, Work
  <2>4. AllDone(p)'
    BY <1>4, <2>1, <2>2, <2>3, InstallStamps DEF BreakRsync, AllDone, WorkDone
  <2> QED
    BY <1>4, <2>4, BreakStep DEF BreakRsync
<1>5. CASE BreakPatch(p)
  <2>1. stamps[p] \subseteq {".stamp_downloaded", ".stamp_extracted"}
    BY <1>0, <1>5, StampsBefore DEF BreakPatch, Stamp
  <2>2. AllDone(p)
    BY <1>0, <1>5, NowDone DEF BreakPatch
  <2>3. tree'[p]["source"] = tree[p]["source"]
    BY <1>5, <1>0 DEF BreakPatch, Work
  <2>4. AllDone(p)'
    BY <1>5, <2>1, <2>2, <2>3, InstallStamps DEF BreakPatch, AllDone, WorkDone
  <2> QED
    BY <1>5, <1>0, <2>4, BreakStep DEF BreakPatch
<1>6. CASE BreakConfigure(p)
  <2>1. stamps[p] \subseteq {".stamp_downloaded", ".stamp_extracted", ".stamp_rsynced",
                           ".stamp_patched"}
    BY <1>0, <1>6, StampsBefore DEF BreakConfigure, Stamp
  <2>2. AllDone(p)
    BY <1>0, <1>6, NowDone DEF BreakConfigure
  <2>3. tree'[p]["source"] = tree[p]["source"] /\ tree'[p]["patches"] = tree[p]["patches"]
    BY <1>6, <1>0, SMT DEF BreakConfigure, Work
  <2>4. AllDone(p)'
    BY <1>6, <2>1, <2>2, <2>3, InstallStamps DEF BreakConfigure, AllDone, WorkDone
  <2> QED
    BY <1>6, <2>4, BreakStep DEF BreakConfigure
<1>7. CASE BreakBuild(p)
  <2>1. ".stamp_built" \notin stamps[p]
    BY <1>7 DEF BreakBuild, Running, UpToDate, Stamp
  <2>2. AllDone(p)
    BY <1>0, <1>7, NowDone DEF BreakBuild
  <2>3. \A w \in Work \ {"objects"} : tree'[p][w] = tree[p][w]
    BY <1>7, <1>0 DEF BreakBuild, Work
  <2>4. AllDone(p)'
    BY <1>7, <2>1, <2>2, <2>3 DEF BreakBuild, AllDone, WorkDone, Work
  <2> QED
    BY <1>7, <1>0, <2>4, BreakStep DEF BreakBuild
<1>8. ASSUME NEW x \in Area, BreakInstall(p, x)
      PROVE  Sound(p)'
  <2>1. InstallStamp[x] \notin stamps[p]
    BY <1>8, InstallStamps DEF BreakInstall, Running, UpToDate
  <2>2. AllDone(p)
    BY <1>0, <1>8, NowDone, InstallStamps DEF BreakInstall, Stamp
  <2>3. \A y \in Area \ {x} : inst'[p][y] = inst[p][y]
    BY <1>8, <1>0 DEF BreakInstall
  <2>4. AllDone(p)'
    BY <1>8, <2>1, <2>2, <2>3 DEF BreakInstall, AllDone, WorkDone
  <2> QED
    BY <1>8, <1>0, <2>4, BreakStep DEF BreakInstall
<1>9. CASE BreakUninstall(p)
  <2>1. Running(<<".stamp_uninstalled", p>>) /\ half
    BY <1>9 DEF BreakUninstall
  <2>2. stamps[p] \cap {".stamp_staging_installed", ".stamp_target_installed"} = {}
    BY <1>0, <2>1 DEF HalfDone
  <2>3. AllDone(p)
    BY <1>0, <2>1, NowDone
  <2>4. \A x \in Area \ {"staging", "target"} : inst'[p][x] = inst[p][x]
    BY <1>9, <1>0, SMT DEF BreakUninstall, Area
  <2>5. AllDone(p)'
    <3>1. \A x \in Area : InstallStamp[x] \in stamps[p] => inst'[p][x] = inst[p][x]
      BY <2>2, <2>4 DEF InstallStamp, Area
    <3> QED
      BY <1>9, <2>3, <3>1 DEF BreakUninstall, AllDone, WorkDone
  <2> QED
    BY <1>9, <2>5, BreakStep DEF BreakUninstall
<1>10. CASE BreakClean(p) \/ BreakDirclean(p) \/ BreakCleanForRebuild(p)
  BY <1>10 DEF BreakClean, BreakDirclean, BreakCleanForRebuild, CarefulWith, CleanUps
<1> QED
  BY <1>1, <1>2, <1>3, <1>4, <1>5, <1>6, <1>7, <1>8, <1>9, <1>10 DEF Break

(* A step of make that touches no package.                                 *)
LEMMA UntouchedSound ==
    ASSUME TypeOK, Orderly, NEW p \in Pkg, Sound(p), Done, ~Idle, UNCHANGED pkgVars, ~Cleaning(p),
           Recipes[at] # <<"clean-for-rebuild", p>>
    PROVE  Sound(p)'
<1> USE DEF Sound, pkgVars
<1>1. Honest(p)'
  BY DEF Honest, WorkDone
<1>2. Chained(p)'
  BY DEF Chained
<1>3. HalfDone(p)'
  BY DEF HalfDone, Done
<1>4. JustCleaned(p)'
  BY NotJustCleaned DEF Moves
<1> QED
  BY <1>1, <1>2, <1>3, <1>4

(* make leaves a package sound, if all that it depends on is sound whenever *)
(* a step of some package is made.                                         *)
LEMMA MakeSound ==
    ASSUME TypeOK, Orderly, PassedIsDone, NEW p \in Pkg, Sound(p),
           Recipes[at][1] \in Stamp => SoundDeps(p), Make
    PROVE  Sound(p)'
<1>1. CASE NothingToDo
  <2>1. ~Cleaning(p)
    BY <1>1 DEF NothingToDo, Cleaning, Running
  <2>2. Recipes[at] # <<"clean-for-rebuild", p>>
    BY <1>1 DEF NothingToDo, UpToDate, Stamp
  <2> QED
    BY <1>1, <2>1, <2>2, UntouchedSound DEF NothingToDo
<1>2. CASE InstallToolchain \/ TargetFinalize \/ MakeRootfs \/ PostImage
  <2>1. PICK v \in TopLevel : Recipes[at] = <<v, World>> /\ ~Idle /\ Done /\ ~half
                              /\ UNCHANGED pkgVars
    BY <1>2 DEF InstallToolchain, TargetFinalize, MakeRootfs, PostImage, Running, Whole, TopLevel
  <2>2. ~Cleaning(p)
    BY <2>1 DEF Cleaning
  <2>3. Recipes[at] # <<"clean-for-rebuild", p>>
    BY <2>1 DEF TopLevel
  <2> QED
    BY <2>1, <2>2, <2>3, UntouchedSound
<1>3. CASE Recipe(p)
  BY <1>3, RecipeSound
<1>4. ASSUME NEW q \in Pkg \ {p}, Recipe(q)
      PROVE  Sound(p)'
  BY <1>4, RecipeFrame, LeftAlone
<1> QED
  BY <1>1, <1>2, <1>3, <1>4 DEF Make

(* So does one who is careful with it, between two invocations. *)
LEMMA UserSound ==
    ASSUME TypeOK, Orderly, NEW p \in Pkg, Sound(p), CarefulWith(p), User
    PROVE  Sound(p)'
<1>0. Idle /\ ~Cleaning(p)
  BY DEF User, Invoke, Edit, RemoveStamp, Cleaning, Running
<1>1. ASSUME NEW line \in CommandLines, Invoke(line)
      PROVE  Sound(p)'
  <2> USE <1>1 DEF Invoke, pkgVars, Sound
  <2>1. Honest(p)'
    BY <1>0 DEF Honest, WorkDone
  <2>2. Chained(p)'
    BY DEF Chained
  <2>3. HalfDone(p)'
    BY DEF HalfDone
  <2>4. JustCleaned(p)'
    <3> SUFFICES ASSUME ~Idle', Recipes'[at'] = <<"clean-for-reconfigure", p>>
                 PROVE  FALSE
      BY DEF JustCleaned
    <3>1. Recipes' = Script[line] /\ at' = 1
      BY PlanAssumption DEF Recipes
    <3>2. 1 \in DOMAIN Script[line]
      BY <3>1, ScriptType DEF Idle
    <3>3. Script[line][1][1] = "clean-for-reconfigure"
      BY <3>1
    <3> QED
      BY <3>2, <3>3 DEF Orderly, OrderlyScript
  <2> QED
    BY <2>1, <2>2, <2>3, <2>4
<1>2. ASSUME makeVars' = makeVars, UNCHANGED << tree, inst >>, stamps'[p] = stamps[p],
             p \in dirty' => p \in OverridePkg
      PROVE  Sound(p)'
  <2> USE <1>2 DEF makeVars, Sound
  <2>1. Honest(p)'
    BY <1>0 DEF Honest, WorkDone
  <2>2. Chained(p)'
    BY DEF Chained
  <2>3. Idle'
    BY <1>0 DEF Idle, Recipes
  <2>4. HalfDone(p)' /\ JustCleaned(p)'
    BY <2>3 DEF HalfDone, JustCleaned, Running
  <2> QED
    BY <2>1, <2>2, <2>4
<1>3. ASSUME NEW q \in Pkg, Edit(q)
      PROVE  Sound(p)'
  <2>1. p \in dirty' => p \in dirty \/ p \in Edited
    BY <1>3 DEF Edit
  <2> QED
    BY <1>2, <1>3, <2>1 DEF Edit, Sound, CarefulWith
<1>4. ASSUME NEW q \in Pkg, RemoveStamp(q)
      PROVE  Sound(p)'
  <2>1. PICK s \in stamps[q] : <<s, q>> \in HandRemoved /\ stamps' = [stamps EXCEPT ![q] = @ \ {s}]
    BY <1>4 DEF RemoveStamp
  <2>2. s \in Stamp
    BY <2>1 DEF TypeOK, PkgTypeOK
  <2>3. q # p
    BY <2>1, <2>2 DEF CarefulWith
  <2>4. stamps'[p] = stamps[p]
    BY <2>1, <2>3 DEF TypeOK, PkgTypeOK
  <2> QED
    BY <1>2, <1>4, <2>4 DEF RemoveStamp, Sound
<1> QED
  BY <1>1, <1>3, <1>4 DEF User

(* What makes a package sound are the variables. *)
LEMMA StutterSound ==
    ASSUME NEW p, Sound(p), UNCHANGED vars
    PROVE  Sound(p)'
<1> USE DEF vars, makeVars, pkgVars, topVars, Sound
<1>0. Recipes' = Recipes /\ Idle' = Idle
  BY DEF Recipes, Idle
<1>1. Honest(p)'
  BY <1>0 DEF Honest, WorkDone, Cleaning, Running, UpToDate
<1>2. Chained(p)'
  BY DEF Chained
<1>3. HalfDone(p)'
  BY <1>0 DEF HalfDone, WorkDone, Running, UpToDate
<1>4. JustCleaned(p)'
  BY <1>0 DEF JustCleaned
<1> QED
  BY <1>1, <1>2, <1>3, <1>4

(* Every package is sound before anything is built. *)
LEMMA InitSound ==
    ASSUME Init
    PROVE  PassedIsDone /\ Idle /\ \A p \in Pkg : Sound(p)
<1>1. Idle
  <2>1. Recipes = <<>>
    BY DEF Init, Recipes
  <2> QED
    BY <2>1 DEF Init, Idle
<1>2. PassedIsDone
  BY <1>1 DEF PassedIsDone
<1>3. ASSUME NEW p \in Pkg
      PROVE  Sound(p)
  <2>1. Honest(p) /\ Chained(p)
    BY DEF Init, Honest, Chained
  <2>2. HalfDone(p) /\ JustCleaned(p)
    BY <1>1 DEF Init, HalfDone, JustCleaned
  <2> QED
    BY <2>1, <2>2 DEF Init, Sound
<1> QED
  BY <1>1, <1>2, <1>3

(* A package treated with care stays sound.                                *)
LEMMA SoundStep ==
    ASSUME TypeOK, Orderly, PassedIsDone, NEW p \in Pkg, Sound(p), SoundDeps(p), CarefulWith(p),
           [Next]_vars
    PROVE  Sound(p)'
<1>1. CASE Make
  BY <1>1, MakeSound
<1>2. CASE Break(p)
  BY <1>2, BreakSound
<1>3. ASSUME NEW q \in Pkg \ {p}, Break(q)
      PROVE  Sound(p)'
  BY <1>3, RecipeFrame, LeftAlone
<1>4. CASE User
  BY <1>4, UserSound
<1>5. CASE UNCHANGED vars
  BY <1>5, StutterSound
<1> QED
  BY <1>1, <1>2, <1>3, <1>4, <1>5 DEF Next, Fault

(* What make does when it does not go on.                                  *)
LEMMA FaultStops ==
    ASSUME TypeOK, Fault
    PROVE  Idle'
<1>1. GiveUp /\ ~Idle
  BY DEF Fault, Break, BreakBeforeTouch, BreakDownload, BreakExtract, BreakRsync, BreakPatch,
         BreakConfigure, BreakBuild, BreakInstall, BreakUninstall, BreakClean, BreakDirclean,
         BreakCleanForRebuild, Breaks, Running
<1> QED
  BY <1>1, MovesOn DEF Moves

LEMMA MakeStopsOrGoesOn ==
    ASSUME TypeOK, Make
    PROVE  GoesOn \/ Idle'
<1>1. ~Idle
  BY DEF Make, NothingToDo, InstallToolchain, TargetFinalize, MakeRootfs, PostImage, Recipe,
         Touch, DownloadCmds, RsyncSourced, ExtractCmds, RsyncCmds, PatchCmds, ConfigureCmds,
         BuildCmds, InstallCmds, UninstallStamps, UninstallCmds, CleanCmds, CleanStamp, Dirclean,
         DircleanThen, CleanForRebuild, CleanForReconfigure, PatchFails, Running
<1> QED
  BY <1>1, MovesOn DEF GoesOn, Moves

(* The steps after which make is running.                                  *)
LEMMA StillRunning ==
    ASSUME TypeOK, [Next]_vars, ~Idle'
    PROVE  \/ GoesOn
           \/ \E line \in CommandLines : Invoke(line)
           \/ UNCHANGED vars /\ Recipes' = Recipes /\ ~Idle
<1>1. CASE User
  <2>1. ASSUME NEW q \in Pkg, Edit(q) \/ RemoveStamp(q)
        PROVE  FALSE
    BY <2>1 DEF Edit, RemoveStamp, makeVars, Idle, Recipes
  <2> QED
    BY <1>1, <2>1 DEF User
<1>2. CASE UNCHANGED vars
  BY <1>2 DEF vars, makeVars, Idle, Recipes
<1> QED
  BY <1>1, <1>2, FaultStops, MakeStopsOrGoesOn DEF Next

(* What make has come past stays up to date, whoever is careful.           *)
LEMMA PassedStep ==
    ASSUME TypeOK, Orderly, PassedIsDone, [Next]_vars
    PROVE  PassedIsDone'
<1> SUFFICES ASSUME ~Idle' PROVE PassedIsDone'
  BY DEF PassedIsDone
<1>1. CASE GoesOn
  <2>1. Done \/ FirstHalf
    BY <1>1, MakeGoesOn
  <2>2. goals' = goals /\ (at' = at \/ at' = at + 1)
    BY <2>1 DEF Done, FirstHalf
  <2>3. at' = at + 1 /\ Recipes[at][1] \in Stamp => Recipes[at][1] \in stamps'[Recipes[at][2]]
    BY <1>1, MakeGoesOn, MakeStamps
  <2> QED
    BY <1>1, <2>2, <2>3, MakeStamps, PassedKept DEF GoesOn
<1>2. CASE \E line \in CommandLines : Invoke(line)
  BY <1>2 DEF Invoke, PassedIsDone
<1>3. CASE UNCHANGED vars /\ Recipes' = Recipes /\ ~Idle
  BY <1>3 DEF vars, makeVars, pkgVars, PassedIsDone
<1> QED
  BY <1>1, <1>2, <1>3, StillRunning

(* The inductive invariant, on orderly command lines and for a user who     *)
(* never removes a stamp and never edits a build directory.                *)
THEOREM Inductive ==
    ASSUME Orderly, CarefulUser
    PROVE  Spec => []IInv
<1>1. Init => IInv
  BY InitSound DEF IInv
<1>2. TypeOK /\ IInv /\ [Next]_vars => IInv'
  <2> SUFFICES ASSUME TypeOK, IInv, [Next]_vars PROVE IInv'
    OBVIOUS
  <2>1. ASSUME NEW p \in Pkg PROVE Sound(p)'
    <3>1. SoundDeps(p) /\ CarefulWith(p)
      BY PkgAssumption DEF IInv, SoundDeps, CarefulUser
    <3> QED
      BY <3>1, SoundStep DEF IInv
  <2> QED
    BY <2>1, PassedStep DEF IInv
<1> QED
  BY <1>1, <1>2, TypeCorrect, PTL DEF Spec

(* A stamp file never promises work that is not done: no failure of a step *)
(* and no interruption, at any point, leaves a stamp ahead of its work.    *)
THEOREM StampsAreHonest ==
    ASSUME Orderly, CarefulUser
    PROVE  Spec => []StampHonest
<1>1. IInv => StampHonest
  BY DEF IInv, Sound, StampHonest
<1> QED
  BY <1>1, Inductive, PTL

(* When a package is configured all that it depends on is installed.       *)
THEOREM DependenciesFirst ==
    ASSUME Orderly, CarefulUser
    PROVE  Spec => []DepsBeforeConfigure
<1>1. TypeOK /\ IInv => DepsBeforeConfigure
  <2> SUFFICES ASSUME TypeOK, IInv, NEW p \in Pkg, Running(<<".stamp_configured", p>>)
               PROVE  DepsInstalled(p)
    BY DEF DepsBeforeConfigure
  <2>1. SoundDeps(p)
    BY PkgAssumption DEF IInv, SoundDeps
  <2> QED
    BY <2>1, InputsReady DEF IInv
<1> QED
  BY <1>1, Inductive, TypeCorrect, PTL

-----------------------------------------------------------------------------
(* What make has come past by the end of a recipe is still up to date,     *)
(* the last recipe of a command included.                                  *)
LEMMA PassedAtEnd ==
    ASSUME TypeOK, Orderly, PassedIsDone, GoesOn, Done, NEW i \in 1..at, Recipes[i][1] \in Stamp
    PROVE  \/ Recipes[i][1] \in stamps'[Recipes[i][2]]
           \/ \E j \in i+1..at : Removes(Recipes[j], Recipes[i])
<1>1. /\ Recipes \in Seq(RecipeTarget) /\ Len(Recipes) \in Nat /\ at \in 1..Len(Recipes) /\ ~Idle
  BY MakeGoesOn DEF GoesOn
<1>2. CASE i = at
  BY <1>2, MakeStamps, Zenon
<1>3. CASE i < at
  <2>1. Recipes[i][2] \in Pkg /\ Recipes[i] = <<Recipes[i][1], Recipes[i][2]>>
    <3>1. Recipes[i] \in RecipeTarget
      BY <1>1, <1>3
    <3> QED
      BY <3>1 DEF RecipeTarget, TopLevel, Stamp
  <2>2. CASE Recipes[i][1] \in stamps[Recipes[i][2]]
    <3>1. Recipes[i][1] \in stamps'[Recipes[i][2]] \/ Removes(Recipes[at], Recipes[i])
      BY <2>1, <2>2, MakeStamps
    <3> QED
      BY <3>1, <1>1, <1>3
  <2>3. CASE \E j \in i+1..at : Removes(Recipes[j], Recipes[i])
    BY <2>3
  <2> QED
    BY <1>1, <1>3, <2>2, <2>3 DEF PassedIsDone
<1> QED
  BY <1>1, <1>2, <1>3

(* After a clean-for-rebuild only an rsync that brings the edits gives a   *)
(* package its stamp back.                                                 *)
LEMMA SyncedStep ==
    ASSUME TypeOK, Orderly, IInv, GoesOn, SyncedSinceClean
    PROVE  SyncedSinceClean'
<1>0. /\ Recipes' = Recipes /\ at \in Nat /\ at \in 1..Len(Recipes) /\ Len(Recipes) \in Nat
      /\ (Done /\ at' = at + 1 /\ ~half') \/ (FirstHalf /\ at' = at /\ half')
  BY MakeGoesOn
<1> SUFFICES ASSUME NEW p \in Pkg, NEW i \in 1..at'-1, Recipes[i] = <<"clean-for-rebuild", p>>,
                    ".stamp_rsynced" \in stamps'[p] \/ (half' /\ Running(<<".stamp_rsynced", p>>)'),
                    p \in dirty'
             PROVE  FALSE
  BY <1>0 DEF SyncedSinceClean
<1>1. p \in dirty
  BY MakeStamps
<1>2. CASE i < at
  <2>1. ~(".stamp_rsynced" \in stamps[p] \/ (half /\ Running(<<".stamp_rsynced", p>>)))
    <3>1. i \in 1..at-1
      BY <1>0, <1>2
    <3> QED
      BY <1>1, <3>1, Zenon DEF SyncedSinceClean
  <2>2. ".stamp_rsynced" \notin stamps'[p]
    BY <2>1, MakeStamps
  <2>3. half' /\ Running(<<".stamp_rsynced", p>>)'
    BY <2>2
  <2>4. FirstHalf /\ Recipes[at] = <<".stamp_rsynced", p>>
    BY <2>3, <1>0 DEF Running
  <2>5. Running(<<".stamp_rsynced", p>>)
    BY <2>4, <2>1 DEF Running, UpToDate, GoesOn
  <2> QED
    BY <2>4, <2>5, MakeStamps
<1>3. CASE i = at
  <2>1. Recipes[at] = <<"clean-for-rebuild", p>> /\ Done
    BY <1>0, <1>3
  <2>2. ~NothingToDo /\ ~InstallToolchain /\ ~TargetFinalize /\ ~MakeRootfs /\ ~PostImage
    BY <2>1 DEF NothingToDo, UpToDate, Stamp, InstallToolchain, TargetFinalize, MakeRootfs, PostImage, Running
  <2>3. \A s \in Stamp : s # "clean-for-rebuild"
    BY DEF Stamp
  <2>4. \A x \in Area : InstallStamp[x] # "clean-for-rebuild"
    BY <2>3, InstallStamps
  <2>5. CleanForRebuild(p)
    <3>1. PICK q \in Pkg : Recipe(q)
      BY <2>2 DEF GoesOn, Make
    <3>2. \A v, u : Running(<<v, u>>) => v = "clean-for-rebuild" /\ u = p
      BY <2>1 DEF Running
    <3>3. CleanForRebuild(q)
      BY <2>3, <2>4, <3>1, <3>2 DEF Recipe, Touch, DownloadCmds, RsyncSourced, ExtractCmds, RsyncCmds,
         PatchCmds, ConfigureCmds, BuildCmds, InstallCmds, UninstallStamps, UninstallCmds, CleanCmds,
         CleanStamp, Dirclean, DircleanThen, CleanForReconfigure, PatchFails
    <3> QED
      BY <3>2, <3>3 DEF CleanForRebuild
  <2>6. stamps'[p] = stamps[p] \ FirstStamps(p, Len(RebuildStamps(p)))
    BY <2>5 DEF CleanForRebuild, TypeOK, PkgTypeOK
  <2>7. ".stamp_rsynced" \notin stamps'[p]
    <3>1. CASE p \in OverridePkg
      BY <3>1, <2>6, RebuildSet
    <3>2. CASE p \notin OverridePkg
      BY <3>2, <2>6 DEF IInv, Sound, Chained
    <3> QED
      BY <3>1, <3>2
  <2> QED
    BY <2>7, <1>0, <1>3
<1> QED
  BY <1>0, <1>2, <1>3

(* What was installed for good before the image is in it, if it is sound.  *)
InstalledBefore(p) ==
    \E j \in 1..at-1 : /\ Recipes[j] = <<".stamp_target_installed", p>>
                       /\ \A i \in j+1..Len(Recipes) : ~Removes(Recipes[i], Recipes[j])

LEMMA ImageStep ==
    ASSUME TypeOK, Orderly, PassedIsDone, GoesOn, NEW p \in TargetPkg \ HostPkg, InImage(p),
           InstalledBefore(p) => Sound(p)
    PROVE  InImage(p)'
<1>0. /\ Recipes' = Recipes /\ at \in Nat /\ at \in 1..Len(Recipes) /\ Len(Recipes) \in Nat
      /\ (Done /\ at' = at + 1 /\ ~half') \/ (FirstHalf /\ at' = at /\ half')
      /\ ~Idle
  BY MakeGoesOn DEF GoesOn
<1> SUFFICES ASSUME NEW r \in 1..at'-1, NEW j \in 1..r-1,
                    Recipes[r] = <<"rootfs", World>>,
                    Recipes[j] = <<".stamp_target_installed", p>>,
                    \A i \in j+1..Len(Recipes) : ~Removes(Recipes[i], Recipes[j])
             PROVE  p \in image'.has
  BY <1>0 DEF InImage
<1>1. CASE MakeRootfs
  <2>1. p \in Pkg /\ j \in 1..at-1
    BY <1>0, PkgAssumption
  <2>2. ".stamp_target_installed" \in stamps[p]
    <3>1. Recipes[j][1] = ".stamp_target_installed" /\ Recipes[j][2] = p
      OBVIOUS
    <3>2. ".stamp_target_installed" \in Stamp
      BY DEF Stamp
    <3>3. \A i \in j+1..at : ~Removes(Recipes[i], Recipes[j])
      BY <1>0
    <3> QED
      BY <2>1, <3>1, <3>2, <3>3, <1>0 DEF PassedIsDone
  <2>3. ~Cleaning(p)
    BY <1>1 DEF MakeRootfs, Running, Cleaning
  <2>4. WorkDone(".stamp_target_installed", p)
    <3>1. Sound(p)
      BY <2>1 DEF InstalledBefore
    <3> QED
      BY <2>1, <2>2, <2>3, <3>1 DEF Sound, Honest
  <2>5. inst[p]["target"] = "good"
    BY <2>4 DEF WorkDone, InstallStamp, Area
  <2> QED
    BY <2>5, <1>1 DEF MakeRootfs
<1>2. CASE ~MakeRootfs
  <2>1. image' = image
    <3>1. CASE NothingToDo \/ InstallToolchain \/ TargetFinalize \/ PostImage
      BY <3>1 DEF NothingToDo, InstallToolchain, TargetFinalize, PostImage, topVars
    <3>2. ASSUME NEW q \in Pkg, Recipe(q)
          PROVE  image' = image
      BY <3>2 DEF Recipe, Touch, DownloadCmds, RsyncSourced, ExtractCmds, RsyncCmds,
         PatchCmds, ConfigureCmds, BuildCmds, InstallCmds, UninstallStamps, UninstallCmds, CleanCmds,
         CleanStamp, Dirclean, DircleanThen, CleanForRebuild, CleanForReconfigure, PatchFails, topVars
    <3> QED
      BY <1>2, <3>1, <3>2 DEF GoesOn, Make
  <2>2. r # at
    <3> SUFFICES ASSUME r = at PROVE FALSE
      OBVIOUS
    <3>1. Recipes[at] = <<"rootfs", World>>
      OBVIOUS
    <3>2. ~NothingToDo /\ ~InstallToolchain /\ ~TargetFinalize /\ ~PostImage
      BY <3>1 DEF NothingToDo, UpToDate, Stamp, InstallToolchain, TargetFinalize, PostImage, Running
    <3>3. PICK q \in Pkg : Recipe(q)
      BY <1>2, <3>2 DEF GoesOn, Make
    <3>4. \A v : Running(<<v, q>>) => FALSE
      BY <3>1, PkgAssumption DEF Running
    <3> QED
      BY <3>3, <3>4 DEF Recipe, Touch, DownloadCmds, RsyncSourced, ExtractCmds, RsyncCmds,
         PatchCmds, ConfigureCmds, BuildCmds, InstallCmds, UninstallStamps, UninstallCmds, CleanCmds,
         CleanStamp, Dirclean, DircleanThen, CleanForRebuild, CleanForReconfigure, PatchFails
  <2>3. r \in 1..at-1
    BY <1>0, <2>2
  <2> QED
    BY <2>1, <2>3 DEF InImage
<1> QED
  BY <1>1, <1>2

-----------------------------------------------------------------------------
(* Invariant on orderly command lines and for a careful user.              *)
LEMMA RebuildInvStep ==
    ASSUME TypeOK, Orderly, IInv, RebuildInv, [Next]_vars
    PROVE  RebuildInv'
<1> SUFFICES ASSUME ~Idle' PROVE (SyncedSinceClean /\ InstalledInImage)'
  BY DEF RebuildInv
<1>1. CASE GoesOn
  <2>1. TargetPkg \subseteq Pkg
    BY PkgAssumption
  <2> QED
    BY <1>1, <2>1, SyncedStep, ImageStep DEF RebuildInv, GoesOn, InstalledInImage, IInv
<1>2. CASE \E line \in CommandLines : Invoke(line)
  BY <1>2 DEF Invoke, SyncedSinceClean, InstalledInImage, InImage
<1>3. CASE UNCHANGED vars /\ Recipes' = Recipes /\ ~Idle
  BY <1>3 DEF vars, makeVars, pkgVars, topVars, RebuildInv, SyncedSinceClean, InstalledInImage,
              InImage, Running, Idle, UpToDate
<1> QED
  BY <1>1, <1>2, <1>3, StillRunning

(* The last step of a command that ends well.                              *)
LEMMA EndsWell ==
    ASSUME TypeOK, Orderly, [Next]_vars, ~Idle, Idle', ~failed'
    PROVE  /\ GoesOn /\ Done /\ Recipes' = Recipes /\ Recipes \in Seq(RecipeTarget)
           /\ at = Len(Recipes) /\ at \in Nat \ {0} /\ at' = at + 1
<1>1. ~Fault
  BY DEF Fault, Break, BreakBeforeTouch, BreakDownload, BreakExtract, BreakRsync, BreakPatch,
     BreakConfigure, BreakBuild, BreakInstall, BreakUninstall, BreakClean, BreakDirclean,
     BreakCleanForRebuild, Breaks, GiveUp
<1>2. ~User
  BY DEF User, Invoke, Edit, RemoveStamp
<1>3. ~UNCHANGED vars
  BY DEF vars, makeVars, Idle, Recipes
<1>4. GoesOn
  BY <1>1, <1>2, <1>3 DEF Next, GoesOn, GiveUp
<1> QED
  BY <1>4, MakeGoesOn DEF Idle

(* By then a step that was to be done again is done, for good.             *)
LEMMA RedoneIsThere ==
    ASSUME TypeOK, Orderly, PassedIsDone, GoesOn, Done, at = Len(Recipes),
           NEW k \in 1..at, NEW s \in Stamp, Redone(Recipes, k, s)
    PROVE  s \in stamps'[Recipes[k][2]]
<1>1. at \in Nat
  BY MakeGoesOn
<1>2. PICK j \in k+1..at : /\ Recipes[j] = <<s, Recipes[k][2]>>
                           /\ \A i \in j+1..at : ~Removes(Recipes[i], Recipes[j])
  BY DEF Redone
<1>3. j \in 1..at /\ Recipes[j][1] = s /\ Recipes[j][2] = Recipes[k][2]
  BY <1>1, <1>2
<1> QED
  BY <1>2, <1>3, PassedAtEnd

(* And what was installed again is in the image.                           *)
LEMMA RedoneInImage ==
    ASSUME TypeOK, Orderly, GoesOn, Done, at = Len(Recipes), NEW p, InImage(p)',
           NEW k \in 1..at, Recipes[k][2] = p, Redone(Recipes, k, ".stamp_target_installed")
    PROVE  p \in image'.has
<1>1. at \in Nat /\ at' = at + 1 /\ Recipes' = Recipes
  BY MakeGoesOn DEF FirstHalf, Done
<1>2. PICK j, r \in k+1..at : /\ j < r /\ Recipes[r] = <<"rootfs", World>>
                              /\ Recipes[j] = <<".stamp_target_installed", p>>
                              /\ \A i \in j+1..at : ~Removes(Recipes[i], Recipes[j])
  BY DEF Redone
<1>3. r \in 1..at'-1 /\ j \in 1..r-1
  BY <1>1, <1>2
<1> QED
  BY <1>1, <1>2, <1>3 DEF InImage

(* What a rebuild undoes of a package for the target.                      *)
LEMMA TargetStep ==
    ASSUME NEW p \in TargetPkg \ HostPkg
    PROVE  ".stamp_target_installed" \in RebuildSteps(p) /\ ".stamp_target_installed" \in Stamp
<1>1. "target" \in Areas(p) /\ InstallStamp["target"] = ".stamp_target_installed"
  BY DEF Areas, Area, InstallStamp
<1> QED
  BY <1>1 DEF RebuildSteps, Stamp

(* <p>-rebuild and <p>-reconfigure take effect (pkg-generic.mk:437-450): on *)
(* orderly command lines that rebuild in full, and for a careful user, a   *)
(* command that ends well has the edits of each package it rebuilds in     *)
(* what is built, installed and in the image, whatever failed or was       *)
(* interrupted before.                                                     *)
THEOREM RebuildsTakeEffect ==
    ASSUME Orderly, CarefulUser, RebuildsComplete
    PROVE  Spec => RebuildTakesEffect
<1> DEFINE Asks(p) == Asked(<<"clean-for-rebuild", p>>)
           Taken(p) == /\ p \notin dirty'
                       /\ tree'[p]["objects"] = "good" /\ Installed(p)'
                       /\ p \in TargetPkg \ HostPkg => p \in image'.has
<1>1. ASSUME TypeOK, IInv, RebuildInv, [Next]_vars, IInv',
             ~Idle, Idle', ~failed', NEW p \in Pkg, Asks(p)
      PROVE  Taken(p)
  <2>1. GoesOn /\ Done /\ at = Len(Recipes) /\ at \in Nat /\ at' = at + 1 /\ Recipes' = Recipes
    BY <1>1, EndsWell
  <2>2. RebuildsInFull(Recipes)
    <3>1. goals \in CommandLines
      BY <1>1 DEF TypeOK, MakeTypeOK, Recipes, Asked
    <3> QED
      BY <3>1, PlanAssumption DEF RebuildsComplete, Recipes
  <2>3. PICK k \in 1..at : k \in DOMAIN Recipes /\ Recipes[k] = <<"clean-for-rebuild", p>>
    BY <1>1, <2>1, EndsWell DEF Asked
  <2>4. Recipes[k][1] = "clean-for-rebuild" /\ Recipes[k][2] = p
    BY <2>3
  <2>5. \A s \in RebuildSteps(p) : Redone(Recipes, k, s)
    BY <2>2, <2>3, <2>4 DEF RebuildsInFull
  <2>6. \A s \in RebuildSteps(p) : s \in Stamp => s \in stamps'[p]
    BY <1>1, <2>1, <2>4, <2>5, RedoneIsThere DEF IInv
  <2>7. \A s \in stamps'[p] : WorkDone(s, p)'
    BY <1>1 DEF IInv, Sound, Honest, Cleaning, Running
  <2>8. tree'[p]["objects"] = "good"
    BY <2>6, <2>7 DEF RebuildSteps, WorkDone, Stamp
  <2>9. Installed(p)'
    <3>1. \A x \in Areas(p) : x \in Area /\ InstallStamp[x] \in Stamp
      BY InstallStamps DEF Areas, Area
    <3> QED
      BY <3>1, <2>6, <2>7 DEF Installed, RebuildSteps, WorkDone
  <2>10. p \notin dirty'
    <3>1. CASE p \in OverridePkg
      <4>1. ".stamp_rsynced" \in stamps'[p]
        BY <3>1, <2>6 DEF RebuildSteps, Stamp
      <4>2. SyncedSinceClean'
        BY <1>1, <2>1, SyncedStep DEF RebuildInv
      <4>3. k \in 1..at'-1 /\ Recipes'[k] = <<"clean-for-rebuild", p>>
        BY <2>1, <2>3
      <4> QED
        BY <4>1, <4>2, <4>3 DEF SyncedSinceClean
    <3>2. CASE p \notin OverridePkg
      BY <3>2, <1>1 DEF IInv, Sound
    <3> QED
      BY <3>1, <3>2
  <2>11. ASSUME p \in TargetPkg \ HostPkg
         PROVE  p \in image'.has
    <3>1. InImage(p)'
      BY <1>1, <2>1, <2>11, ImageStep DEF RebuildInv, InstalledInImage, IInv
    <3> QED
      BY <1>1, <2>1, <2>4, <2>5, <2>11, <3>1, TargetStep, RedoneInImage
  <2> QED
    BY <2>8, <2>9, <2>10, <2>11
<1>2. Init => RebuildInv
  BY DEF Init, RebuildInv, SyncedSinceClean, InstalledInImage, InImage
<1>3. TypeOK /\ IInv /\ RebuildInv /\ [Next]_vars => RebuildInv'
  BY RebuildInvStep
<1>4. TypeOK /\ IInv /\ IInv' /\ RebuildInv /\ [Next]_vars =>
         [~Idle /\ Idle' /\ ~failed' => \A p \in Pkg : Asks(p) => Taken(p)]_vars
  BY <1>1
<1> QED
  BY <1>2, <1>3, <1>4, TypeCorrect, Inductive, PTL DEF Spec, RebuildTakesEffect

-----------------------------------------------------------------------------
(* What a dirclean does to what make has passed, for a line that makes an  *)
(* image after it.                                                         *)

(* When make passes the dirclean of a package it runs it: a recipe without *)
(* a stamp is never up to date.                                            *)
LEMMA DircleanRuns ==
    ASSUME TypeOK, GoesOn, NEW p \in Pkg, Recipes[at] = <<".stamp_dircleaned", p>>
    PROVE  Dirclean(p)
<1>1. \A s \in Stamp : s # ".stamp_dircleaned"
  BY DEF Stamp
<1>2. \A x \in Area : InstallStamp[x] # ".stamp_dircleaned"
  BY <1>1, InstallStamps
<1>3. ~NothingToDo /\ ~InstallToolchain /\ ~TargetFinalize /\ ~MakeRootfs /\ ~PostImage
  BY <1>1 DEF NothingToDo, UpToDate, InstallToolchain, TargetFinalize, MakeRootfs, PostImage, Running
<1>4. PICK q \in Pkg : Recipe(q)
  BY <1>3 DEF GoesOn, Make
<1>5. \A v, u : Running(<<v, u>>) => v = ".stamp_dircleaned" /\ u = p
  BY DEF Running
<1>6. Dirclean(q)
  BY <1>1, <1>2, <1>4, <1>5 DEF Recipe, Touch, DownloadCmds, RsyncSourced, ExtractCmds, RsyncCmds,
     PatchCmds, ConfigureCmds, BuildCmds, InstallCmds, UninstallStamps, UninstallCmds, CleanCmds,
     CleanStamp, CleanForRebuild, CleanForReconfigure, PatchFails
<1> QED
  BY <1>5, <1>6 DEF Dirclean, DircleanThen

(* The script of the latest invocation is one of those assumed about.      *)
LEMMA RestoredInScript ==
    ASSUME TypeOK, RestoresComplete, NEW C, Guarded(C), ~Idle
    PROVE  /\ RestoresInFull(Recipes)
           /\ \A p \in Restored(Recipes) :
                 /\ NeedsOnly(p, C \cup Restored(Recipes))
                 /\ \E k \in 1..Len(Recipes) : Recipes[k] = <<".stamp_dircleaned", p>>
<1>1. goals \in CommandLines
  BY DEF TypeOK, MakeTypeOK, Idle, Recipes
<1>2. Recipes = Script[goals] /\ Recipes \in Seq(RecipeTarget)
  BY <1>1, PlanAssumption, RecipesType DEF Recipes
<1>3. RestoresInFull(Recipes) /\ \A p \in Restored(Recipes) : NeedsOnly(p, C \cup Restored(Recipes))
  BY <1>1, <1>2, Zenon DEF RestoresComplete, Guarded
<1>4. \A p \in Restored(Recipes) : \E k \in 1..Len(Recipes) : Recipes[k] = <<".stamp_dircleaned", p>>
  <2>1. DOMAIN Recipes = 1..Len(Recipes)
    BY <1>2
  <2> QED
    BY <2>1, Zenon DEF Restored
<1> QED
  BY <1>3, <1>4

(* When the recipe of a stamp runs, every package that is to be restored   *)
(* has been cleaned, so all that one of them depends on is sound.          *)
LEMMA DepsCleaned ==
    ASSUME TypeOK, Orderly, RestoresComplete, NEW C, Guarded(C), RestoreInv(C), ~Idle,
           Recipes[at][1] \in Stamp, NEW p \in Restored(Recipes)
    PROVE  SoundDeps(p)
<1> SUFFICES ASSUME NEW i \in DOMAIN Dependencies[p] PROVE Sound(Dependencies[p][i])
  BY DEF SoundDeps
<1> DEFINE d == Dependencies[p][i]
<1>1. d \in C \cup Restored(Recipes)
  BY RestoredInScript DEF NeedsOnly
<1>2. CASE d \in C
  BY <1>2 DEF RestoreInv
<1>3. CASE d \in Restored(Recipes)
  <2>1. PICK k \in 1..Len(Recipes) : Recipes[k] = <<".stamp_dircleaned", d>>
    BY <1>3, RestoredInScript
  <2>2. /\ at \in Nat /\ at \in 1..Len(Recipes) /\ Len(Recipes) \in Nat /\ k \in DOMAIN Recipes
    BY Current, RecipesType DEF TypeOK, MakeTypeOK
  <2>3. ~(at \in 1..k-1)
    BY <1>3, <2>1, <2>2, RestoredInScript DEF RestoresInFull
  <2>4. k # at
    BY <2>1 DEF Stamp
  <2>5. k \in 1..at-1
    BY <2>2, <2>3, <2>4
  <2>6. Cleaned(d)
    BY <2>1, <2>5 DEF Cleaned
  <2> QED
    BY <1>3, <2>6 DEF RestoreInv
<1> QED
  BY <1>1, <1>2, <1>3

(* After a step of make the packages whose dirclean it has come past are   *)
(* sound.                                                                  *)
LEMMA CleanedSound ==
    ASSUME TypeOK, Orderly, RestoresComplete, NEW C, Guarded(C), RestoreInv(C), GoesOn,
           NEW p \in Restored(Recipes), NEW k \in Nat,
           k \in 1..at'-1, Recipes[k] = <<".stamp_dircleaned", p>>
    PROVE  Sound(p)'
<1>0. /\ at \in Nat /\ at' \in {at, at + 1} /\ ~Idle /\ PassedIsDone /\ p \in Pkg
  BY MakeGoesOn DEF GoesOn, RestoreInv, Restored
<1>1. CASE k = at
  BY <1>0, <1>1, DircleanRuns, DircleanSound
<1>2. CASE k < at
  <2>1. Sound(p)
    <3>1. k \in 1..at-1
      BY <1>0, <1>2
    <3> QED
      BY <1>0, <3>1 DEF RestoreInv, Cleaned
  <2>2. Recipes[at][1] \in Stamp => SoundDeps(p)
    BY <1>0, DepsCleaned
  <2>3. Make
    BY DEF GoesOn
  <2>4. PassedIsDone /\ p \in Pkg
    BY <1>0
  <2> QED
    BY <2>1, <2>2, <2>3, <2>4, MakeSound, Zenon
<1>3. k = at \/ k < at
  <2>1. at \in Nat /\ (at' = at \/ at' = at + 1)
    BY <1>0
  <2>2. CASE at' = at
    BY <2>1, <2>2
  <2>3. CASE at' = at + 1
    BY <2>1, <2>3
  <2> QED
    BY <2>1, <2>2, <2>3
<1> QED
  BY <1>1, <1>2, <1>3, Zenon

(* And those that were installed for good before an image are in it.       *)
LEMMA RestoredInImage ==
    ASSUME TypeOK, Orderly, RestoresComplete, NEW C, Guarded(C), RestoreInv(C), GoesOn,
           NEW p \in (TargetPkg \ HostPkg) \cap Restored(Recipes)
    PROVE  InImage(p)'
<1>0. ~Idle /\ PassedIsDone /\ InImage(p)
  BY DEF GoesOn, RestoreInv
<1>1. ASSUME InstalledBefore(p)
      PROVE  Sound(p)
  <2>1. PICK j \in 1..at-1 : /\ Recipes[j] = <<".stamp_target_installed", p>>
                             /\ \A i \in j+1..Len(Recipes) : ~Removes(Recipes[i], Recipes[j])
    BY <1>1 DEF InstalledBefore
  <2>2. PICK k \in 1..Len(Recipes) : Recipes[k] = <<".stamp_dircleaned", p>>
    BY <1>0, RestoredInScript
  <2>3. Removes(Recipes[k], Recipes[j])
    <3>1. Removed(Recipes[k]) = Stamp
      BY <2>2, RemovedOf
    <3>2. Recipes[j][1] \in Stamp /\ Recipes[j][2] = Recipes[k][2]
      BY <2>1, <2>2 DEF Stamp
    <3> QED
      BY <3>1, <3>2 DEF Removes
  <2>4. k # j
    BY <2>1, <2>2
  <2>5. at \in Nat /\ Len(Recipes) \in Nat
    BY MakeGoesOn
  <2>6. k \in 1..at-1
    BY <2>1, <2>3, <2>4, <2>5
  <2> QED
    BY <1>0, <2>2, <2>6 DEF RestoreInv, Cleaned
<1> QED
  BY <1>0, <1>1, ImageStep

LEMMA RestoreInvStep ==
    ASSUME TypeOK, Orderly, RestoresComplete, NEW C, Guarded(C), RestoreInv(C), [Next]_vars
    PROVE  RestoreInv(C)'
<1>1. PassedIsDone'
  BY PassedStep DEF RestoreInv
<1>2. ASSUME NEW p \in C
      PROVE  Sound(p)'
  <2>1. p \in Pkg /\ CarefulWith(p) /\ SoundDeps(p)
    BY DEF Guarded, NeedsOnly, SoundDeps, RestoreInv
  <2> QED
    BY <2>1, SoundStep DEF RestoreInv
<1>3. ASSUME ~Idle', NEW p \in Restored(Recipes')
      PROVE  /\ Cleaned(p)' => Sound(p)'
             /\ p \in TargetPkg \ HostPkg => InImage(p)'
  <2>1. CASE GoesOn
    <3>1. Recipes' = Recipes
      BY <2>1, MakeGoesOn
    <3> QED
      BY <1>3, <2>1, <3>1, CleanedSound, RestoredInImage DEF Cleaned
  <2>2. CASE \E line \in CommandLines : Invoke(line)
    BY <2>2 DEF Invoke, Cleaned, InImage
  <2>3. CASE UNCHANGED vars /\ Recipes' = Recipes /\ ~Idle
    <3>1. Cleaned(p)' => Cleaned(p)
      BY <2>3 DEF vars, makeVars, Cleaned
    <3>2. InImage(p) => InImage(p)'
      BY <2>3 DEF vars, makeVars, topVars, InImage
    <3> QED
      BY <1>3, <2>3, <3>1, <3>2, StutterSound DEF RestoreInv
  <2> QED
    BY <1>3, <2>1, <2>2, <2>3, StillRunning
<1> QED
  BY <1>1, <1>2, <1>3 DEF RestoreInv

(* Removing a package's build directory and building again restores it     *)
(* (docs/manual/rebuilding-packages.txt:51): whatever interrupted clean-ups, *)
(* removed stamps or half applied patches left there, when a command that  *)
(* did so ends well the package is extracted, configured, built, installed *)
(* and in the image.  The packages that it depends on are restored with it *)
(* or were always treated with care.                                       *)
THEOREM DircleansRestore ==
    ASSUME Orderly, RestoresComplete, NEW C, Guarded(C)
    PROVE  Spec => DircleanRestores
<1> DEFINE Inv == RestoreInv(C)
           Asks(p) == Asked(<<"rootfs", World>>) /\ Asked(<<".stamp_dircleaned", p>>)
           Restores(p) == /\ \A w \in {"source", "config", "objects"} : tree'[p][w] = "good"
                          /\ Installed(p)'
                          /\ p \in TargetPkg \ HostPkg => p \in image'.has
<1>1. ASSUME TypeOK, Inv, [Next]_vars, ~Idle, Idle', ~failed', NEW p \in Pkg, Asks(p)
      PROVE  Restores(p)
  <2>1. GoesOn
    BY <1>1, EndsWell
  <2>2. Done /\ at = Len(Recipes) /\ at \in Nat /\ at' = at + 1 /\ Recipes' = Recipes
    BY <1>1, EndsWell
  <2>3. p \in Restored(Recipes)
    BY <1>1 DEF Asked, Restored
  <2>4. PICK k \in 1..at : Recipes[k] = <<".stamp_dircleaned", p>> /\ k \in DOMAIN Recipes
    BY <1>1, <2>2, EndsWell DEF Asked
  <2>5. \A s \in AllSteps(p) : Redone(Recipes, k, s)
    BY <1>1, <2>2, <2>3, <2>4, RestoredInScript DEF RestoresInFull
  <2>6. ASSUME NEW s \in AllSteps(p), s \in Stamp
        PROVE  s \in stamps'[p]
    BY <1>1, <2>1, <2>2, <2>4, <2>5, <2>6, RedoneIsThere DEF RestoreInv
  <2>7. \A s \in stamps'[p] : WorkDone(s, p)'
    <3>1. Sound(p)'
      BY <1>1, <2>1, <2>2, <2>3, <2>4, CleanedSound
    <3> QED
      BY <1>1, <3>1 DEF Sound, Honest, Cleaning, Running
  <2>8. \A w \in {"source", "config", "objects"} : tree'[p][w] = "good"
    BY <2>6, <2>7 DEF AllSteps, RebuildSteps, WorkDone, Stamp
  <2>9. Installed(p)'
    <3>1. \A x \in Areas(p) : x \in Area /\ InstallStamp[x] \in Stamp
      BY InstallStamps DEF Areas, Area
    <3> QED
      BY <3>1, <2>6, <2>7 DEF Installed, AllSteps, RebuildSteps, WorkDone
  <2>10. ASSUME p \in TargetPkg \ HostPkg
         PROVE  p \in image'.has
    <3>1. InImage(p)'
      BY <1>1, <2>1, <2>3, <2>10, RestoredInImage
    <3>2. Redone(Recipes, k, ".stamp_target_installed")
      BY <2>5, <2>10, TargetStep DEF AllSteps
    <3>3. Recipes[k][2] = p
      BY <2>4
    <3> QED
      BY <1>1, <2>1, <2>2, <3>1, <3>2, <3>3, RedoneInImage
  <2> QED
    BY <2>8, <2>9, <2>10
<1>2. Init => Inv
  BY InitSound DEF RestoreInv, Guarded
<1>3. TypeOK /\ Inv /\ [Next]_vars => Inv'
  BY RestoreInvStep
<1>4. TypeOK /\ Inv /\ [Next]_vars =>
         [~Idle /\ Idle' /\ ~failed' /\ Asked(<<"rootfs", World>>) =>
             \A p \in Pkg : Asked(<<".stamp_dircleaned", p>>) => Restores(p)]_vars
  BY <1>1
<1> QED
  BY <1>2, <1>3, <1>4, TypeCorrect, PTL DEF Spec, DircleanRestores

-----------------------------------------------------------------------------
(* PkgBuild implements BuildOrder: a package becomes installed only while  *)
(* all that it depends on is.                                              *)

Ready == { p \in Pkg : Installed(p) }

(* An installation step finds all that its package depends on installed:   *)
(* what make came past earlier in this invocation is still there.          *)
LEMMA DepsStillThere ==
    ASSUME TypeOK, Orderly, PassedIsDone, NEW p \in Pkg, SoundDeps(p), NEW x \in Area,
           Running(<<InstallStamp[x], p>>)
    PROVE  DepsInstalled(p)
<1>1. Recipes[at] = <<InstallStamp[x], p>> /\ ~Idle /\ InstallStamp[x] \in Stamp
  BY InstallStamps DEF Running
<1>2. \A t \in DepNeeds(p) : t[1] \in stamps[t[2]]
  <2>1. DepNeeds(p) \subseteq Needs(<<InstallStamp[x], p>>)
    BY NeedsOf
  <2>2. Recipes[at][1] = InstallStamp[x] /\ Recipes[at][2] = p
    BY <1>1
  <2> QED
    BY <1>1, <2>1, <2>2, NeedsMet
<1>3. \A q \in Pkg : Sound(q) => \A s \in stamps[q] : WorkDone(s, q)
  BY NowDone, InstallStamps DEF AllDone, InstallStamp, Area
<1> SUFFICES ASSUME NEW i \in DOMAIN Dependencies[p], NEW y \in Areas(Dependencies[p][i])
             PROVE  inst[Dependencies[p][i]][y] = "good"
  BY DEF DepsInstalled, Installed
<1>4. Dependencies[p][i] \in Pkg /\ Sound(Dependencies[p][i])
  BY PkgAssumption DEF SoundDeps
<1>5. y \in Area
  BY DEF Areas, Area
<1>6. InstallStamp[y] \in stamps[Dependencies[p][i]]
  <2>1. <<InstallStamp[y], Dependencies[p][i]>> \in DepNeeds(p)
    BY DEF DepNeeds
  <2> QED
    BY <1>2, <2>1
<1> QED
  BY <1>3, <1>4, <1>5, <1>6 DEF WorkDone

(* Work on p alone; what was good of it and still is may be less.          *)
OnlyOn(p) == \A q \in Pkg \ {p} : inst'[q] = inst[q]
NoBetter(p) == OnlyOn(p) /\ \A x \in Area : inst'[p][x] = "good" => inst[p][x] = "good"

LEMMA NoBetterIfSame ==
    ASSUME NEW p \in Pkg, UNCHANGED inst
    PROVE  NoBetter(p)
BY DEF NoBetter, OnlyOn

LEMMA NoBetterIfStale ==
    ASSUME TypeOK, NEW p \in Pkg, inst' = [inst EXCEPT ![p] = StaleAll(@)]
    PROVE  NoBetter(p)
<1>1. inst \in [Pkg -> [Area -> Quality]]
  BY DEF TypeOK, PkgTypeOK
<1>2. \A x \in Area : inst'[p][x] = Stale(inst[p][x])
  BY <1>1 DEF StaleAll
<1>3. \A x \in Area : inst'[p][x] # "good"
  BY <1>2 DEF Stale
<1> QED
  BY <1>1, <1>3 DEF NoBetter, OnlyOn

(* Only the installation recipes make more of a package installed.         *)
LEMMA RecipeNoBetter ==
    ASSUME TypeOK, NEW p \in Pkg, Recipe(p), \A x \in Area : ~InstallCmds(p, x)
    PROVE  NoBetter(p)
<1>0. inst \in [Pkg -> [Area -> Quality]]
  BY DEF TypeOK, PkgTypeOK
<1>1. CASE RsyncCmds(p)
  <2>1. UNCHANGED inst \/ inst' = [inst EXCEPT ![p] = StaleAll(@)]
    BY <1>0, <1>1 DEF RsyncCmds
  <2> QED
    BY <2>1, NoBetterIfSame, NoBetterIfStale
<1>2. CASE ConfigureCmds(p)
  BY <1>2, NoBetterIfStale DEF ConfigureCmds
<1>3. CASE BuildCmds(p)
  <2>1. UNCHANGED inst \/ inst' = [inst EXCEPT ![p] = StaleAll(@)]
    BY <1>0, <1>3 DEF BuildCmds
  <2> QED
    BY <2>1, NoBetterIfSame, NoBetterIfStale
<1>4. CASE UninstallCmds(p)
  <2>1. inst' = [inst EXCEPT ![p]["staging"] = "absent", ![p]["target"] = "absent"]
    BY <1>4 DEF UninstallCmds
  <2>2. /\ \A q \in Pkg \ {p} : inst'[q] = inst[q]
        /\ \A x \in Area : inst'[p][x] = IF x \in {"staging", "target"} THEN "absent" ELSE inst[p][x]
    BY <1>0, <2>1 DEF Area
  <2> QED
    BY <2>2 DEF NoBetter, OnlyOn
<1>5. CASE \/ Touch(p) \/ DownloadCmds(p) \/ RsyncSourced(p) \/ ExtractCmds(p) \/ PatchCmds(p)
           \/ UninstallStamps(p) \/ CleanCmds(p) \/ CleanStamp(p) \/ Dirclean(p)
           \/ CleanForRebuild(p) \/ CleanForReconfigure(p) \/ PatchFails(p)
  <2>1. UNCHANGED inst
    BY <1>5 DEF Touch, DownloadCmds, RsyncSourced, ExtractCmds, PatchCmds, UninstallStamps, CleanCmds,
                CleanStamp, Dirclean, DircleanThen, CleanForRebuild, CleanForReconfigure, PatchFails, pkgVars
  <2> QED
    BY <2>1, NoBetterIfSame
<1> QED
  BY <1>1, <1>2, <1>3, <1>4, <1>5 DEF Recipe

(* No recipe that is cut short does.                                       *)
LEMMA BreakNoBetter ==
    ASSUME TypeOK, NEW p \in Pkg, Break(p)
    PROVE  NoBetter(p)
<1>0. inst \in [Pkg -> [Area -> Quality]]
  BY DEF TypeOK, PkgTypeOK
<1>1. CASE BreakRsync(p)
  BY <1>1, NoBetterIfStale DEF BreakRsync
<1>2. CASE BreakConfigure(p)
  BY <1>2, NoBetterIfStale DEF BreakConfigure
<1>3. ASSUME NEW x \in Area, BreakInstall(p, x)
      PROVE  NoBetter(p)
  <2>1. inst' = [inst EXCEPT ![p][x] = "bad"]
    BY <1>3 DEF BreakInstall
  <2>2. /\ \A q \in Pkg \ {p} : inst'[q] = inst[q]
        /\ \A y \in Area : inst'[p][y] = IF y = x THEN "bad" ELSE inst[p][y]
    BY <1>0, <2>1
  <2> QED
    BY <2>2 DEF NoBetter, OnlyOn
<1>4. CASE BreakUninstall(p)
  <2>1. inst' = [inst EXCEPT ![p]["staging"] = Stale(@), ![p]["target"] = Stale(@)]
    BY <1>4 DEF BreakUninstall
  <2>2. /\ \A q \in Pkg \ {p} : inst'[q] = inst[q]
        /\ \A x \in Area \ {"staging", "target"} : inst'[p][x] = inst[p][x]
        /\ \A x \in {"staging", "target"} : inst'[p][x] = Stale(inst[p][x])
    BY <1>0, <2>1, SMT DEF Area
  <2> QED
    BY <2>2 DEF NoBetter, OnlyOn, Stale
<1>5. CASE \/ BreakBeforeTouch(p) \/ BreakDownload(p) \/ BreakExtract(p) \/ BreakPatch(p)
           \/ BreakBuild(p) \/ BreakClean(p) \/ BreakDirclean(p) \/ BreakCleanForRebuild(p)
  <2>1. UNCHANGED inst
    BY <1>5 DEF BreakBeforeTouch, BreakDownload, BreakExtract, BreakPatch, BreakBuild, BreakClean,
                BreakDirclean, BreakCleanForRebuild, pkgVars
  <2> QED
    BY <2>1, NoBetterIfSame
<1> QED
  BY <1>1, <1>2, <1>3, <1>4, <1>5 DEF Break

(* What it means for the packages that are ready.                          *)
LEMMA ReadyIfNoBetter ==
    ASSUME NEW p \in Pkg, NoBetter(p)
    PROVE  Ready' = Ready \/ (p \in Ready /\ Ready' = Ready \ {p})
<1>1. \A q \in Pkg \ {p} : Installed(q)' <=> Installed(q)
  BY DEF NoBetter, OnlyOn, Installed
<1>2. Installed(p)' => Installed(p)
  BY DEF NoBetter, Installed, Areas, Area
<1> QED
  BY <1>1, <1>2 DEF Ready

LEMMA ReadyIfOnlyOn ==
    ASSUME NEW p \in Pkg, OnlyOn(p)
    PROVE  \/ Ready' = Ready
           \/ p \in Ready /\ Ready' = Ready \ {p}
           \/ p \notin Ready /\ Ready' = Ready \cup {p}
<1>1. \A q \in Pkg \ {p} : Installed(q)' <=> Installed(q)
  BY DEF OnlyOn, Installed
<1> QED
  BY <1>1 DEF Ready

(* Every step is one of BuildOrder, or leaves the ready packages as they   *)
(* are.                                                                    *)
LEMMA OrderedStep ==
    ASSUME TypeOK, Orderly, IInv, [Next]_vars
    PROVE  [Ordered!Next]_Ready
<1>1. ASSUME NEW p \in Pkg, NEW x \in Area, InstallCmds(p, x)
      PROVE  [Ordered!Next]_Ready
  <2>1. OnlyOn(p)
    BY <1>1 DEF InstallCmds, OnlyOn, TypeOK, PkgTypeOK
  <2>2. DepsInstalled(p)
    <3>1. SoundDeps(p)
      BY PkgAssumption DEF IInv, SoundDeps
    <3> QED
      BY <1>1, <3>1, DepsStillThere DEF InstallCmds, IInv
  <2>3. \A i \in DOMAIN Dependencies[p] : Dependencies[p][i] \in Ready
    BY <2>2, PkgAssumption DEF DepsInstalled, Ready
  <2> QED
    BY <2>1, <2>3, ReadyIfOnlyOn DEF Ordered!Next, Ordered!Provide, Ordered!Withdraw, Ready
<1>2. ASSUME NEW p \in Pkg, NoBetter(p)
      PROVE  [Ordered!Next]_Ready
  BY <1>2, ReadyIfNoBetter DEF Ordered!Next, Ordered!Withdraw, Ready
<1>3. ASSUME UNCHANGED inst
      PROVE  [Ordered!Next]_Ready
  BY <1>3 DEF Ready, Installed
<1>4. CASE \E p \in Pkg : Recipe(p)
  BY <1>1, <1>2, <1>4, RecipeNoBetter
<1>5. CASE Fault
  BY <1>2, <1>5, BreakNoBetter DEF Fault
<1>6. CASE NothingToDo \/ InstallToolchain \/ TargetFinalize \/ MakeRootfs \/ PostImage
  BY <1>3, <1>6 DEF NothingToDo, InstallToolchain, TargetFinalize, MakeRootfs, PostImage, pkgVars
<1>7. CASE User
  BY <1>3, <1>7 DEF User, Invoke, Edit, RemoveStamp, pkgVars
<1>8. CASE UNCHANGED vars
  BY <1>3, <1>8 DEF vars, pkgVars
<1> QED
  BY <1>4, <1>5, <1>6, <1>7, <1>8 DEF Next, Make

(* The package infrastructure installs in the order of dependencies: from  *)
(* orderly command lines and for a careful user, whatever fails or is      *)
(* interrupted, a package becomes completely installed only while all that *)
(* it depends on is (pkg-generic.mk:349-410, adding-packages-generic.txt).  *)
THEOREM InstallsInOrder ==
    ASSUME Orderly, CarefulUser
    PROVE  Spec => OrderedSpec
<1>1. Init => Ordered!Init
  <2> SUFFICES ASSUME Init PROVE Ordered!Init
    OBVIOUS
  <2>1. \A p \in Pkg : Installed(p) <=> Areas(p) = {}
    BY DEF Init, Installed, Areas, Area
  <2> QED
    BY <2>1 DEF Ordered!Init
<1>2. TypeOK /\ IInv /\ [Next]_vars => [Ordered!Next]_Ready
  BY OrderedStep
<1> QED
  BY <1>1, <1>2, TypeCorrect, Inductive, PTL DEF Spec, OrderedSpec, Ordered!Spec, Ready
=============================================================================
