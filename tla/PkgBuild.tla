------------------------------ MODULE PkgBuild ------------------------------
(***************************************************************************)
(* The generic package infrastructure (package/pkg-generic.mk) run by make *)
(* from the top-level Makefile, together with the user who types make      *)
(* commands, edits sources and presses ^C.                                 *)
(*                                                                         *)
(* make comes to the targets in the order of its walk of the target graph  *)
(* (Plan, see module MakePlan), to each once per invocation, runs one      *)
(* recipe at a time and gives up on the first one that fails.  All it      *)
(* remembers from one invocation to the next are the stamp files.  What    *)
(* the recipes really did is in the build directories, in the host,        *)
(* staging, target and images directories and in the root filesystem       *)
(* image; the properties relate the two.                                   *)
(***************************************************************************)
EXTENDS PkgTargets

CONSTANTS
    CommandLines,   \* the goal sequences the user types after `make'
    Plan,           \* the recipes make comes to for each of them, in order
    Edited,         \* packages whose source the developer edits
    Fragile,        \* the recipes that may fail or be interrupted
    HandRemoved     \* stamp targets whose file the user may remove by hand

ASSUME PlanAssumption ==
    /\ <<>> \notin CommandLines
    /\ Plan \in [CommandLines -> Seq(RecipeTarget)]
    /\ Edited \subseteq Pkg
    /\ Fragile \subseteq RecipeTarget
    /\ HandRemoved \subseteq Stamp \X Pkg

VARIABLES
    goals,      \* make: the goals of the latest invocation
    at,         \* make: the position of the current recipe in its script
    half,       \* make: the first half of the current recipe has run
    failed,     \* make: whether the latest invocation stopped on an error
    stamps,     \* disk: the stamp files in each package's build directory
    tree,       \* disk: what each build directory really holds
    inst,       \* disk: what each package has put in the output directories
    dirty,      \* disk: packages whose source the developer has edited
    toolchain,  \* disk: whether the cross toolchain is installed
    final,      \* disk: target-finalize has run since the last installation
    image       \* disk: the root filesystem image

makeVars == << goals, at, half, failed >>
pkgVars  == << stamps, tree, inst, dirty >>
topVars  == << toolchain, final, image >>
vars     == << makeVars, pkgVars, topVars >>

(* The state of a piece of work: not there, there but incomplete or out of *)
(* date, there and made from the current inputs.                           *)
Quality == { "absent", "bad", "good" }
Work    == { "source", "patches", "config", "objects" }
Area    == { "host", "staging", "target", "images" }
Stale(q) == IF q = "absent" THEN "absent" ELSE "bad"
GoodIf(b) == IF b THEN "good" ELSE "bad"

Areas(p) == IF p \in HostPkg THEN {"host"}
            ELSE { x \in Area : \/ x = "staging" /\ p \in StagingPkg
                                \/ x = "target"  /\ p \in TargetPkg
                                \/ x = "images"  /\ p \in ImagesPkg }

Installed(p) == \A x \in Areas(p) : inst[p][x] = "good"
DepsInstalled(p) ==
    \A i \in DOMAIN Dependencies[p] : Installed(Dependencies[p][i])

(* The recipes of the latest invocation, in the order of the plan. *)
Script == [line \in CommandLines |-> Plan[line]]
Recipes == IF goals = <<>> THEN <<>> ELSE Script[goals]

MakeTypeOK ==
    /\ goals \in CommandLines \cup {<<>>}
    /\ at \in 1..Len(Recipes) + 1
    /\ half \in BOOLEAN
    /\ failed \in BOOLEAN

PkgTypeOK ==
    /\ stamps \in [Pkg -> SUBSET Stamp]
    /\ tree \in [Pkg -> [Work -> Quality]]
    /\ inst \in [Pkg -> [Area -> Quality]]
    /\ dirty \subseteq Pkg

TopTypeOK ==
    /\ toolchain \in BOOLEAN
    /\ final \in BOOLEAN
    /\ image \in [made : BOOLEAN, has : SUBSET Pkg, final : BOOLEAN]

TypeOK == MakeTypeOK /\ PkgTypeOK /\ TopTypeOK

Init ==
    /\ goals = <<>> /\ at = 1 /\ half = FALSE /\ failed = FALSE
    /\ stamps = [p \in Pkg |-> {}]
    /\ tree = [p \in Pkg |-> [w \in Work |-> "absent"]]
    /\ inst = [p \in Pkg |-> [x \in Area |-> "absent"]]
    /\ dirty = {}
    /\ toolchain = FALSE /\ final = FALSE
    /\ image = [made |-> FALSE, has |-> {}, final |-> FALSE]

-----------------------------------------------------------------------------
(* make *)

(* Whether the latest invocation had a recipe to run. *)
Asked(t) == \E i \in DOMAIN Recipes : Recipes[i] = t

Idle == at > Len(Recipes)

(* A stamp file has no prerequisite: once it exists its recipe never runs. *)
UpToDate(t) == \/ t[1] \in Stamp /\ t[1] \in stamps[t[2]]
               \/ t[1] = "toolchain" /\ toolchain

Running(t) == ~Idle /\ Recipes[at] = t /\ ~UpToDate(t)

Done == /\ at' = at + 1 /\ half' = FALSE
        /\ UNCHANGED << goals, failed >>

FirstHalf == /\ ~half /\ half' = TRUE
             /\ UNCHANGED << goals, at, failed >>

Whole == ~half /\ Done

NothingToDo ==
    /\ ~Idle /\ UpToDate(Recipes[at])
    /\ Done /\ UNCHANGED << pkgVars, topVars >>

(* The last line of a stamp's recipe: touch $@. *)
Touch(p) ==
    /\ half /\ Done
    /\ \E s \in Stamp : /\ Running(<<s, p>>)
                        /\ stamps' = [stamps EXCEPT ![p] = @ \cup {s}]
    /\ UNCHANGED << tree, inst, dirty, topVars >>

-----------------------------------------------------------------------------
(* The commands of the package recipes, up to the final touch. *)

StaleAll(f) == [x \in DOMAIN f |-> Stale(f[x])]

(* The archives live outside the build tree; see module Download. *)
DownloadCmds(p) ==
    /\ Running(<<".stamp_downloaded", p>>) /\ FirstHalf
    /\ UNCHANGED << pkgVars, topVars >>

RsyncSourced(p) ==
    /\ Running(<<".stamp_rsync_sourced", p>>) /\ Whole
    /\ UNCHANGED << pkgVars, topVars >>

(* The archive overwrites whatever the directory holds. *)
ExtractCmds(p) ==
    /\ Running(<<".stamp_extracted", p>>) /\ FirstHalf
    /\ tree' = [tree EXCEPT ![p] = [StaleAll(@) EXCEPT !["source"] = "good"]]
    /\ UNCHANGED << stamps, inst, dirty, topVars >>

(* rsync brings an edited source; what was built from the old one is stale. *)
RsyncCmds(p) ==
    /\ Running(<<".stamp_rsynced", p>>) /\ FirstHalf
    /\ tree' = [tree EXCEPT ![p]["source"] = "good",
                            ![p]["objects"] = IF p \in dirty THEN Stale(@) ELSE @]
    /\ inst' = [inst EXCEPT ![p] = IF p \in dirty THEN StaleAll(@) ELSE @]
    /\ dirty' = dirty \ {p}
    /\ UNCHANGED << stamps, topVars >>

(* apply-patches.sh refuses a tree that holds some of its patches. *)
Repatched(p) == p \in PatchedPkg /\ tree[p]["patches"] # "absent"

PatchCmds(p) ==
    /\ Running(<<".stamp_patched", p>>) /\ FirstHalf
    /\ ~Repatched(p)
    /\ tree' = [tree EXCEPT ![p]["patches"] = GoodIf(tree[p]["source"] = "good")]
    /\ UNCHANGED << stamps, inst, dirty, topVars >>

SourceReady(p) == /\ tree[p]["source"] = "good"
                  /\ p \notin OverridePkg => tree[p]["patches"] = "good"

(* A new configuration makes what was built under the old one stale. *)
ConfigureCmds(p) ==
    /\ Running(<<".stamp_configured", p>>) /\ FirstHalf
    /\ tree' = [tree EXCEPT ![p]["config"] = GoodIf(SourceReady(p) /\ DepsInstalled(p)),
                            ![p]["objects"] = Stale(@)]
    /\ inst' = [inst EXCEPT ![p] = StaleAll(@)]
    /\ UNCHANGED << stamps, dirty, topVars >>

(* For a package built from its archive, the developer's edits are in the  *)
(* build directory and this is where they take effect.                     *)
BuildCmds(p) ==
    /\ Running(<<".stamp_built", p>>) /\ FirstHalf
    /\ tree' = [tree EXCEPT ![p]["objects"] =
                   GoodIf(tree[p]["config"] = "good" /\ SourceReady(p) /\ DepsInstalled(p))]
    /\ LET edited == p \in dirty \ OverridePkg IN
         /\ inst' = [inst EXCEPT ![p] = IF edited THEN StaleAll(@) ELSE @]
         /\ dirty' = IF edited THEN dirty \ {p} ELSE dirty
    /\ UNCHANGED << stamps, topVars >>

InstallStamp == [ host    |-> ".stamp_host_installed",
                  staging |-> ".stamp_staging_installed",
                  target  |-> ".stamp_target_installed",
                  images  |-> ".stamp_images_installed" ]

InstallCmds(p, x) ==
    /\ Running(<<InstallStamp[x], p>>) /\ FirstHalf
    /\ inst' = [inst EXCEPT ![p][x] = GoodIf(tree[p]["objects"] = "good")]
    /\ final' = IF x = "target" THEN FALSE ELSE final
    /\ UNCHANGED << stamps, tree, dirty, toolchain, image >>

UninstallStamps(p) ==
    /\ Running(<<".stamp_uninstalled", p>>) /\ FirstHalf
    /\ stamps' = [stamps EXCEPT ![p] =
                     @ \ {".stamp_staging_installed", ".stamp_target_installed"}]
    /\ UNCHANGED << tree, inst, dirty, topVars >>

UninstallCmds(p) ==
    /\ Running(<<".stamp_uninstalled", p>>) /\ half /\ Done
    /\ inst' = [inst EXCEPT ![p]["staging"] = "absent", ![p]["target"] = "absent"]
    /\ UNCHANGED << stamps, tree, dirty, topVars >>

CleanCmds(p) ==
    /\ Running(<<".stamp_cleaned", p>>) /\ FirstHalf
    /\ tree' = [tree EXCEPT ![p]["objects"] = "absent"]
    /\ UNCHANGED << stamps, inst, dirty, topVars >>

CleanStamp(p) ==
    /\ Running(<<".stamp_cleaned", p>>) /\ half /\ Done
    /\ stamps' = [stamps EXCEPT ![p] = @ \ {".stamp_built"}]
    /\ UNCHANGED << tree, inst, dirty, topVars >>

(* The edits of a package built from its archive go with the directory. *)
DircleanThen(p, left) ==
    /\ Running(<<".stamp_dircleaned", p>>) /\ Whole
    /\ stamps' = [stamps EXCEPT ![p] = left]
    /\ tree' = [tree EXCEPT ![p] = [w \in Work |-> "absent"]]
    /\ dirty' = IF p \in OverridePkg THEN dirty ELSE dirty \ {p}
    /\ UNCHANGED << inst, topVars >>
DircleanGlob(p) == DircleanThen(p, stamps[p])     \* mutant: rm -Rf $(@D)/*
Dirclean(p) == DircleanThen(p, {})

(* The stamps <p>-clean-for-rebuild removes, in the order of its commands. *)
RebuildWithoutSync(p) ==     \* mutant
    << ".stamp_built", ".stamp_staging_installed", ".stamp_target_installed",
       ".stamp_images_installed", ".stamp_host_installed" >>
RebuildWithoutBuild(p) ==    \* mutant
    << ".stamp_rsynced", ".stamp_staging_installed", ".stamp_target_installed",
       ".stamp_images_installed", ".stamp_host_installed" >>
RebuildStamps(p) ==
    IF p \in OverridePkg
    THEN << ".stamp_rsynced", ".stamp_built", ".stamp_staging_installed",
            ".stamp_target_installed", ".stamp_images_installed", ".stamp_host_installed" >>
    ELSE << ".stamp_built", ".stamp_staging_installed", ".stamp_target_installed",
            ".stamp_images_installed", ".stamp_host_installed" >>

FirstStamps(p, n) == { RebuildStamps(p)[i] : i \in 1..n }

CleanForRebuild(p) ==
    /\ Running(<<"clean-for-rebuild", p>>) /\ Whole
    /\ stamps' = [stamps EXCEPT ![p] = @ \ FirstStamps(p, Len(RebuildStamps(p)))]
    /\ UNCHANGED << tree, inst, dirty, topVars >>

CleanForReconfigure(p) ==
    /\ Running(<<"clean-for-reconfigure", p>>) /\ Whole
    /\ stamps' = [stamps EXCEPT ![p] = @ \ {".stamp_configured"}]
    /\ UNCHANGED << tree, inst, dirty, topVars >>

-----------------------------------------------------------------------------
(* The recipes of the top-level Makefile. *)

InstallToolchain ==
    /\ Running(<<"toolchain", World>>) /\ Whole
    /\ toolchain' = TRUE
    /\ UNCHANGED << pkgVars, final, image >>

TargetFinalize ==
    /\ Running(<<"target-finalize", World>>) /\ Whole
    /\ final' = TRUE
    /\ UNCHANGED << pkgVars, toolchain, image >>

MakeRootfs ==
    /\ Running(<<"rootfs", World>>) /\ Whole
    /\ image' = [made |-> TRUE, final |-> final,
                 has |-> {p \in TargetPkg \ HostPkg : inst[p]["target"] = "good"}]
    /\ UNCHANGED << pkgVars, toolchain, final >>

PostImage ==
    /\ Running(<<"target-post-image", World>>) /\ Whole
    /\ UNCHANGED << pkgVars, topVars >>

-----------------------------------------------------------------------------
(* A recipe whose commands fail or are interrupted ends the invocation and *)
(* leaves its work half done, without the stamp.                           *)

GiveUp == /\ at' = Len(Recipes) + 1 /\ half' = FALSE /\ failed' = TRUE
          /\ UNCHANGED goals

PatchFails(p) ==
    /\ Running(<<".stamp_patched", p>>) /\ ~half
    /\ Repatched(p)
    /\ GiveUp /\ UNCHANGED << pkgVars, topVars >>

Breaks(v, p) == <<v, p>> \in Fragile /\ Running(<<v, p>>) /\ GiveUp

BreakBeforeTouch(p) ==
    /\ half
    /\ \E s \in Stamp \cup {".stamp_cleaned"} : Breaks(s, p)
    /\ UNCHANGED << pkgVars, topVars >>

BreakDownload(p) ==
    /\ Breaks(".stamp_downloaded", p) /\ ~half
    /\ UNCHANGED << pkgVars, topVars >>

BreakExtract(p) ==
    /\ Breaks(".stamp_extracted", p) /\ ~half
    /\ tree' = [tree EXCEPT ![p] = [StaleAll(@) EXCEPT !["source"] = "bad"]]
    /\ UNCHANGED << stamps, inst, dirty, topVars >>

BreakRsync(p) ==
    /\ Breaks(".stamp_rsynced", p) /\ ~half
    /\ tree' = [tree EXCEPT ![p]["source"] = "bad", ![p]["objects"] = Stale(@)]
    /\ inst' = [inst EXCEPT ![p] = StaleAll(@)]
    /\ UNCHANGED << stamps, dirty, topVars >>

(* Before its first patch or after it. *)
BreakPatch(p) ==
    /\ Breaks(".stamp_patched", p) /\ ~half
    /\ \/ UNCHANGED tree
       \/ p \in PatchedPkg /\ tree' = [tree EXCEPT ![p]["patches"] = "bad"]
    /\ UNCHANGED << stamps, inst, dirty, topVars >>

BreakConfigure(p) ==
    /\ Breaks(".stamp_configured", p) /\ ~half
    /\ tree' = [tree EXCEPT ![p]["config"] = "bad", ![p]["objects"] = Stale(@)]
    /\ inst' = [inst EXCEPT ![p] = StaleAll(@)]
    /\ UNCHANGED << stamps, dirty, topVars >>

BreakBuild(p) ==
    /\ Breaks(".stamp_built", p) /\ ~half
    /\ tree' = [tree EXCEPT ![p]["objects"] = "bad"]
    /\ UNCHANGED << stamps, inst, dirty, topVars >>

BreakInstall(p, x) ==
    /\ Breaks(InstallStamp[x], p) /\ ~half
    /\ inst' = [inst EXCEPT ![p][x] = "bad"]
    /\ final' = IF x = "target" THEN FALSE ELSE final
    /\ UNCHANGED << stamps, tree, dirty, toolchain, image >>

BreakUninstall(p) ==
    /\ Breaks(".stamp_uninstalled", p) /\ half
    /\ inst' = [inst EXCEPT ![p]["staging"] = Stale(@), ![p]["target"] = Stale(@)]
    /\ UNCHANGED << stamps, tree, dirty, topVars >>

BreakClean(p) ==
    /\ Breaks(".stamp_cleaned", p) /\ ~half
    /\ tree' = [tree EXCEPT ![p]["objects"] = Stale(@)]
    /\ UNCHANGED << stamps, inst, dirty, topVars >>

(* rm -Rf removes the entries of a directory in no particular order. *)
BreakDirclean(p) ==
    /\ Breaks(".stamp_dircleaned", p)
    /\ \E kept \in SUBSET stamps[p] : stamps' = [stamps EXCEPT ![p] = kept]
    /\ \E gone \in SUBSET Work :
          tree' = [tree EXCEPT ![p] =
                      [w \in Work |-> IF w \in gone THEN "absent" ELSE Stale(@[w])]]
    /\ UNCHANGED << inst, dirty, topVars >>

BreakCleanForRebuild(p) ==
    /\ Breaks("clean-for-rebuild", p)
    /\ \E n \in 0..Len(RebuildStamps(p)) :
          stamps' = [stamps EXCEPT ![p] = @ \ FirstStamps(p, n)]
    /\ UNCHANGED << tree, inst, dirty, topVars >>

-----------------------------------------------------------------------------
(* The user, between two invocations. *)

Invoke(line) ==
    /\ Idle
    /\ goals' = line /\ at' = 1 /\ half' = FALSE /\ failed' = FALSE
    /\ UNCHANGED << pkgVars, topVars >>

(* In the override directory, or in the build directory once it is there. *)
Edit(p) ==
    /\ Idle /\ p \in Edited \ dirty
    /\ p \in OverridePkg \/ ".stamp_patched" \in stamps[p]
    /\ dirty' = dirty \cup {p}
    /\ UNCHANGED << makeVars, stamps, tree, inst, topVars >>

RemoveStamp(p) ==
    /\ Idle
    /\ \E s \in stamps[p] : /\ <<s, p>> \in HandRemoved
                           /\ stamps' = [stamps EXCEPT ![p] = @ \ {s}]
    /\ UNCHANGED << makeVars, tree, inst, dirty, topVars >>

-----------------------------------------------------------------------------
Recipe(p) ==
    \/ Touch(p) \/ DownloadCmds(p) \/ RsyncSourced(p) \/ ExtractCmds(p) \/ RsyncCmds(p)
    \/ PatchCmds(p) \/ ConfigureCmds(p) \/ BuildCmds(p)
    \/ (\E x \in Area : InstallCmds(p, x))
    \/ UninstallStamps(p) \/ UninstallCmds(p) \/ CleanCmds(p) \/ CleanStamp(p)
    \/ Dirclean(p) \/ CleanForRebuild(p) \/ CleanForReconfigure(p)
    \/ PatchFails(p)

Break(p) ==
    \/ BreakBeforeTouch(p) \/ BreakDownload(p) \/ BreakExtract(p) \/ BreakRsync(p)
    \/ BreakPatch(p) \/ BreakConfigure(p) \/ BreakBuild(p)
    \/ (\E x \in Area : BreakInstall(p, x))
    \/ BreakUninstall(p) \/ BreakClean(p) \/ BreakDirclean(p)
    \/ BreakCleanForRebuild(p)

Make == \/ NothingToDo
        \/ InstallToolchain \/ TargetFinalize \/ MakeRootfs \/ PostImage
        \/ \E p \in Pkg : Recipe(p)

Fault == \E p \in Pkg : Break(p)

User == \/ \E line \in CommandLines : Invoke(line)
        \/ \E p \in Pkg : Edit(p) \/ RemoveStamp(p)

Next == Make \/ Fault \/ User

Spec == Init /\ [][Next]_vars

(* make runs on unless it is interrupted, and the user comes back to each  *)
(* of the commands again and again.                                        *)
FairSpec == /\ Spec
            /\ WF_vars(Make)
            /\ \A line \in CommandLines : SF_vars(Invoke(line))

-----------------------------------------------------------------------------
(* The work that a stamp file stands for. *)
WorkDone(s, p) ==
    /\ s \in {".stamp_extracted", ".stamp_rsynced"} => tree[p]["source"] = "good"
    /\ s = ".stamp_patched"    => tree[p]["patches"] = "good"
    /\ s = ".stamp_configured" => tree[p]["config"] = "good"
    /\ s = ".stamp_built"      => tree[p]["objects"] = "good"
    /\ \A x \in Area : s = InstallStamp[x] => inst[p][x] = "good"

(* The clean recipe removes .stamp_built after the objects. *)
Cleaning(p) == half /\ Running(<<".stamp_cleaned", p>>)

Honest(p) == \A s \in stamps[p] : WorkDone(s, p) \/ (s = ".stamp_built" /\ Cleaning(p))

(* What the stamps promise: a stamp file exists only when the work it      *)
(* stands for is complete and up to date, whatever was interrupted before. *)
(* pkg-generic.mk touches each stamp last and never looks at anything else *)
(* to decide what remains to be done.                                      *)
StampHonest == \A p \in Pkg : Honest(p)

(* docs/manual/adding-packages-generic.txt:276: the dependencies of a      *)
(* package "are guaranteed to be compiled and installed before the         *)
(* configuration of the current package starts".                           *)
DepsBeforeConfigure ==
    \A p \in Pkg :
       Running(<<".stamp_configured", p>>) /\ ~half => DepsInstalled(p)

(* Every selected package installed, and an image generated from the       *)
(* finalized target directory with all of them.                            *)
Complete == /\ toolchain /\ image.made /\ image.final
            /\ \A i \in DOMAIN Selected :
                  /\ Installed(Selected[i])
                  /\ Selected[i] \in TargetPkg => Selected[i] \in image.has

(* Makefile:754 and docs/manual/package-make-target.txt:72: <p>-rebuild    *)
(* and <p>-reconfigure re-run the compilation, so that when make ends well *)
(* the developer's edits are built and installed, and in the image.        *)
RebuildTakesEffect ==
    [][ ~Idle /\ Idle' /\ ~failed' =>
           \A p \in Pkg : Asked(<<"clean-for-rebuild", p>>) =>
              /\ p \notin dirty'
              /\ tree'[p]["objects"] = "good" /\ Installed(p)'
              /\ p \in TargetPkg \ HostPkg => p \in image'.has ]_vars

(* Once recipes stop failing and stamps are left alone, coming back to the *)
(* commands, dirclean among them, gets the whole build done: nothing that  *)
(* happened leaves a state that every later run trips over.                *)
Converges == <>[][~(Fault \/ \E p \in Pkg : RemoveStamp(p))]_vars =>
                []<>(Idle /\ ~failed /\ Complete)

(* docs/manual/rebuilding-packages.txt:51: removing a package's build      *)
(* directory makes Buildroot build and install it again from scratch,      *)
(* whatever an interrupted clean, a removed stamp or a half applied patch  *)
(* had left there.                                                         *)
DircleanRestores ==
    [][ ~Idle /\ Idle' /\ ~failed' /\ Asked(<<"rootfs", World>>) =>
           \A p \in Pkg : Asked(<<".stamp_dircleaned", p>>) =>
              /\ \A w \in {"source", "config", "objects"} : tree'[p][w] = "good"
              /\ Installed(p)'
              /\ p \in TargetPkg \ HostPkg => p \in image'.has ]_vars

(* The infrastructure as a dependency-ordered installation: a package      *)
(* becomes completely installed only while all it depends on are.          *)
Ordered == INSTANCE BuildOrder WITH
              ready <- {p \in Pkg : Installed(p)},
              Given <- {p \in Pkg : Areas(p) = {}}
OrderedSpec == Ordered!Spec

-----------------------------------------------------------------------------
(* Why StampHonest holds.  First, what it asks of the command lines: each  *)
(* recipe comes after the ones whose results it uses, with no command in   *)
(* between that takes them away.  A single goal always gives that; some    *)
(* pairs of goals, like `<d>-install <d>-uninstall <p>', do not.           *)

SourceNeeds(p) == IF p \in OverridePkg THEN { <<".stamp_rsynced", p>> }
                  ELSE { <<".stamp_extracted", p>>, <<".stamp_patched", p>> }

DepNeeds(p) == UNION { { <<InstallStamp[x], Dependencies[p][i]>> :
                           x \in Areas(Dependencies[p][i]) } : i \in DOMAIN Dependencies[p] }

Installing == { InstallStamp[x] : x \in Area }

Needs(t) == CASE t[1] = ".stamp_patched"    -> { <<".stamp_extracted", t[2]>> }
              [] t[1] = ".stamp_configured" -> SourceNeeds(t[2]) \cup DepNeeds(t[2])
              [] t[1] = ".stamp_built"      -> SourceNeeds(t[2]) \cup DepNeeds(t[2])
                                                  \cup { <<".stamp_configured", t[2]>> }
              [] t[1] \in Installing        -> DepNeeds(t[2]) \cup { <<".stamp_built", t[2]>> }
              [] OTHER -> {}

Removed(t) == CASE t[1] = ".stamp_uninstalled" -> {".stamp_staging_installed", ".stamp_target_installed"}
                [] t[1] = ".stamp_cleaned"     -> {".stamp_built"}
                [] t[1] = ".stamp_dircleaned"  -> Stamp
                [] t[1] = "clean-for-rebuild"  -> FirstStamps(t[2], Len(RebuildStamps(t[2])))
                [] t[1] = "clean-for-reconfigure" -> {".stamp_configured"}
                [] OTHER -> {}
Removes(r, t) == r[2] = t[2] /\ t[1] \in Removed(r)

OrderlyScript(script) ==
    \A k \in DOMAIN script :
       /\ \A t \in Needs(script[k]) :
             \E i \in 1..k-1 : /\ script[i] = t
                              /\ \A j \in i+1..k-1 : ~Removes(script[j], t)
       /\ script[k][1] = "clean-for-reconfigure" =>
             k > 1 /\ script[k-1] = <<"clean-for-rebuild", script[k][2]>>
       /\ script[k][1] = ".stamp_rsynced" => script[k][2] \in OverridePkg
       /\ script[k][1] \in {".stamp_extracted", ".stamp_patched"} =>
             script[k][2] \notin OverridePkg

Orderly == \A line \in CommandLines : OrderlyScript(Script[line])

(* What it asks of the user and of luck: no stamp of the package is removed *)
(* by hand, its build directory is not edited, and no clean-up is          *)
(* interrupted.                                                            *)
CleanUps == {".stamp_cleaned", ".stamp_dircleaned", "clean-for-rebuild"}
CarefulWith(p) ==
    /\ \A s \in Stamp : <<s, p>> \notin HandRemoved
    /\ p \in Edited => p \in OverridePkg
    /\ \A v \in CleanUps : <<v, p>> \notin Fragile
CarefulUser == \A p \in Pkg : CarefulWith(p)

(* What RebuildTakesEffect asks of the command lines: the steps that a     *)
(* clean-for-rebuild undoes come again, nothing after that undoes them, and *)
(* the image is made last.  It is so for the packages that `all' builds.   *)
RebuildSteps(p) == { ".stamp_built" } \cup { InstallStamp[x] : x \in Areas(p) }
                      \cup IF p \in OverridePkg THEN { ".stamp_rsynced" } ELSE {}

(* The step is made again after the k-th recipe, for good, and an image of  *)
(* it.                                                                     *)
Redone(script, k, step) ==
    \E j, r \in k+1..Len(script) :
       /\ j < r /\ script[r] = <<"rootfs", World>>
       /\ script[j] = <<step, script[k][2]>>
       /\ \A i \in j+1..Len(script) : ~Removes(script[i], script[j])

RebuildsInFull(script) ==
    \A k \in DOMAIN script : script[k][1] = "clean-for-rebuild" =>
       \A s \in RebuildSteps(script[k][2]) : Redone(script, k, s)

RebuildsComplete == \A line \in CommandLines : RebuildsInFull(Script[line])

(* The packages that `all' builds are those selected and those they depend *)
(* on; one that installs nothing is not built, and leads to no other.      *)
Builds(B) ==
    /\ \A i \in DOMAIN Selected : Selected[i] \in B
    /\ \A q \in B : Areas(q) # {} => \A i \in DOMAIN Dependencies[q] : Dependencies[q][i] \in B
Built == { p \in Pkg : Areas(p) # {} /\ \A B \in SUBSET Pkg : Builds(B) => p \in B }

(* A line whose last goal rebuilds only what `all' builds.                 *)
LastOf(line) == line[Len(line)]
Rebuilds(g) == g[1] \in { "rebuild", "reconfigure" }
RebuildsBuilt(line) ==
    /\ line # <<>> /\ LastOf(line)[1] \notin { "clean-for-rebuild", "clean-for-reconfigure" }
    /\ Rebuilds(LastOf(line)) => LastOf(line)[2] \in Built

(* What DircleanRestores asks.  A line that makes an image after a dirclean *)
(* builds nothing before it, and everything that it removed after it.      *)
Restored(script) ==
    { p \in Pkg : \E k, r \in DOMAIN script : /\ script[k] = <<".stamp_dircleaned", p>>
                                            /\ script[r] = <<"rootfs", World>> }
AllSteps(p) == RebuildSteps(p) \cup { ".stamp_configured" }
                  \cup IF p \in OverridePkg THEN {} ELSE { ".stamp_extracted" }

RestoresInFull(script) ==
    \A p \in Restored(script) : \A k \in DOMAIN script : script[k] = <<".stamp_dircleaned", p>> =>
       /\ \A i \in 1..k-1 : script[i][1] \notin Stamp
       /\ \A s \in AllSteps(p) : Redone(script, k, s)

RestoresComplete == \A line \in CommandLines : RestoresInFull(Script[line])

(* A line that ends with the whole build cleans only what `all' builds, or *)
(* it is nothing but dircleans.                                            *)
MakesAll(g) == Rebuilds(g) \/ g = All
Dircleaned(line) == { p \in Pkg : \E i \in DOMAIN line : line[i] = <<"dirclean", p>> }
RestoresBuilt(line) ==
    \/ Dircleaned(line) = {} \/ LastOf(line)[1] = "dirclean"
    \/ MakesAll(LastOf(line)) /\ Dircleaned(line) \subseteq Built

(* What a restored package depends on is restored with it, or treated with *)
(* care, and so all that it depends on in turn.                            *)
NeedsOnly(p, C) == \A i \in DOMAIN Dependencies[p] : Dependencies[p][i] \in C
Guarded(C) ==
    /\ C \subseteq Pkg /\ \A p \in C : CarefulWith(p) /\ NeedsOnly(p, C)
    /\ \A line \in CommandLines : \A p \in Restored(Script[line]) :
          NeedsOnly(p, C \cup Restored(Script[line]))

(* The stamps of a package disappear in the reverse order of the steps.    *)
Chained(p) ==
    LET later == stamps[p] \cap ({".stamp_built"} \cup Installing) IN
    IF p \in OverridePkg
    THEN /\ later # {} => {".stamp_rsynced", ".stamp_configured"} \subseteq stamps[p]
         /\ ".stamp_extracted" \notin stamps[p]
    ELSE /\ later # {} => ".stamp_configured" \in stamps[p]
         /\ ".stamp_configured" \in stamps[p] => ".stamp_patched" \in stamps[p]
         /\ ".stamp_patched" \in stamps[p] => ".stamp_extracted" \in stamps[p]
         /\ ".stamp_rsynced" \notin stamps[p]

(* What make has come past in this invocation is still up to date, unless  *)
(* a recipe after it has taken it away.                                    *)
PassedIsDone ==
    ~Idle => \A i \in 1..at-1 :
                Recipes[i][1] \in Stamp =>
                   \/ Recipes[i][1] \in stamps[Recipes[i][2]]
                   \/ \E j \in i+1..at : Removes(Recipes[j], Recipes[i])

(* In the middle of a recipe: its work is done, the stamps not yet.        *)
HalfDone(p) ==
    half => /\ \A s \in Stamp : Running(<<s, p>>) => WorkDone(s, p)
            /\ Running(<<".stamp_uninstalled", p>>) =>
                  stamps[p] \cap {".stamp_staging_installed", ".stamp_target_installed"} = {}

(* <p>-clean-for-reconfigure follows <p>-clean-for-rebuild at once.        *)
JustCleaned(p) ==
    ~Idle /\ ~half /\ Recipes[at] = <<"clean-for-reconfigure", p>> =>
       stamps[p] \cap ({".stamp_built"} \cup Installing) = {}

(* All this of one package.  It needs no care with the others but those it *)
(* depends on.                                                             *)
Sound(p) == /\ Honest(p) /\ Chained(p) /\ HalfDone(p) /\ JustCleaned(p)
            /\ p \in dirty => p \in OverridePkg

IInv == PassedIsDone /\ \A p \in Pkg : Sound(p)

(* Why RebuildTakesEffect holds.  Since the clean-for-rebuild of a package *)
(* only a new rsync gives it its stamp back, and that brings the edits.    *)
SyncedSinceClean ==
    \A p \in Pkg :
       /\ \E i \in 1..at-1 : Recipes[i] = <<"clean-for-rebuild", p>>
       /\ ".stamp_rsynced" \in stamps[p] \/ (half /\ Running(<<".stamp_rsynced", p>>))
       => p \notin dirty

(* An image that make has come past holds the packages installed for good  *)
(* before it.                                                              *)
InImage(p) ==
    \A r \in 1..at-1 : \A j \in 1..r-1 :
       /\ Recipes[r] = <<"rootfs", World>>
       /\ Recipes[j] = <<".stamp_target_installed", p>>
       /\ \A i \in j+1..Len(Recipes) : ~Removes(Recipes[i], Recipes[j])
       => p \in image.has
InstalledInImage == \A p \in TargetPkg \ HostPkg : InImage(p)

RebuildInv == ~Idle => SyncedSinceClean /\ InstalledInImage

(* Why DircleanRestores holds.  Once make has come past its dirclean a     *)
(* package is sound, whatever state it was in, and it is in the image that *)
(* follows.                                                                *)
Cleaned(p) == ~Idle /\ \E i \in 1..at-1 : Recipes[i] = <<".stamp_dircleaned", p>>

RestoreInv(C) ==
    /\ PassedIsDone
    /\ \A p \in C : Sound(p)
    /\ ~Idle => \A p \in Restored(Recipes) :
          /\ Cleaned(p) => Sound(p)
          /\ p \in TargetPkg \ HostPkg => InImage(p)
=============================================================================
