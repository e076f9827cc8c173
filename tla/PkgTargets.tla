----------------------------- MODULE PkgTargets -----------------------------
(***************************************************************************)
(* The graph of make targets that package/pkg-generic.mk writes for every  *)
(* package and that the top-level Makefile writes for the whole build.     *)
(*                                                                         *)
(* A target is a pair <<verb, owner>>.  The owner is a package, or World   *)
(* for a target of the top-level Makefile.  Prereqs[t] is the sequence of  *)
(* prerequisites of t, in the order in which make considers them: the      *)
(* Makefile declares .NOTPARALLEL, so this order is all that makes one     *)
(* prerequisite come before another.                                       *)
(***************************************************************************)
EXTENDS Naturals, Sequences, FiniteSets

CONSTANTS
    Pkg,            \* the packages, host and target
    World,          \* the owner of the top-level targets
    HostPkg,        \* packages whose _TYPE is "host"
    OverridePkg,    \* packages with a _OVERRIDE_SRCDIR
    StagingPkg,     \* packages with _INSTALL_STAGING = YES
    TargetPkg,      \* packages with _INSTALL_TARGET = YES (the default)
    ImagesPkg,      \* packages with _INSTALL_IMAGES = YES
    PatchedPkg,     \* packages that have at least one patch to apply
    Dependencies,   \* p -> the sequence of packages in <p>_DEPENDENCIES
    Selected,       \* TARGETS: the sequence of packages the configuration selects
    RootfsDeps      \* ROOTFS_<FS>_DEPENDENCIES

ASSUME PkgAssumption ==
    /\ World \notin Pkg
    /\ HostPkg \subseteq Pkg
    /\ OverridePkg \subseteq Pkg
    /\ StagingPkg \subseteq Pkg
    /\ TargetPkg \subseteq Pkg
    /\ ImagesPkg \subseteq Pkg
    /\ PatchedPkg \subseteq Pkg
    /\ Dependencies \in [Pkg -> Seq(Pkg)]
    /\ Selected \in Seq(Pkg)
    /\ RootfsDeps \in Seq(Pkg)

(* The stamp files of a package's build directory. *)
Stamp == { ".stamp_downloaded", ".stamp_extracted", ".stamp_rsynced",
           ".stamp_patched", ".stamp_configured", ".stamp_built",
           ".stamp_host_installed", ".stamp_staging_installed",
           ".stamp_target_installed", ".stamp_images_installed" }

(* Stamp targets whose recipe never creates the file: they run every time. *)
Ephemeral == { ".stamp_rsync_sourced", ".stamp_cleaned",
               ".stamp_uninstalled", ".stamp_dircleaned" }

Phony == { "pkg", "install", "install-host", "install-staging",
           "install-target", "install-images", "build", "configure", "patch",
           "extract", "rsync", "depends", "source", "uninstall", "clean",
           "dirclean", "clean-for-rebuild", "rebuild",
           "clean-for-reconfigure", "reconfigure" }

TopLevel == { "all", "toolchain", "target-finalize", "rootfs",
              "target-post-image" }

Target == ((Stamp \cup Ephemeral \cup Phony) \X Pkg) \cup (TopLevel \X {World})

All == <<"all", World>>

-----------------------------------------------------------------------------
(* <p>: the package itself, one per dependency. *)
Packages(s) == [i \in DOMAIN s |-> <<"pkg", s[i]>>]

If(b, s) == IF b THEN s ELSE <<>>

InstallSteps(p) ==
    IF p \in HostPkg
    THEN << <<"install-host", p>> >>
    ELSE << <<"install-staging", p>>, <<"install-target", p>>,
            <<"install-images", p>> >>

InstallThenBuild(p, stamp) == << <<stamp, p>>, <<"build", p>> >>     \* mutant
BuildThen(p, stamp) == << <<"build", p>>, <<stamp, p>> >>

(* `<p>-rsync' is a target of override packages only. *)
Sync(p) == If(p \in OverridePkg, << <<"rsync", p>> >>)

DependsLast(p) ==     \* mutant
    If(p \notin OverridePkg, << <<"patch", p>> >>)
        \o << <<".stamp_configured", p>>, <<"depends", p>> >>

ConfigureSteps(p) ==
    If(p \notin OverridePkg, << <<"patch", p>> >>)
        \o << <<"depends", p>>, <<".stamp_configured", p>> >>

PatchSteps(p) ==
    IF p \in OverridePkg THEN Sync(p)
    ELSE << <<"extract", p>>, <<".stamp_patched", p>> >>

ExtractSteps(p) ==
    IF p \in OverridePkg THEN Sync(p)
    ELSE << <<"source", p>>, <<".stamp_extracted", p>> >>

SourceSteps(p) ==
    << <<IF p \in OverridePkg THEN ".stamp_rsync_sourced"
                              ELSE ".stamp_downloaded", p>> >>

(* The prerequisites of the targets that inner-generic-package writes. *)
PkgPrereqs(verb, p) ==
    CASE verb = "pkg"             -> << <<"install", p>> >>
      [] verb = "install"         -> InstallSteps(p)
      [] verb = "install-host"    -> BuildThen(p, ".stamp_host_installed")
      [] verb = "install-staging" -> If(p \in StagingPkg, BuildThen(p, ".stamp_staging_installed"))
      [] verb = "install-target"  -> If(p \in TargetPkg, BuildThen(p, ".stamp_target_installed"))
      [] verb = "install-images"  -> If(p \in ImagesPkg, BuildThen(p, ".stamp_images_installed"))
      [] verb = "build"           -> << <<"configure", p>>, <<".stamp_built", p>> >>
      [] verb = "configure"       -> ConfigureSteps(p)
      [] verb = "depends"         -> Sync(p) \o Packages(Dependencies[p])
      [] verb = "patch"           -> PatchSteps(p)
      [] verb = "extract"         -> ExtractSteps(p)
      [] verb = "rsync"           -> If(p \in OverridePkg, << <<".stamp_rsynced", p>> >>)
      [] verb = "source"          -> SourceSteps(p)
      [] verb = "uninstall"       -> << <<"configure", p>>, <<".stamp_uninstalled", p>> >>
      [] verb = "clean"           -> << <<"uninstall", p>>, <<".stamp_cleaned", p>> >>
      [] verb = "dirclean"        -> << <<".stamp_dircleaned", p>> >>
      [] verb = "rebuild"         -> << <<"clean-for-rebuild", p>>, All >>
      [] verb = "clean-for-reconfigure" -> << <<"clean-for-rebuild", p>> >>
      [] verb = "reconfigure"     -> << <<"clean-for-reconfigure", p>>, All >>
      [] OTHER                    -> <<>>

(* The tail of TARGETS, in the order the Makefile appends to that list. *)
Finishing ==
    << <<"target-finalize", World>>, <<"rootfs", World>>, <<"target-post-image", World>> >>

(* `world': the toolchain, then TARGETS, the selected packages first. *)
WorldPrereqs(verb) ==
    CASE verb = "all"    -> << <<"toolchain", World>> >> \o Packages(Selected) \o Finishing
      [] verb = "rootfs" -> Packages(RootfsDeps)
      [] OTHER           -> <<>>

Prereqs == [t \in Target |->
               IF t[2] = World THEN WorldPrereqs(t[1]) ELSE PkgPrereqs(t[1], t[2])]

-----------------------------------------------------------------------------
(* The targets with commands.  Of the phony ones only these have any; the  *)
(* others group their prerequisites.                                       *)
RecipeVerb == Stamp \cup Ephemeral \cup {"clean-for-rebuild", "clean-for-reconfigure"}
RecipeTarget == (RecipeVerb \X Pkg) \cup ((TopLevel \ {"all"}) \X {World})
=============================================================================
