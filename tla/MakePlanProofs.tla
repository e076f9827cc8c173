--------------------------- MODULE MakePlanProofs ---------------------------
(***************************************************************************)
(* What make comes to for a line of goals is orderly, and a rebuild or a   *)
(* dirclean comes to all that it undoes, whatever the packages and however *)
(* they depend on each other, as long as they do not in a circle: so the   *)
(* theorems about PkgBuild hold without assuming it of the plans.          *)
(*                                                                         *)
(* The graph of targets comes first (each edge, and why there is no        *)
(* circle), then the steps of the walk, then its invariant in three parts: *)
(* Shape, of the targets make is in the middle of; Progress, of what it    *)
(* has finished with; Phases, of the commands that take stamps away.       *)
(***************************************************************************)
EXTENDS PkgBuildProofs, MakePlan, Induction

-----------------------------------------------------------------------------
(* The graph of targets.                                                   *)

Verb == Stamp \cup Ephemeral \cup Phony

LEMMA PrereqsOf ==
  /\ \A v \in Verb, p \in Pkg : Prereqs[<<v, p>>] = PkgPrereqs(v, p)
  /\ \A v \in TopLevel : Prereqs[<<v, World>>] = WorldPrereqs(v)
<1>1. ASSUME NEW v \in Verb, NEW p \in Pkg PROVE Prereqs[<<v, p>>] = PkgPrereqs(v, p)
  <2>1. <<v, p>> \in Target /\ p # World
    BY PkgAssumption DEF Verb, Target
  <2> QED
    BY <2>1 DEF Prereqs
<1>2. ASSUME NEW v \in TopLevel PROVE Prereqs[<<v, World>>] = WorldPrereqs(v)
  <2>1. <<v, World>> \in Target
    BY DEF Target
  <2> QED
    BY <2>1 DEF Prereqs
<1> QED
  BY <1>1, <1>2

LEMMA PhonyPrereqs ==
  ASSUME NEW p \in Pkg
  PROVE  /\ Prereqs[<<"pkg", p>>] = << <<"install", p>> >>
         /\ Prereqs[<<"install", p>>] = InstallSteps(p)
         /\ Prereqs[<<"install-host", p>>] = BuildThen(p, ".stamp_host_installed")
         /\ Prereqs[<<"install-staging", p>>] = If(p \in StagingPkg, BuildThen(p, ".stamp_staging_installed"))
         /\ Prereqs[<<"install-target", p>>] = If(p \in TargetPkg, BuildThen(p, ".stamp_target_installed"))
         /\ Prereqs[<<"install-images", p>>] = If(p \in ImagesPkg, BuildThen(p, ".stamp_images_installed"))
         /\ Prereqs[<<"build", p>>] = << <<"configure", p>>, <<".stamp_built", p>> >>
         /\ Prereqs[<<"configure", p>>] = ConfigureSteps(p)
         /\ Prereqs[<<"depends", p>>] = Sync(p) \o Packages(Dependencies[p])
         /\ Prereqs[<<"patch", p>>] = PatchSteps(p)
         /\ Prereqs[<<"extract", p>>] = ExtractSteps(p)
         /\ Prereqs[<<"rsync", p>>] = If(p \in OverridePkg, << <<".stamp_rsynced", p>> >>)
         /\ Prereqs[<<"source", p>>] = SourceSteps(p)
         /\ Prereqs[<<"uninstall", p>>] = << <<"configure", p>>, <<".stamp_uninstalled", p>> >>
         /\ Prereqs[<<"clean", p>>] = << <<"uninstall", p>>, <<".stamp_cleaned", p>> >>
         /\ Prereqs[<<"dirclean", p>>] = << <<".stamp_dircleaned", p>> >>
         /\ Prereqs[<<"rebuild", p>>] = << <<"clean-for-rebuild", p>>, All >>
         /\ Prereqs[<<"clean-for-reconfigure", p>>] = << <<"clean-for-rebuild", p>> >>
         /\ Prereqs[<<"reconfigure", p>>] = << <<"clean-for-reconfigure", p>>, All >>
         /\ Prereqs[<<"clean-for-rebuild", p>>] = <<>>
<1>1. Phony \subseteq Verb
  BY DEF Verb
<1>2. \A v \in Phony : Prereqs[<<v, p>>] = PkgPrereqs(v, p)
  BY <1>1, PrereqsOf
<1> QED
  BY <1>2 DEF Phony, PkgPrereqs

LEMMA StampPrereqs ==
  ASSUME NEW p \in Pkg, NEW v \in Stamp \cup Ephemeral
  PROVE  Prereqs[<<v, p>>] = <<>>
<1>1. Prereqs[<<v, p>>] = PkgPrereqs(v, p)
  BY PrereqsOf DEF Verb
<1> QED
  BY <1>1 DEF PkgPrereqs, Stamp, Ephemeral

LEMMA TopPrereqs ==
  /\ Prereqs[All] = << <<"toolchain", World>> >> \o Packages(Selected) \o Finishing
  /\ Prereqs[<<"rootfs", World>>] = Packages(RootfsDeps)
  /\ \A v \in TopLevel \ {"all", "rootfs"} : Prereqs[<<v, World>>] = <<>>
<1>1. \A v \in TopLevel : Prereqs[<<v, World>>] = WorldPrereqs(v)
  BY PrereqsOf
<1> QED
  BY <1>1 DEF All, TopLevel, WorldPrereqs
-----------------------------------------------------------------------------
(* Which targets of a package have which as their i-th prerequisite.       *)
SamePkg(v, i, w) ==
    \/ v = "pkg" /\ w = "install"
    \/ v = "install" /\ w \in {"install-host", "install-staging", "install-target", "install-images"}
    \/ v \in {"install-host", "install-staging", "install-target", "install-images"} /\ w \in {"build"} \cup Installing
    \/ v = "build" /\ w \in {"configure", ".stamp_built"}
    \/ v = "configure" /\ w \in {"patch", "depends", ".stamp_configured"}
    \/ v \in {"depends", "patch", "extract"} /\ w = "rsync"
    \/ v = "patch" /\ w \in {"extract", ".stamp_patched"}
    \/ v = "extract" /\ w \in {"source", ".stamp_extracted"}
    \/ v = "rsync" /\ w = ".stamp_rsynced"
    \/ v = "source" /\ w \in {".stamp_rsync_sourced", ".stamp_downloaded"}
    \/ v = "uninstall" /\ i = 1 /\ w = "configure"
    \/ v = "uninstall" /\ i = 2 /\ w = ".stamp_uninstalled"
    \/ v = "clean" /\ i = 1 /\ w = "uninstall"
    \/ v = "clean" /\ i = 2 /\ w = ".stamp_cleaned"
    \/ v = "dirclean" /\ i = 1 /\ w = ".stamp_dircleaned"
    \/ v \in {"rebuild", "clean-for-reconfigure"} /\ i = 1 /\ w = "clean-for-rebuild"
    \/ v = "reconfigure" /\ i = 1 /\ w = "clean-for-reconfigure"

(* Every edge of the graph: inside of a package, from a package to one it  *)
(* depends on, and between the targets of the top level and the packages.  *)
Edge(t, i, q) ==
    \/ t[2] \in Pkg /\ q[2] = t[2] /\ SamePkg(t[1], i, q[1])
    \/ t[2] \in Pkg /\ q[2] \in Pkg /\ t[1] = "depends" /\ q[1] = "pkg"
          /\ \E d \in DOMAIN Dependencies[t[2]] : q[2] = Dependencies[t[2]][d]
    \/ t[2] \in Pkg /\ t[1] \in {"rebuild", "reconfigure"} /\ i = 2 /\ q = All
    \/ t = All /\ q[2] = World /\ q[1] \in TopLevel \ {"all"}
    \/ t \in {All, <<"rootfs", World>>} /\ q[2] \in Pkg /\ q[1] = "pkg"

(* A prerequisite of a sequence made of two is one of them.                *)
LEMMA OfJoined ==
  ASSUME NEW S, NEW a \in Seq(S), NEW b \in Seq(S), NEW i \in DOMAIN (a \o b)
  PROVE  \/ i \in DOMAIN a /\ (a \o b)[i] = a[i]
         \/ i - Len(a) \in DOMAIN b /\ (a \o b)[i] = b[i - Len(a)]
OBVIOUS

LEMMA JoinKeeps ==
  ASSUME NEW S, NEW a \in Seq(S), NEW b \in Seq(S), NEW i \in DOMAIN a
  PROVE  i \in DOMAIN (a \o b) /\ (a \o b)[i] = a[i]
OBVIOUS

LEMMA PackagesOf ==
  ASSUME NEW s \in Seq(Pkg)
  PROVE  /\ Packages(s) \in Seq(Target)
         /\ \A i \in DOMAIN Packages(s) : i \in DOMAIN s /\ Packages(s)[i] = <<"pkg", s[i]>>
         /\ Len(Packages(s)) = Len(s)
<1>1. \A p \in Pkg : <<"pkg", p>> \in Target
  BY DEF Target, Phony
<1> QED
  BY <1>1 DEF Packages

LEMMA JoinedShort ==
  ASSUME NEW x, NEW a, NEW b
  PROVE  <<>> \o <<a, b>> = <<a, b>> /\ <<x>> \o <<a, b>> = <<x, a, b>>
<1>1. <<>> \o <<a, b>> = <<a, b>>
  OBVIOUS
<1>2. <<x>> \o <<a, b>> = <<x, a, b>>
  <2> DEFINE s == <<x>> \o <<a, b>>
  <2>1. s \in Seq({x, a, b}) /\ Len(s) = 3 /\ s[1] = x /\ s[2] = a /\ s[3] = b
    OBVIOUS
  <2>2. s = <<s[1], s[2], s[3]>>
    <3> HIDE DEF s
    <3> QED
      BY <2>1
  <2> QED
    BY <2>1, <2>2
<1> QED
  BY <1>1, <1>2

(* The prerequisites of every target of a package but `depends', one by    *)
(* one.                                                                    *)
LEMMA ListedPrereqs ==
  ASSUME NEW p \in Pkg
  PROVE  /\ Prereqs[<<"pkg", p>>] = << <<"install", p>> >>
         /\ p \in HostPkg => Prereqs[<<"install", p>>] = << <<"install-host", p>> >>
         /\ p \notin HostPkg => Prereqs[<<"install", p>>] = << <<"install-staging", p>>, <<"install-target", p>>, <<"install-images", p>> >>
         /\ Prereqs[<<"install-host", p>>] = << <<"build", p>>, <<".stamp_host_installed", p>> >>
         /\ p \in StagingPkg => Prereqs[<<"install-staging", p>>] = << <<"build", p>>, <<".stamp_staging_installed", p>> >>
         /\ p \notin StagingPkg => Prereqs[<<"install-staging", p>>] = <<>>
         /\ p \in TargetPkg => Prereqs[<<"install-target", p>>] = << <<"build", p>>, <<".stamp_target_installed", p>> >>
         /\ p \notin TargetPkg => Prereqs[<<"install-target", p>>] = <<>>
         /\ p \in ImagesPkg => Prereqs[<<"install-images", p>>] = << <<"build", p>>, <<".stamp_images_installed", p>> >>
         /\ p \notin ImagesPkg => Prereqs[<<"install-images", p>>] = <<>>
         /\ Prereqs[<<"build", p>>] = << <<"configure", p>>, <<".stamp_built", p>> >>
         /\ p \in OverridePkg => Prereqs[<<"configure", p>>] = << <<"depends", p>>, <<".stamp_configured", p>> >>
         /\ p \notin OverridePkg => Prereqs[<<"configure", p>>] = << <<"patch", p>>, <<"depends", p>>, <<".stamp_configured", p>> >>
         /\ p \in OverridePkg => Prereqs[<<"patch", p>>] = << <<"rsync", p>> >>
         /\ p \notin OverridePkg => Prereqs[<<"patch", p>>] = << <<"extract", p>>, <<".stamp_patched", p>> >>
         /\ p \in OverridePkg => Prereqs[<<"extract", p>>] = << <<"rsync", p>> >>
         /\ p \notin OverridePkg => Prereqs[<<"extract", p>>] = << <<"source", p>>, <<".stamp_extracted", p>> >>
         /\ p \in OverridePkg => Prereqs[<<"rsync", p>>] = << <<".stamp_rsynced", p>> >>
         /\ p \notin OverridePkg => Prereqs[<<"rsync", p>>] = <<>>
         /\ p \in OverridePkg => Prereqs[<<"source", p>>] = << <<".stamp_rsync_sourced", p>> >>
         /\ p \notin OverridePkg => Prereqs[<<"source", p>>] = << <<".stamp_downloaded", p>> >>
         /\ Prereqs[<<"uninstall", p>>] = << <<"configure", p>>, <<".stamp_uninstalled", p>> >>
         /\ Prereqs[<<"clean", p>>] = << <<"uninstall", p>>, <<".stamp_cleaned", p>> >>
         /\ Prereqs[<<"dirclean", p>>] = << <<".stamp_dircleaned", p>> >>
         /\ Prereqs[<<"rebuild", p>>] = << <<"clean-for-rebuild", p>>, All >>
         /\ Prereqs[<<"clean-for-reconfigure", p>>] = << <<"clean-for-rebuild", p>> >>
         /\ Prereqs[<<"reconfigure", p>>] = << <<"clean-for-reconfigure", p>>, All >>
         /\ Prereqs[<<"clean-for-rebuild", p>>] = <<>>
<1>0. Prereqs[<<"configure", p>>] = ConfigureSteps(p)
  BY PhonyPrereqs
<1>1. Prereqs[<<"pkg", p>>] = << <<"install", p>> >>
  BY PhonyPrereqs
<1>2. p \in HostPkg => Prereqs[<<"install", p>>] = << <<"install-host", p>> >>
  BY PhonyPrereqs DEF InstallSteps
<1>3. p \notin HostPkg => Prereqs[<<"install", p>>] = << <<"install-staging", p>>, <<"install-target", p>>, <<"install-images", p>> >>
  BY PhonyPrereqs DEF InstallSteps
<1>4. Prereqs[<<"install-host", p>>] = << <<"build", p>>, <<".stamp_host_installed", p>> >>
  BY PhonyPrereqs DEF BuildThen
<1>5. p \in StagingPkg => Prereqs[<<"install-staging", p>>] = << <<"build", p>>, <<".stamp_staging_installed", p>> >>
  BY PhonyPrereqs DEF If, BuildThen
<1>6. p \notin StagingPkg => Prereqs[<<"install-staging", p>>] = <<>>
  BY PhonyPrereqs DEF If
<1>7. p \in TargetPkg => Prereqs[<<"install-target", p>>] = << <<"build", p>>, <<".stamp_target_installed", p>> >>
  BY PhonyPrereqs DEF If, BuildThen
<1>8. p \notin TargetPkg => Prereqs[<<"install-target", p>>] = <<>>
  BY PhonyPrereqs DEF If
<1>9. p \in ImagesPkg => Prereqs[<<"install-images", p>>] = << <<"build", p>>, <<".stamp_images_installed", p>> >>
  BY PhonyPrereqs DEF If, BuildThen
<1>10. p \notin ImagesPkg => Prereqs[<<"install-images", p>>] = <<>>
  BY PhonyPrereqs DEF If
<1>11. Prereqs[<<"build", p>>] = << <<"configure", p>>, <<".stamp_built", p>> >>
  BY PhonyPrereqs
<1>12. p \in OverridePkg => Prereqs[<<"configure", p>>] = << <<"depends", p>>, <<".stamp_configured", p>> >>
  BY <1>0, JoinedShort DEF ConfigureSteps, If
<1>13. p \notin OverridePkg => Prereqs[<<"configure", p>>] = << <<"patch", p>>, <<"depends", p>>, <<".stamp_configured", p>> >>
  BY <1>0, JoinedShort, Zenon DEF ConfigureSteps, If
<1>14. p \in OverridePkg => Prereqs[<<"patch", p>>] = << <<"rsync", p>> >>
  BY PhonyPrereqs DEF PatchSteps, Sync, If
<1>15. p \notin OverridePkg => Prereqs[<<"patch", p>>] = << <<"extract", p>>, <<".stamp_patched", p>> >>
  BY PhonyPrereqs DEF PatchSteps
<1>16. p \in OverridePkg => Prereqs[<<"extract", p>>] = << <<"rsync", p>> >>
  BY PhonyPrereqs DEF ExtractSteps, Sync, If
<1>17. p \notin OverridePkg => Prereqs[<<"extract", p>>] = << <<"source", p>>, <<".stamp_extracted", p>> >>
  BY PhonyPrereqs DEF ExtractSteps
<1>18. p \in OverridePkg => Prereqs[<<"rsync", p>>] = << <<".stamp_rsynced", p>> >>
  BY PhonyPrereqs DEF If
<1>19. p \notin OverridePkg => Prereqs[<<"rsync", p>>] = <<>>
  BY PhonyPrereqs DEF If
<1>20. p \in OverridePkg => Prereqs[<<"source", p>>] = << <<".stamp_rsync_sourced", p>> >>
  BY PhonyPrereqs DEF SourceSteps
<1>21. p \notin OverridePkg => Prereqs[<<"source", p>>] = << <<".stamp_downloaded", p>> >>
  BY PhonyPrereqs DEF SourceSteps
<1>22. Prereqs[<<"uninstall", p>>] = << <<"configure", p>>, <<".stamp_uninstalled", p>> >>
  BY PhonyPrereqs
<1>23. Prereqs[<<"clean", p>>] = << <<"uninstall", p>>, <<".stamp_cleaned", p>> >>
  BY PhonyPrereqs
<1>24. Prereqs[<<"dirclean", p>>] = << <<".stamp_dircleaned", p>> >>
  BY PhonyPrereqs
<1>25. Prereqs[<<"rebuild", p>>] = << <<"clean-for-rebuild", p>>, All >>
  BY PhonyPrereqs
<1>26. Prereqs[<<"clean-for-reconfigure", p>>] = << <<"clean-for-rebuild", p>> >>
  BY PhonyPrereqs
<1>27. Prereqs[<<"reconfigure", p>>] = << <<"clean-for-reconfigure", p>>, All >>
  BY PhonyPrereqs
<1>28. Prereqs[<<"clean-for-rebuild", p>>] = <<>>
  BY PhonyPrereqs
<1> QED
  BY <1>1, <1>2, <1>3, <1>4, <1>5, <1>6, <1>7, <1>8, <1>9, <1>10, <1>11, <1>12, <1>13, <1>14, <1>15,
     <1>16, <1>17, <1>18, <1>19, <1>20, <1>21, <1>22, <1>23, <1>24, <1>25, <1>26, <1>27, <1>28

(* The prerequisites of t are targets, and edges lead to them.             *)
EdgesTo(t, s) == s \in Seq(Target) /\ \A i \in DOMAIN s : Edge(t, i, s[i])

LEMMA ShortEdges ==
  ASSUME NEW t
  PROVE  /\ EdgesTo(t, <<>>)
         /\ \A a \in Target : Edge(t, 1, a) => EdgesTo(t, <<a>>)
         /\ \A a, b \in Target : Edge(t, 1, a) /\ Edge(t, 2, b) => EdgesTo(t, <<a, b>>)
         /\ \A a, b, c \in Target : Edge(t, 1, a) /\ Edge(t, 2, b) /\ Edge(t, 3, c) => EdgesTo(t, <<a, b, c>>)
<1>1. EdgesTo(t, <<>>)
  BY DEF EdgesTo
<1>2. ASSUME NEW a \in Target, Edge(t, 1, a) PROVE EdgesTo(t, <<a>>)
  <2>1. <<a>> \in Seq(Target) /\ DOMAIN <<a>> = {1} /\ <<a>>[1] = a
    OBVIOUS
  <2> QED
    BY <1>2, <2>1 DEF EdgesTo
<1>3. ASSUME NEW a \in Target, NEW b \in Target, Edge(t, 1, a), Edge(t, 2, b) PROVE EdgesTo(t, <<a, b>>)
  <2>1. <<a, b>> \in Seq(Target) /\ DOMAIN <<a, b>> = {1, 2} /\ <<a, b>>[1] = a /\ <<a, b>>[2] = b
    OBVIOUS
  <2> QED
    BY <1>3, <2>1 DEF EdgesTo
<1>4. ASSUME NEW a \in Target, NEW b \in Target, NEW c \in Target,
             Edge(t, 1, a), Edge(t, 2, b), Edge(t, 3, c)
      PROVE  EdgesTo(t, <<a, b, c>>)
  <2>1. /\ <<a, b, c>> \in Seq(Target) /\ DOMAIN <<a, b, c>> = {1, 2, 3}
        /\ <<a, b, c>>[1] = a /\ <<a, b, c>>[2] = b /\ <<a, b, c>>[3] = c
    OBVIOUS
  <2> QED
    BY <1>4, <2>1 DEF EdgesTo
<1> QED
  BY <1>1, <1>2, <1>3, <1>4

(* Where the edges of the graph are: nowhere else.                         *)
LEMMA Edges == ASSUME NEW t \in Target PROVE EdgesTo(t, Prereqs[t])
<1>0. /\ \A v \in Verb, p \in Pkg : <<v, p>> \in Target
      /\ \A v \in TopLevel : <<v, World>> \in Target
  BY DEF Target, Verb
<1>1. CASE t[2] = World
  <2>1. t = <<t[1], World>> /\ t[1] \in TopLevel /\ t[2] \notin Pkg
    BY <1>1, PkgAssumption DEF Target
  <2>2. CASE t = All
    <3> DEFINE a == << <<"toolchain", World>> >>
               b == Packages(Selected)
    <3>1. Prereqs[t] = a \o b \o Finishing
      BY <2>2, TopPrereqs
    <3>2. /\ a \in Seq(Target) /\ DOMAIN a = {1} /\ a[1] = <<"toolchain", World>>
          /\ Finishing \in Seq(Target)
          /\ \A i \in DOMAIN Finishing : Finishing[i][2] = World /\ Finishing[i][1] \in TopLevel \ {"all"}
      BY <1>0 DEF Finishing, TopLevel
    <3>3. b \in Seq(Target) /\ \A i \in DOMAIN b : b[i][1] = "pkg" /\ b[i][2] \in Pkg
      BY PackagesOf, PkgAssumption
    <3>4. "toolchain" \in TopLevel \ {"all"}
      BY DEF TopLevel
    <3> HIDE DEF a, b
    <3>5. a \o b \in Seq(Target) /\ (a \o b) \o Finishing \in Seq(Target)
      BY <3>2, <3>3
    <3>6. ASSUME NEW i \in DOMAIN ((a \o b) \o Finishing) PROVE Edge(t, i, ((a \o b) \o Finishing)[i])
      <4> DEFINE c == a \o b
                 e == (c \o Finishing)[i]
      <4>1. \/ i \in DOMAIN c /\ e = c[i]
            \/ i - Len(c) \in DOMAIN Finishing /\ e = Finishing[i - Len(c)]
        BY <3>2, <3>5, OfJoined
      <4>2. i \in DOMAIN c => \/ i \in DOMAIN a /\ c[i] = a[i]
                              \/ i - Len(a) \in DOMAIN b /\ c[i] = b[i - Len(a)]
        BY <3>2, <3>3, OfJoined
      <4> HIDE DEF c, e
      <4>3. (e[2] = World /\ e[1] \in TopLevel \ {"all"}) \/ (e[2] \in Pkg /\ e[1] = "pkg")
        BY <4>1, <4>2, <3>2, <3>3, <3>4
      <4> QED
        BY <4>3, <2>2 DEF Edge, c, e
    <3> QED
      BY <3>1, <3>5, <3>6 DEF EdgesTo
  <2>3. CASE t = <<"rootfs", World>>
    <3>1. Prereqs[t] = Packages(RootfsDeps)
      BY <2>3, TopPrereqs
    <3>2. Prereqs[t] \in Seq(Target) /\ \A i \in DOMAIN Prereqs[t] : Prereqs[t][i][1] = "pkg" /\ Prereqs[t][i][2] \in Pkg
      BY <3>1, PackagesOf, PkgAssumption
    <3> QED
      BY <2>3, <3>2 DEF Edge, EdgesTo
  <2>4. CASE t \notin {All, <<"rootfs", World>>}
    <3>1. t[1] \in TopLevel \ {"all", "rootfs"}
      BY <2>1, <2>4 DEF All
    <3>2. Prereqs[t] = <<>>
      BY <2>1, <3>1, TopPrereqs
    <3> QED
      BY <3>2, ShortEdges
  <2> QED
    BY <2>2, <2>3, <2>4
<1>2. CASE t[2] # World
  <2> DEFINE v == t[1]
             p == t[2]
  <2>1. t = <<v, p>> /\ v \in Verb /\ p \in Pkg
    BY <1>2 DEF Target, Verb
  <2> HIDE DEF v, p
  <2>2. /\ All \in Target
        /\ \A w \in Verb : <<w, p>> \in Target
    BY <1>0, <2>1 DEF All, TopLevel
  <2>3. \A i, w : SamePkg(v, i, w) => Edge(t, i, <<w, p>>)
    BY <2>1 DEF Edge
  <2>4. CASE v \in Stamp \cup Ephemeral
    BY <2>1, <2>4, StampPrereqs, ShortEdges
  <2>5. CASE v \in Phony \ {"depends"}
    <3>1. CASE v = "pkg"
      <4>1. Prereqs[t] = << <<"install", p>> >>
        BY <2>1, <3>1, ListedPrereqs
      <4>2. /\ <<"install", p>> \in Target /\ Edge(t, 1, <<"install", p>>)
        BY <2>1, <2>2, <2>3, <3>1 DEF SamePkg, Verb, Phony, Stamp, Ephemeral, Installing, InstallStamp, Area
      <4> QED
        BY <4>1, <4>2, ShortEdges
    <3>2. CASE v = "install-host"
      <4>1. Prereqs[t] = << <<"build", p>>, <<".stamp_host_installed", p>> >>
        BY <2>1, <3>2, ListedPrereqs
      <4>2. /\ <<"build", p>> \in Target /\ Edge(t, 1, <<"build", p>>)
            /\ <<".stamp_host_installed", p>> \in Target /\ Edge(t, 2, <<".stamp_host_installed", p>>)
        BY <2>1, <2>2, <2>3, <3>2 DEF SamePkg, Verb, Phony, Stamp, Ephemeral, Installing, InstallStamp, Area
      <4> QED
        BY <4>1, <4>2, ShortEdges
    <3>3. CASE v = "build"
      <4>1. Prereqs[t] = << <<"configure", p>>, <<".stamp_built", p>> >>
        BY <2>1, <3>3, ListedPrereqs
      <4>2. /\ <<"configure", p>> \in Target /\ Edge(t, 1, <<"configure", p>>)
            /\ <<".stamp_built", p>> \in Target /\ Edge(t, 2, <<".stamp_built", p>>)
        BY <2>1, <2>2, <2>3, <3>3 DEF SamePkg, Verb, Phony, Stamp, Ephemeral, Installing, InstallStamp, Area
      <4> QED
        BY <4>1, <4>2, ShortEdges
    <3>4. CASE v = "uninstall"
      <4>1. Prereqs[t] = << <<"configure", p>>, <<".stamp_uninstalled", p>> >>
        BY <2>1, <3>4, ListedPrereqs
      <4>2. /\ <<"configure", p>> \in Target /\ Edge(t, 1, <<"configure", p>>)
            /\ <<".stamp_uninstalled", p>> \in Target /\ Edge(t, 2, <<".stamp_uninstalled", p>>)
        BY <2>1, <2>2, <2>3, <3>4 DEF SamePkg, Verb, Phony, Stamp, Ephemeral, Installing, InstallStamp, Area
      <4> QED
        BY <4>1, <4>2, ShortEdges
    <3>5. CASE v = "clean"
      <4>1. Prereqs[t] = << <<"uninstall", p>>, <<".stamp_cleaned", p>> >>
        BY <2>1, <3>5, ListedPrereqs
      <4>2. /\ <<"uninstall", p>> \in Target /\ Edge(t, 1, <<"uninstall", p>>)
            /\ <<".stamp_cleaned", p>> \in Target /\ Edge(t, 2, <<".stamp_cleaned", p>>)
        BY <2>1, <2>2, <2>3, <3>5 DEF SamePkg, Verb, Phony, Stamp, Ephemeral, Installing, InstallStamp, Area
      <4> QED
        BY <4>1, <4>2, ShortEdges
    <3>6. CASE v = "dirclean"
      <4>1. Prereqs[t] = << <<".stamp_dircleaned", p>> >>
        BY <2>1, <3>6, ListedPrereqs
      <4>2. /\ <<".stamp_dircleaned", p>> \in Target /\ Edge(t, 1, <<".stamp_dircleaned", p>>)
        BY <2>1, <2>2, <2>3, <3>6 DEF SamePkg, Verb, Phony, Stamp, Ephemeral, Installing, InstallStamp, Area
      <4> QED
        BY <4>1, <4>2, ShortEdges
    <3>7. CASE v = "clean-for-reconfigure"
      <4>1. Prereqs[t] = << <<"clean-for-rebuild", p>> >>
        BY <2>1, <3>7, ListedPrereqs
      <4>2. /\ <<"clean-for-rebuild", p>> \in Target /\ Edge(t, 1, <<"clean-for-rebuild", p>>)
        BY <2>1, <2>2, <2>3, <3>7 DEF SamePkg, Verb, Phony, Stamp, Ephemeral, Installing, InstallStamp, Area
      <4> QED
        BY <4>1, <4>2, ShortEdges
    <3>8. CASE v = "clean-for-rebuild"
      <4>1. Prereqs[t] = <<>>
        BY <2>1, <3>8, ListedPrereqs
      <4> QED
        BY <4>1, ShortEdges
    <3>9. CASE v = "install-staging"
      <4>1. p \in StagingPkg => Prereqs[t] = << <<"build", p>>, <<".stamp_staging_installed", p>> >>
        BY <2>1, <3>9, ListedPrereqs
      <4>2. p \notin StagingPkg => Prereqs[t] = <<>>
        BY <2>1, <3>9, ListedPrereqs
      <4>3. /\ <<"build", p>> \in Target /\ Edge(t, 1, <<"build", p>>)
            /\ <<".stamp_staging_installed", p>> \in Target /\ Edge(t, 2, <<".stamp_staging_installed", p>>)
        BY <2>1, <2>2, <2>3, <3>9 DEF SamePkg, Verb, Phony, Stamp, Ephemeral, Installing, InstallStamp, Area
      <4> QED
        BY <4>1, <4>2, <4>3, ShortEdges
    <3>10. CASE v = "install-target"
      <4>1. p \in TargetPkg => Prereqs[t] = << <<"build", p>>, <<".stamp_target_installed", p>> >>
        BY <2>1, <3>10, ListedPrereqs
      <4>2. p \notin TargetPkg => Prereqs[t] = <<>>
        BY <2>1, <3>10, ListedPrereqs
      <4>3. /\ <<"build", p>> \in Target /\ Edge(t, 1, <<"build", p>>)
            /\ <<".stamp_target_installed", p>> \in Target /\ Edge(t, 2, <<".stamp_target_installed", p>>)
        BY <2>1, <2>2, <2>3, <3>10 DEF SamePkg, Verb, Phony, Stamp, Ephemeral, Installing, InstallStamp, Area
      <4> QED
        BY <4>1, <4>2, <4>3, ShortEdges
    <3>11. CASE v = "install-images"
      <4>1. p \in ImagesPkg => Prereqs[t] = << <<"build", p>>, <<".stamp_images_installed", p>> >>
        BY <2>1, <3>11, ListedPrereqs
      <4>2. p \notin ImagesPkg => Prereqs[t] = <<>>
        BY <2>1, <3>11, ListedPrereqs
      <4>3. /\ <<"build", p>> \in Target /\ Edge(t, 1, <<"build", p>>)
            /\ <<".stamp_images_installed", p>> \in Target /\ Edge(t, 2, <<".stamp_images_installed", p>>)
        BY <2>1, <2>2, <2>3, <3>11 DEF SamePkg, Verb, Phony, Stamp, Ephemeral, Installing, InstallStamp, Area
      <4> QED
        BY <4>1, <4>2, <4>3, ShortEdges
    <3>12. CASE v = "rebuild"
      <4>1. Prereqs[t] = << <<"clean-for-rebuild", p>>, All >>
        BY <2>1, <3>12, ListedPrereqs
      <4>2. /\ <<"clean-for-rebuild", p>> \in Target /\ Edge(t, 1, <<"clean-for-rebuild", p>>)
            /\ All \in Target /\ Edge(t, 2, All)
        BY <2>1, <2>2, <2>3, <3>12 DEF SamePkg, Verb, Phony, Stamp, Ephemeral, Installing, InstallStamp, Area, Edge
      <4> QED
        BY <4>1, <4>2, ShortEdges
    <3>13. CASE v = "reconfigure"
      <4>1. Prereqs[t] = << <<"clean-for-reconfigure", p>>, All >>
        BY <2>1, <3>13, ListedPrereqs
      <4>2. /\ <<"clean-for-reconfigure", p>> \in Target /\ Edge(t, 1, <<"clean-for-reconfigure", p>>)
            /\ All \in Target /\ Edge(t, 2, All)
        BY <2>1, <2>2, <2>3, <3>13 DEF SamePkg, Verb, Phony, Stamp, Ephemeral, Installing, InstallStamp, Area, Edge
      <4> QED
        BY <4>1, <4>2, ShortEdges
    <3>14. CASE v = "install"
      <4>1. p \in HostPkg => Prereqs[t] = << <<"install-host", p>> >>
        BY <2>1, <3>14, ListedPrereqs
      <4>2. p \notin HostPkg => Prereqs[t] = << <<"install-staging", p>>, <<"install-target", p>>, <<"install-images", p>> >>
        BY <2>1, <3>14, ListedPrereqs
      <4>3. /\ <<"install-host", p>> \in Target /\ Edge(t, 1, <<"install-host", p>>)
            /\ <<"install-staging", p>> \in Target /\ Edge(t, 1, <<"install-staging", p>>)
            /\ <<"install-target", p>> \in Target /\ Edge(t, 2, <<"install-target", p>>)
            /\ <<"install-images", p>> \in Target /\ Edge(t, 3, <<"install-images", p>>)
        BY <2>1, <2>2, <2>3, <3>14 DEF SamePkg, Verb, Phony, Stamp, Ephemeral, Installing, InstallStamp, Area
      <4> QED
        BY <4>1, <4>2, <4>3, ShortEdges
    <3>15. CASE v = "configure"
      <4>1. p \in OverridePkg => Prereqs[t] = << <<"depends", p>>, <<".stamp_configured", p>> >>
        BY <2>1, <3>15, ListedPrereqs
      <4>2. p \notin OverridePkg => Prereqs[t] = << <<"patch", p>>, <<"depends", p>>, <<".stamp_configured", p>> >>
        BY <2>1, <3>15, ListedPrereqs
      <4>3. /\ <<"depends", p>> \in Target /\ Edge(t, 1, <<"depends", p>>)
            /\ <<".stamp_configured", p>> \in Target /\ Edge(t, 2, <<".stamp_configured", p>>)
            /\ <<"patch", p>> \in Target /\ Edge(t, 1, <<"patch", p>>)
            /\ <<"depends", p>> \in Target /\ Edge(t, 2, <<"depends", p>>)
            /\ <<".stamp_configured", p>> \in Target /\ Edge(t, 3, <<".stamp_configured", p>>)
        BY <2>1, <2>2, <2>3, <3>15 DEF SamePkg, Verb, Phony, Stamp, Ephemeral, Installing, InstallStamp, Area
      <4> QED
        BY <4>1, <4>2, <4>3, ShortEdges
    <3>16. CASE v = "patch"
      <4>1. p \in OverridePkg => Prereqs[t] = << <<"rsync", p>> >>
        BY <2>1, <3>16, ListedPrereqs
      <4>2. p \notin OverridePkg => Prereqs[t] = << <<"extract", p>>, <<".stamp_patched", p>> >>
        BY <2>1, <3>16, ListedPrereqs
      <4>3. /\ <<"rsync", p>> \in Target /\ Edge(t, 1, <<"rsync", p>>)
            /\ <<"extract", p>> \in Target /\ Edge(t, 1, <<"extract", p>>)
            /\ <<".stamp_patched", p>> \in Target /\ Edge(t, 2, <<".stamp_patched", p>>)
        BY <2>1, <2>2, <2>3, <3>16 DEF SamePkg, Verb, Phony, Stamp, Ephemeral, Installing, InstallStamp, Area
      <4> QED
        BY <4>1, <4>2, <4>3, ShortEdges
    <3>17. CASE v = "extract"
      <4>1. p \in OverridePkg => Prereqs[t] = << <<"rsync", p>> >>
        BY <2>1, <3>17, ListedPrereqs
      <4>2. p \notin OverridePkg => Prereqs[t] = << <<"source", p>>, <<".stamp_extracted", p>> >>
        BY <2>1, <3>17, ListedPrereqs
      <4>3. /\ <<"rsync", p>> \in Target /\ Edge(t, 1, <<"rsync", p>>)
            /\ <<"source", p>> \in Target /\ Edge(t, 1, <<"source", p>>)
            /\ <<".stamp_extracted", p>> \in Target /\ Edge(t, 2, <<".stamp_extracted", p>>)
        BY <2>1, <2>2, <2>3, <3>17 DEF SamePkg, Verb, Phony, Stamp, Ephemeral, Installing, InstallStamp, Area
      <4> QED
        BY <4>1, <4>2, <4>3, ShortEdges
    <3>18. CASE v = "rsync"
      <4>1. p \in OverridePkg => Prereqs[t] = << <<".stamp_rsynced", p>> >>
        BY <2>1, <3>18, ListedPrereqs
      <4>2. p \notin OverridePkg => Prereqs[t] = <<>>
        BY <2>1, <3>18, ListedPrereqs
      <4>3. /\ <<".stamp_rsynced", p>> \in Target /\ Edge(t, 1, <<".stamp_rsynced", p>>)
        BY <2>1, <2>2, <2>3, <3>18 DEF SamePkg, Verb, Phony, Stamp, Ephemeral, Installing, InstallStamp, Area
      <4> QED
        BY <4>1, <4>2, <4>3, ShortEdges
    <3>19. CASE v = "source"
      <4>1. p \in OverridePkg => Prereqs[t] = << <<".stamp_rsync_sourced", p>> >>
        BY <2>1, <3>19, ListedPrereqs
      <4>2. p \notin OverridePkg => Prereqs[t] = << <<".stamp_downloaded", p>> >>
        BY <2>1, <3>19, ListedPrereqs
      <4>3. /\ <<".stamp_rsync_sourced", p>> \in Target /\ Edge(t, 1, <<".stamp_rsync_sourced", p>>)
            /\ <<".stamp_downloaded", p>> \in Target /\ Edge(t, 1, <<".stamp_downloaded", p>>)
        BY <2>1, <2>2, <2>3, <3>19 DEF SamePkg, Verb, Phony, Stamp, Ephemeral, Installing, InstallStamp, Area
      <4> QED
        BY <4>1, <4>2, <4>3, ShortEdges
    <3> QED
      BY <2>5, <3>1, <3>2, <3>3, <3>4, <3>5, <3>6, <3>7, <3>8, <3>9, <3>10, <3>11, <3>12, <3>13, <3>14, <3>15, <3>16, <3>17, <3>18, <3>19 DEF Phony
  <2>8. CASE v = "depends"
    <3> DEFINE a == Sync(p)
               b == Packages(Dependencies[p])
    <3>1. Prereqs[t] = a \o b
      BY <2>1, <2>8, PhonyPrereqs
    <3>2. a \in Seq(Target) /\ \A i \in DOMAIN a : a[i][1] = "rsync" /\ a[i][2] = p
      BY <2>2 DEF Sync, If, Verb, Phony
    <3>3. /\ b \in Seq(Target)
          /\ \A i \in DOMAIN b : i \in DOMAIN Dependencies[p] /\ b[i][1] = "pkg" /\ b[i][2] = Dependencies[p][i]
      BY <2>1, PackagesOf, PkgAssumption
    <3>4. \A i \in DOMAIN Dependencies[p] : Dependencies[p][i] \in Pkg
      BY <2>1, PkgAssumption
    <3> HIDE DEF a, b
    <3>5. a \o b \in Seq(Target)
      BY <3>2, <3>3
    <3>6. ASSUME NEW i \in DOMAIN (a \o b) PROVE Edge(t, i, (a \o b)[i])
      <4> DEFINE e == (a \o b)[i]
      <4>1. (i \in DOMAIN a /\ e = a[i]) \/ (i - Len(a) \in DOMAIN b /\ e = b[i - Len(a)])
        BY <3>2, <3>3, OfJoined
      <4> HIDE DEF e
      <4>2. CASE e[1] = "rsync" /\ e[2] = p
        BY <2>1, <2>8, <4>2 DEF Edge, SamePkg, e
      <4>3. CASE e[1] = "pkg" /\ \E d \in DOMAIN Dependencies[p] : e[2] = Dependencies[p][d]
        BY <2>1, <2>8, <3>4, <4>3 DEF Edge, e
      <4> QED
        BY <4>1, <4>2, <4>3, <3>2, <3>3
    <3> QED
      BY <3>1, <3>5, <3>6 DEF EdgesTo
  <2> QED
    BY <2>1, <2>4, <2>5, <2>8 DEF Verb
<1> QED
  BY <1>1, <1>2
-----------------------------------------------------------------------------
(* The graph has no circles: every edge leads to a lower target.           *)
Level(t) == CASE t = All -> 2
              [] t[2] = World /\ t # All -> 1
              [] t[2] # World /\ t[1] \in {"rebuild", "reconfigure"} -> 3
              [] OTHER -> 0

Height(v) == CASE v = "pkg" -> 9
               [] v = "install" -> 8
               [] v \in {"install-host", "install-staging", "install-target", "install-images", "clean"} -> 7
               [] v \in {"build", "uninstall"} -> 6
               [] v = "configure" -> 5
               [] v = "depends" -> 4
               [] v = "patch" -> 3
               [] v = "extract" -> 2
               [] v \in {"source", "rsync", "dirclean", "clean-for-reconfigure"} -> 1
               [] OTHER -> 0

Lower(rank, q, t) ==
    \/ Level(q) < Level(t)
    \/ /\ Level(q) = 0 /\ Level(t) = 0
       /\ q[2] \in Pkg /\ t[2] \in Pkg
       /\ rank[q[2]] < rank[t[2]] \/ (q[2] = t[2] /\ Height(q[1]) < Height(t[1]))

LEMMA LevelType == ASSUME NEW t PROVE Level(t) \in Nat
BY DEF Level

LEMMA HeightType == ASSUME NEW v PROVE Height(v) \in Nat
BY DEF Height

LEMMA LowerOrder ==
  ASSUME NEW rank, Ranks(rank)
  PROVE  /\ \A t : ~Lower(rank, t, t)
         /\ \A q, r, t : Lower(rank, q, r) /\ Lower(rank, r, t) => Lower(rank, q, t)
<1> USE LevelType, HeightType DEF Ranks, Lower
<1>1. \A t : ~Lower(rank, t, t)
  OBVIOUS
<1>2. ASSUME NEW q, NEW r, NEW t, Lower(rank, q, r), Lower(rank, r, t) PROVE Lower(rank, q, t)
  <2>1. Level(q) \in Nat /\ Level(r) \in Nat /\ Level(t) \in Nat
    OBVIOUS
  <2>2. Height(q[1]) \in Nat /\ Height(r[1]) \in Nat /\ Height(t[1]) \in Nat
    OBVIOUS
  <2>3. CASE Level(q) < Level(r) \/ Level(r) < Level(t)
    BY <1>2, <2>1, <2>3
  <2>4. CASE ~(Level(q) < Level(r) \/ Level(r) < Level(t))
    <3>1. q[2] \in Pkg /\ r[2] \in Pkg /\ t[2] \in Pkg /\ Level(q) = 0 /\ Level(t) = 0
      BY <1>2, <2>4
    <3>2. rank[q[2]] \in Nat /\ rank[r[2]] \in Nat /\ rank[t[2]] \in Nat
      BY <3>1
    <3>3. /\ rank[q[2]] < rank[r[2]] \/ (q[2] = r[2] /\ Height(q[1]) < Height(r[1]))
          /\ rank[r[2]] < rank[t[2]] \/ (r[2] = t[2] /\ Height(r[1]) < Height(t[1]))
      BY <1>2, <2>4
    <3>4. rank[q[2]] < rank[t[2]] \/ (q[2] = t[2] /\ Height(q[1]) < Height(t[1]))
      BY <2>2, <3>2, <3>3
    <3> QED
      BY <3>1, <3>4
  <2> QED
    BY <2>3, <2>4
<1> QED
  BY <1>1, <1>2

LEMMA EdgeLowers ==
  ASSUME NEW rank, Ranks(rank), NEW t \in Target, NEW i, NEW q \in Target, Edge(t, i, q)
  PROVE  Lower(rank, q, t)
<1>1. CASE t[2] \in Pkg /\ q[2] = t[2] /\ SamePkg(t[1], i, q[1])
  <2>1. t # All /\ t[2] # World /\ q # All /\ q[2] # World
    BY <1>1, PkgAssumption DEF All
  <2>2. q[1] \notin {"rebuild", "reconfigure"}
    BY <1>1 DEF SamePkg, Installing, InstallStamp, Area
  <2>3. Level(q) = 0
    BY <2>1, <2>2 DEF Level
  <2>4. CASE t[1] \in {"rebuild", "reconfigure"}
    BY <2>1, <2>3, <2>4 DEF Level, Lower
  <2>5. CASE t[1] \notin {"rebuild", "reconfigure"}
    <3>1. Level(t) = 0
      BY <2>1, <2>5 DEF Level
    <3>2. Height(q[1]) < Height(t[1])
      BY <1>1, <2>5 DEF SamePkg, Height, Installing, InstallStamp, Area
    <3> QED
      BY <1>1, <2>3, <3>1, <3>2 DEF Lower
  <2> QED
    BY <2>4, <2>5
<1>2. CASE /\ t[2] \in Pkg /\ q[2] \in Pkg /\ t[1] = "depends" /\ q[1] = "pkg"
           /\ \E d \in DOMAIN Dependencies[t[2]] : q[2] = Dependencies[t[2]][d]
  <2>1. t # All /\ t[2] # World /\ q # All /\ q[2] # World
    BY <1>2, PkgAssumption DEF All
  <2>2. Level(q) = 0 /\ Level(t) = 0
    BY <1>2, <2>1 DEF Level
  <2>3. rank[q[2]] < rank[t[2]]
    BY <1>2 DEF Ranks
  <2> QED
    BY <1>2, <2>2, <2>3 DEF Lower
<1>3. CASE t[2] \in Pkg /\ t[1] \in {"rebuild", "reconfigure"} /\ i = 2 /\ q = All
  <2>1. t # All /\ t[2] # World
    BY <1>3, PkgAssumption DEF All
  <2>2. Level(q) = 2 /\ Level(t) = 3
    BY <1>3, <2>1 DEF Level, All
  <2> QED
    BY <2>2 DEF Lower
<1>4. CASE t = All /\ q[2] = World /\ q[1] \in TopLevel \ {"all"}
  <2>1. Level(t) = 2 /\ Level(q) = 1
    BY <1>4 DEF Level, All
  <2> QED
    BY <2>1 DEF Lower
<1>5. CASE t \in {All, <<"rootfs", World>>} /\ q[2] \in Pkg /\ q[1] = "pkg"
  <2>1. q # All /\ q[2] # World /\ t[2] = World
    BY <1>5, PkgAssumption DEF All
  <2>2. Level(q) = 0 /\ Level(t) > 0
    BY <1>5, <2>1 DEF Level
  <2> QED
    BY <2>2 DEF Lower
<1> QED
  BY <1>1, <1>2, <1>3, <1>4, <1>5 DEF Edge

(* The recipes that take stamps away: those that come before everything    *)
(* else on a command line and those that come after, and the targets that  *)
(* lead to them.                                                           *)
RemovesFirst == {".stamp_dircleaned", "clean-for-rebuild", "clean-for-reconfigure"}
RemovesLast == {".stamp_uninstalled", ".stamp_cleaned"}
Openers == {"dirclean", "rebuild", "reconfigure"}
Closers == {"uninstall", "clean"}

LEMMA EdgeFacts ==
  ASSUME NEW t \in Target, NEW i, NEW q \in Target, Edge(t, i, q)
  PROVE  /\ q[1] \notin Openers
         /\ q[1] \in RemovesFirst => i = 1 /\ t[1] \in Openers \cup RemovesFirst
         /\ t[1] \in RemovesFirst => q[1] \in RemovesFirst
         /\ t[1] \in Openers /\ i = 1 => q[1] \in RemovesFirst
         /\ t[1] \in {"dirclean", ".stamp_dircleaned"} => q[1] = ".stamp_dircleaned"
         /\ t[1] = "clean-for-reconfigure" => i = 1 /\ q[1] = "clean-for-rebuild" /\ q[2] = t[2]
         /\ q[1] = "clean-for-reconfigure" => t[1] = "reconfigure"
         /\ q[1] = "clean-for-rebuild" => t[1] \in {"rebuild", "clean-for-reconfigure"}
         /\ q[1] \in RemovesLast \cup Closers => t[1] \in Closers
         /\ q[1] \in RemovesLast => i = 2
         /\ t[1] \notin RemovesLast
         /\ t[1] \in Closers /\ i # 1 => q[1] \in RemovesLast
         /\ t[1] = "uninstall" /\ i = 1 => q[1] = "configure"
<1> USE DEF RemovesFirst, RemovesLast, Openers, Closers
<1>1. CASE t[2] \in Pkg /\ q[2] = t[2] /\ SamePkg(t[1], i, q[1])
  BY <1>1 DEF SamePkg, Installing, InstallStamp, Area
<1>2. CASE /\ t[2] \in Pkg /\ q[2] \in Pkg /\ t[1] = "depends" /\ q[1] = "pkg"
  BY <1>2
<1>3. CASE t[2] \in Pkg /\ t[1] \in {"rebuild", "reconfigure"} /\ i = 2 /\ q = All
  BY <1>3 DEF All
<1>4. CASE t = All /\ q[2] = World /\ q[1] \in TopLevel \ {"all"}
  BY <1>4 DEF All, TopLevel
<1>5. CASE t \in {All, <<"rootfs", World>>} /\ q[2] \in Pkg /\ q[1] = "pkg"
  BY <1>5 DEF All
<1> QED
  BY <1>1, <1>2, <1>3, <1>4, <1>5 DEF Edge

-----------------------------------------------------------------------------
(* What make has finished of a package when it comes to one of its recipes. *)
AllIn(F, s) == \A i \in DOMAIN s : s[i] \in F
ClosedUnder(F) == \A t \in F : AllIn(F, Prereqs[t])

LEMMA ListMembers ==
  ASSUME NEW F
  PROVE  /\ \A a : AllIn(F, <<a>>) => a \in F
         /\ \A a, b : AllIn(F, <<a, b>>) => a \in F /\ b \in F
         /\ \A a, b, c : AllIn(F, <<a, b, c>>) => a \in F /\ b \in F /\ c \in F
<1>1. ASSUME NEW a, AllIn(F, <<a>>) PROVE a \in F
  <2>1. 1 \in DOMAIN <<a>> /\ <<a>>[1] = a
    OBVIOUS
  <2> QED
    BY <1>1, <2>1 DEF AllIn
<1>2. ASSUME NEW a, NEW b, AllIn(F, <<a, b>>) PROVE a \in F /\ b \in F
  <2>1. /\ 1 \in DOMAIN <<a, b>> /\ <<a, b>>[1] = a
        /\ 2 \in DOMAIN <<a, b>> /\ <<a, b>>[2] = b
    OBVIOUS
  <2> QED
    BY <1>2, <2>1 DEF AllIn
<1>3. ASSUME NEW a, NEW b, NEW c, AllIn(F, <<a, b, c>>) PROVE a \in F /\ b \in F /\ c \in F
  <2>1. /\ 1 \in DOMAIN <<a, b, c>> /\ <<a, b, c>>[1] = a
        /\ 2 \in DOMAIN <<a, b, c>> /\ <<a, b, c>>[2] = b
        /\ 3 \in DOMAIN <<a, b, c>> /\ <<a, b, c>>[3] = c
    OBVIOUS
  <2> QED
    BY <1>3, <2>1 DEF AllIn
<1> QED
  BY <1>1, <1>2, <1>3

(* What is finished with a target of a package.                            *)
LEMMA FinishedWith ==
  ASSUME NEW F, ClosedUnder(F), NEW p \in Pkg
  PROVE  /\ <<"pkg", p>> \in F => <<"install", p>> \in F
         /\ <<"install", p>> \in F /\ p \in HostPkg => <<"install-host", p>> \in F
         /\ <<"install", p>> \in F /\ p \notin HostPkg =>
               <<"install-staging", p>> \in F /\ <<"install-target", p>> \in F /\ <<"install-images", p>> \in F
         /\ <<"install-host", p>> \in F => <<".stamp_host_installed", p>> \in F
         /\ <<"install-staging", p>> \in F /\ p \in StagingPkg => <<".stamp_staging_installed", p>> \in F
         /\ <<"install-target", p>> \in F /\ p \in TargetPkg => <<".stamp_target_installed", p>> \in F
         /\ <<"install-images", p>> \in F /\ p \in ImagesPkg => <<".stamp_images_installed", p>> \in F
         /\ <<"build", p>> \in F => <<"configure", p>> \in F /\ <<".stamp_built", p>> \in F
         /\ <<"configure", p>> \in F => <<"depends", p>> \in F /\ <<".stamp_configured", p>> \in F
         /\ <<"configure", p>> \in F /\ p \notin OverridePkg => <<"patch", p>> \in F
         /\ <<"patch", p>> \in F /\ p \notin OverridePkg => <<"extract", p>> \in F /\ <<".stamp_patched", p>> \in F
         /\ <<"extract", p>> \in F /\ p \notin OverridePkg => <<".stamp_extracted", p>> \in F
         /\ <<"rsync", p>> \in F /\ p \in OverridePkg => <<".stamp_rsynced", p>> \in F
<1>1. ASSUME <<"pkg", p>> \in F
      PROVE  <<"install", p>> \in F
  <2> DEFINE t == <<"pkg", p>>
             a == <<"install", p>>
  <2>1. Prereqs[t] = <<a>>
    BY <1>1, ListedPrereqs
  <2>2. t \in F
    BY <1>1
  <2> HIDE DEF t, a
  <2>3. AllIn(F, <<a>>)
    BY <2>1, <2>2 DEF ClosedUnder
  <2>4. a \in F
    BY <2>3, ListMembers
  <2> QED
    BY <2>4 DEF a
<1>2. ASSUME <<"install", p>> \in F, p \in HostPkg
      PROVE  <<"install-host", p>> \in F
  <2> DEFINE t == <<"install", p>>
             a == <<"install-host", p>>
  <2>1. Prereqs[t] = <<a>>
    BY <1>2, ListedPrereqs
  <2>2. t \in F
    BY <1>2
  <2> HIDE DEF t, a
  <2>3. AllIn(F, <<a>>)
    BY <2>1, <2>2 DEF ClosedUnder
  <2>4. a \in F
    BY <2>3, ListMembers
  <2> QED
    BY <2>4 DEF a
<1>3. ASSUME <<"install", p>> \in F, p \notin HostPkg
      PROVE  <<"install-staging", p>> \in F /\ <<"install-target", p>> \in F /\ <<"install-images", p>> \in F
  <2> DEFINE t == <<"install", p>>
             a == <<"install-staging", p>>
             b == <<"install-target", p>>
             c == <<"install-images", p>>
  <2>1. Prereqs[t] = <<a, b, c>>
    BY <1>3, ListedPrereqs
  <2>2. t \in F
    BY <1>3
  <2> HIDE DEF t, a, b, c
  <2>3. AllIn(F, <<a, b, c>>)
    BY <2>1, <2>2 DEF ClosedUnder
  <2>4. a \in F /\ b \in F /\ c \in F
    BY <2>3, ListMembers
  <2> QED
    BY <2>4 DEF a, b, c
<1>4. ASSUME <<"install-host", p>> \in F
      PROVE  <<".stamp_host_installed", p>> \in F
  <2> DEFINE t == <<"install-host", p>>
             a == <<"build", p>>
             b == <<".stamp_host_installed", p>>
  <2>1. Prereqs[t] = <<a, b>>
    BY <1>4, ListedPrereqs
  <2>2. t \in F
    BY <1>4
  <2> HIDE DEF t, a, b
  <2>3. AllIn(F, <<a, b>>)
    BY <2>1, <2>2 DEF ClosedUnder
  <2>4. a \in F /\ b \in F
    BY <2>3, ListMembers
  <2> QED
    BY <2>4 DEF a, b
<1>5. ASSUME <<"install-staging", p>> \in F, p \in StagingPkg
      PROVE  <<".stamp_staging_installed", p>> \in F
  <2> DEFINE t == <<"install-staging", p>>
             a == <<"build", p>>
             b == <<".stamp_staging_installed", p>>
  <2>1. Prereqs[t] = <<a, b>>
    BY <1>5, ListedPrereqs
  <2>2. t \in F
    BY <1>5
  <2> HIDE DEF t, a, b
  <2>3. AllIn(F, <<a, b>>)
    BY <2>1, <2>2 DEF ClosedUnder
  <2>4. a \in F /\ b \in F
    BY <2>3, ListMembers
  <2> QED
    BY <2>4 DEF a, b
<1>6. ASSUME <<"install-target", p>> \in F, p \in TargetPkg
      PROVE  <<".stamp_target_installed", p>> \in F
  <2> DEFINE t == <<"install-target", p>>
             a == <<"build", p>>
             b == <<".stamp_target_installed", p>>
  <2>1. Prereqs[t] = <<a, b>>
    BY <1>6, ListedPrereqs
  <2>2. t \in F
    BY <1>6
  <2> HIDE DEF t, a, b
  <2>3. AllIn(F, <<a, b>>)
    BY <2>1, <2>2 DEF ClosedUnder
  <2>4. a \in F /\ b \in F
    BY <2>3, ListMembers
  <2> QED
    BY <2>4 DEF a, b
<1>7. ASSUME <<"install-images", p>> \in F, p \in ImagesPkg
      PROVE  <<".stamp_images_installed", p>> \in F
  <2> DEFINE t == <<"install-images", p>>
             a == <<"build", p>>
             b == <<".stamp_images_installed", p>>
  <2>1. Prereqs[t] = <<a, b>>
    BY <1>7, ListedPrereqs
  <2>2. t \in F
    BY <1>7
  <2> HIDE DEF t, a, b
  <2>3. AllIn(F, <<a, b>>)
    BY <2>1, <2>2 DEF ClosedUnder
  <2>4. a \in F /\ b \in F
    BY <2>3, ListMembers
  <2> QED
    BY <2>4 DEF a, b
<1>8. ASSUME <<"build", p>> \in F
      PROVE  <<"configure", p>> \in F /\ <<".stamp_built", p>> \in F
  <2> DEFINE t == <<"build", p>>
             a == <<"configure", p>>
             b == <<".stamp_built", p>>
  <2>1. Prereqs[t] = <<a, b>>
    BY <1>8, ListedPrereqs
  <2>2. t \in F
    BY <1>8
  <2> HIDE DEF t, a, b
  <2>3. AllIn(F, <<a, b>>)
    BY <2>1, <2>2 DEF ClosedUnder
  <2>4. a \in F /\ b \in F
    BY <2>3, ListMembers
  <2> QED
    BY <2>4 DEF a, b
<1>9. ASSUME <<"configure", p>> \in F, p \in OverridePkg
      PROVE  <<"depends", p>> \in F /\ <<".stamp_configured", p>> \in F
  <2> DEFINE t == <<"configure", p>>
             a == <<"depends", p>>
             b == <<".stamp_configured", p>>
  <2>1. Prereqs[t] = <<a, b>>
    BY <1>9, ListedPrereqs
  <2>2. t \in F
    BY <1>9
  <2> HIDE DEF t, a, b
  <2>3. AllIn(F, <<a, b>>)
    BY <2>1, <2>2 DEF ClosedUnder
  <2>4. a \in F /\ b \in F
    BY <2>3, ListMembers
  <2> QED
    BY <2>4 DEF a, b
<1>10. ASSUME <<"configure", p>> \in F, p \notin OverridePkg
      PROVE  <<"patch", p>> \in F /\ <<"depends", p>> \in F /\ <<".stamp_configured", p>> \in F
  <2> DEFINE t == <<"configure", p>>
             a == <<"patch", p>>
             b == <<"depends", p>>
             c == <<".stamp_configured", p>>
  <2>1. Prereqs[t] = <<a, b, c>>
    BY <1>10, ListedPrereqs
  <2>2. t \in F
    BY <1>10
  <2> HIDE DEF t, a, b, c
  <2>3. AllIn(F, <<a, b, c>>)
    BY <2>1, <2>2 DEF ClosedUnder
  <2>4. a \in F /\ b \in F /\ c \in F
    BY <2>3, ListMembers
  <2> QED
    BY <2>4 DEF a, b, c
<1>11. ASSUME <<"patch", p>> \in F, p \notin OverridePkg
      PROVE  <<"extract", p>> \in F /\ <<".stamp_patched", p>> \in F
  <2> DEFINE t == <<"patch", p>>
             a == <<"extract", p>>
             b == <<".stamp_patched", p>>
  <2>1. Prereqs[t] = <<a, b>>
    BY <1>11, ListedPrereqs
  <2>2. t \in F
    BY <1>11
  <2> HIDE DEF t, a, b
  <2>3. AllIn(F, <<a, b>>)
    BY <2>1, <2>2 DEF ClosedUnder
  <2>4. a \in F /\ b \in F
    BY <2>3, ListMembers
  <2> QED
    BY <2>4 DEF a, b
<1>12. ASSUME <<"extract", p>> \in F, p \notin OverridePkg
      PROVE  <<".stamp_extracted", p>> \in F
  <2> DEFINE t == <<"extract", p>>
             a == <<"source", p>>
             b == <<".stamp_extracted", p>>
  <2>1. Prereqs[t] = <<a, b>>
    BY <1>12, ListedPrereqs
  <2>2. t \in F
    BY <1>12
  <2> HIDE DEF t, a, b
  <2>3. AllIn(F, <<a, b>>)
    BY <2>1, <2>2 DEF ClosedUnder
  <2>4. a \in F /\ b \in F
    BY <2>3, ListMembers
  <2> QED
    BY <2>4 DEF a, b
<1>13. ASSUME <<"rsync", p>> \in F, p \in OverridePkg
      PROVE  <<".stamp_rsynced", p>> \in F
  <2> DEFINE t == <<"rsync", p>>
             a == <<".stamp_rsynced", p>>
  <2>1. Prereqs[t] = <<a>>
    BY <1>13, ListedPrereqs
  <2>2. t \in F
    BY <1>13
  <2> HIDE DEF t, a
  <2>3. AllIn(F, <<a>>)
    BY <2>1, <2>2 DEF ClosedUnder
  <2>4. a \in F
    BY <2>3, ListMembers
  <2> QED
    BY <2>4 DEF a
<1> QED
  BY <1>1, <1>2, <1>3, <1>4, <1>5, <1>6, <1>7, <1>8, <1>9, <1>10, <1>11, <1>12, <1>13

(* With the source of a package, its archive is unpacked and patched, or   *)
(* its directory copied.                                                   *)
LEMMA SourceFinished ==
  ASSUME NEW F, ClosedUnder(F), NEW p \in Pkg,
         p \in OverridePkg => <<"depends", p>> \in F,
         p \notin OverridePkg => <<"patch", p>> \in F
  PROVE  SourceNeeds(p) \subseteq F
<1>1. CASE p \in OverridePkg
  <2>1. <<"rsync", p>> \in F
    <3>1. Prereqs[<<"depends", p>>] = << <<"rsync", p>> >> \o Packages(Dependencies[p])
      BY <1>1, PhonyPrereqs DEF Sync, If
    <3> DEFINE a == << <<"rsync", p>> >>
               b == Packages(Dependencies[p])
    <3>2. a \in Seq(Target) /\ b \in Seq(Target) /\ Len(a) = 1 /\ a[1] = <<"rsync", p>>
      <4>1. <<"rsync", p>> \in Target
        BY DEF Target, Phony
      <4> QED
        BY <4>1, PackagesOf, PkgAssumption
    <3> HIDE DEF a, b
    <3>3. 1 \in DOMAIN (a \o b) /\ (a \o b)[1] = a[1]
      BY <3>2, JoinKeeps
    <3> QED
      BY <1>1, <3>1, <3>2, <3>3 DEF ClosedUnder, AllIn, a, b
  <2>2. <<".stamp_rsynced", p>> \in F
    BY <1>1, <2>1, FinishedWith
  <2> QED
    BY <1>1, <2>2 DEF SourceNeeds
<1>2. CASE p \notin OverridePkg
  <2>1. <<"extract", p>> \in F /\ <<".stamp_patched", p>> \in F
    BY <1>2, FinishedWith
  <2>2. <<".stamp_extracted", p>> \in F
    BY <1>2, <2>1, FinishedWith
  <2> QED
    BY <1>2, <2>1, <2>2 DEF SourceNeeds
<1> QED
  BY <1>1, <1>2

(* A package that make has finished with is installed everywhere.          *)
LEMMA PackageFinished ==
  ASSUME NEW F, ClosedUnder(F), NEW q \in Pkg, <<"pkg", q>> \in F, NEW x \in Areas(q)
  PROVE  <<InstallStamp[x], q>> \in F
<1>1. <<"install", q>> \in F
  BY FinishedWith
<1>2. CASE q \in HostPkg
  <2>1. <<"install-host", q>> \in F
    BY <1>1, <1>2, FinishedWith
  <2>2. <<".stamp_host_installed", q>> \in F
    BY <2>1, FinishedWith
  <2>3. x = "host"
    BY <1>2 DEF Areas
  <2> QED
    BY <2>2, <2>3 DEF InstallStamp
<1>3. CASE q \notin HostPkg
  <2>1. <<"install-staging", q>> \in F /\ <<"install-target", q>> \in F /\ <<"install-images", q>> \in F
    BY <1>1, <1>3, FinishedWith
  <2>2. CASE x = "staging" /\ q \in StagingPkg
    <3>1. <<".stamp_staging_installed", q>> \in F
      BY <2>1, <2>2, FinishedWith
    <3> QED
      BY <2>2, <3>1 DEF InstallStamp
  <2>3. CASE x = "target" /\ q \in TargetPkg
    <3>1. <<".stamp_target_installed", q>> \in F
      BY <2>1, <2>3, FinishedWith
    <3> QED
      BY <2>3, <3>1 DEF InstallStamp
  <2>4. CASE x = "images" /\ q \in ImagesPkg
    <3>1. <<".stamp_images_installed", q>> \in F
      BY <2>1, <2>4, FinishedWith
    <3> QED
      BY <2>4, <3>1 DEF InstallStamp
  <2> QED
    BY <1>3, <2>2, <2>3, <2>4 DEF Areas
<1> QED
  BY <1>2, <1>3

(* And so is everything that a package depends on after its `depends'.     *)
LEMMA DependsOn ==
  ASSUME NEW F, ClosedUnder(F), NEW p \in Pkg, <<"depends", p>> \in F
  PROVE  \A i \in DOMAIN Dependencies[p] : <<"pkg", Dependencies[p][i]>> \in F
<1> DEFINE a == Sync(p)
           b == Packages(Dependencies[p])
<1>1. Prereqs[<<"depends", p>>] = a \o b
  BY PhonyPrereqs
<1>2. a \in Seq(Target)
  <2>1. <<"rsync", p>> \in Target
    BY DEF Target, Phony
  <2> QED
    BY <2>1 DEF Sync, If
<1>3. Dependencies[p] \in Seq(Pkg)
  BY PkgAssumption
<1>4. /\ b \in Seq(Target) /\ Len(b) = Len(Dependencies[p])
      /\ \A i \in DOMAIN b : b[i] = <<"pkg", Dependencies[p][i]>>
  BY <1>3, PackagesOf
<1> HIDE DEF a, b
<1>5. ASSUME NEW i \in DOMAIN Dependencies[p] PROVE <<"pkg", Dependencies[p][i]>> \in F
  <2>1. i \in DOMAIN b /\ Len(a) \in Nat /\ i \in Nat
    BY <1>2, <1>3, <1>4
  <2>2. Len(a) + i \in DOMAIN (a \o b) /\ (a \o b)[Len(a) + i] = b[i]
    BY <1>2, <1>4, <2>1
  <2>3. Prereqs[<<"depends", p>>][Len(a) + i] = b[i] /\ Len(a) + i \in DOMAIN Prereqs[<<"depends", p>>]
    BY <1>1, <2>2
  <2> QED
    BY <2>3, <1>4, <2>1 DEF ClosedUnder, AllIn
<1> QED
  BY <1>5

LEMMA DepsFinished ==
  ASSUME NEW F, ClosedUnder(F), NEW p \in Pkg, <<"depends", p>> \in F
  PROVE  DepNeeds(p) \subseteq F
<1>1. Dependencies[p] \in Seq(Pkg)
  BY PkgAssumption
<1>2. \A i \in DOMAIN Dependencies[p] : <<"pkg", Dependencies[p][i]>> \in F
  BY DependsOn
<1>3. ASSUME NEW i \in DOMAIN Dependencies[p], NEW x \in Areas(Dependencies[p][i])
      PROVE  <<InstallStamp[x], Dependencies[p][i]>> \in F
  <2> DEFINE q == Dependencies[p][i]
  <2>1. q \in Pkg
    BY <1>1
  <2>3. <<"pkg", q>> \in F
    BY <1>2
  <2>4. x \in Areas(q)
    OBVIOUS
  <2> HIDE DEF q
  <2>2. <<InstallStamp[x], q>> \in F
    BY <2>1, <2>3, <2>4, PackageFinished
  <2> QED
    BY <2>2 DEF q
<1> QED
  BY <1>3 DEF DepNeeds

LEMMA ConfigureFinished ==
  ASSUME NEW F, ClosedUnder(F), NEW p \in Pkg, <<"configure", p>> \in F
  PROVE  SourceNeeds(p) \cup DepNeeds(p) \cup { <<".stamp_configured", p>> } \subseteq F
<1>1. <<"depends", p>> \in F /\ <<".stamp_configured", p>> \in F /\ (p \notin OverridePkg => <<"patch", p>> \in F)
  BY FinishedWith
<1> QED
  BY <1>1, SourceFinished, DepsFinished

LEMMA BuildFinished ==
  ASSUME NEW F, ClosedUnder(F), NEW p \in Pkg, <<"build", p>> \in F
  PROVE  DepNeeds(p) \cup { <<".stamp_built", p>> } \subseteq F
<1>1. <<"configure", p>> \in F /\ <<".stamp_built", p>> \in F
  BY FinishedWith
<1> QED
  BY <1>1, ConfigureFinished

(* What a recipe needs is finished when make comes to it: all before it in *)
(* the list where it stands is.                                            *)
FitsSource(t) ==
    /\ t[1] = ".stamp_rsynced" => t[2] \in OverridePkg
    /\ t[1] \in {".stamp_extracted", ".stamp_patched"} => t[2] \notin OverridePkg

LEMMA NoNeeds ==
  ASSUME NEW t, t[1] \notin {".stamp_patched", ".stamp_configured", ".stamp_built"} \cup Installing
  PROVE  Needs(t) = {}
BY DEF Needs

LEMMA NeedsFinished ==
  ASSUME NEW F, ClosedUnder(F), NEW t \in Target, NEW n \in DOMAIN Prereqs[t],
         \A i \in 1..n - 1 : Prereqs[t][i] \in F
  PROVE  Needs(Prereqs[t][n]) \subseteq F /\ FitsSource(Prereqs[t][n])
<1> DEFINE q == Prereqs[t][n]
           p == t[2]
<1>1. q \in Target /\ Edge(t, n, q)
  BY Edges DEF EdgesTo
<1>2. ASSUME q[1] \in {".stamp_patched", ".stamp_configured", ".stamp_built", ".stamp_rsynced", ".stamp_extracted"} \cup Installing
      PROVE  p \in Pkg /\ q = <<q[1], p>> /\ SamePkg(t[1], n, q[1]) /\ t = <<t[1], p>>
  <2>1. q[1] \notin TopLevel \cup {"pkg"} /\ q # All
    BY <1>2 DEF TopLevel, All, Installing, InstallStamp, Area
  <2>2. p \in Pkg /\ q[2] = p /\ SamePkg(t[1], n, q[1])
    BY <1>1, <2>1 DEF Edge
  <2>3. q = <<q[1], q[2]>> /\ t = <<t[1], t[2]>>
    BY <1>1 DEF Target
  <2> QED
    BY <2>2, <2>3
<1> HIDE DEF p
<1>3. CASE q[1] = ".stamp_patched"
  <2>1. t = <<"patch", p>> /\ p \in Pkg /\ q = <<".stamp_patched", p>>
    BY <1>2, <1>3 DEF SamePkg, Installing, InstallStamp, Area
  <2>2. p \notin OverridePkg
    <3>1. p \in OverridePkg => Prereqs[t] = << <<"rsync", p>> >>
      BY <2>1, ListedPrereqs
    <3> QED
      BY <2>1, <3>1
  <2>3. Prereqs[t] = << <<"extract", p>>, <<".stamp_patched", p>> >>
    BY <2>1, <2>2, ListedPrereqs
  <2>4. <<"extract", p>> \in F
    BY <2>1, <2>3
  <2>5. <<".stamp_extracted", p>> \in F
    BY <2>1, <2>2, <2>4, FinishedWith
  <2>6. Needs(q) = { <<".stamp_extracted", p>> }
    BY <2>1, NeedsOf
  <2>7. FitsSource(q)
    BY <2>1, <2>2 DEF FitsSource
  <2> QED
    BY <2>5, <2>6, <2>7
<1>4. CASE q[1] = ".stamp_configured"
  <2>1. t = <<"configure", p>> /\ p \in Pkg /\ q = <<".stamp_configured", p>>
    BY <1>2, <1>4 DEF SamePkg, Installing, InstallStamp, Area
  <2>2. <<"depends", p>> \in F /\ (p \notin OverridePkg => <<"patch", p>> \in F)
    <3>1. CASE p \in OverridePkg
      <4>1. Prereqs[t] = << <<"depends", p>>, <<".stamp_configured", p>> >>
        BY <2>1, <3>1, ListedPrereqs
      <4> QED
        BY <2>1, <3>1, <4>1
    <3>2. CASE p \notin OverridePkg
      <4>1. Prereqs[t] = << <<"patch", p>>, <<"depends", p>>, <<".stamp_configured", p>> >>
        BY <2>1, <3>2, ListedPrereqs
      <4>2. n = 3
        BY <2>1, <4>1
      <4>3. Prereqs[t][1] = <<"patch", p>> /\ Prereqs[t][2] = <<"depends", p>>
        BY <4>1
      <4> QED
        BY <4>2, <4>3
    <3> QED
      BY <3>1, <3>2
  <2>3. SourceNeeds(p) \subseteq F /\ DepNeeds(p) \subseteq F
    BY <2>1, <2>2, SourceFinished, DepsFinished
  <2>4. Needs(q) = SourceNeeds(p) \cup DepNeeds(p)
    BY <2>1, NeedsOf
  <2>5. FitsSource(q)
    BY <2>1 DEF FitsSource
  <2> QED
    BY <2>3, <2>4, <2>5
<1>5. CASE q[1] = ".stamp_built"
  <2>1. t = <<"build", p>> /\ p \in Pkg /\ q = <<".stamp_built", p>>
    BY <1>2, <1>5 DEF SamePkg, Installing, InstallStamp, Area
  <2>2. Prereqs[t] = << <<"configure", p>>, <<".stamp_built", p>> >>
    BY <2>1, ListedPrereqs
  <2>3. <<"configure", p>> \in F
    BY <2>1, <2>2
  <2>4. Needs(q) = SourceNeeds(p) \cup DepNeeds(p) \cup { <<".stamp_configured", p>> }
    BY <2>1, NeedsOf
  <2>5. FitsSource(q)
    BY <2>1 DEF FitsSource
  <2> QED
    BY <2>1, <2>3, <2>4, <2>5, ConfigureFinished
<1>6. CASE q[1] \in Installing
  <2>1. /\ t[1] \in {"install-host", "install-staging", "install-target", "install-images"}
        /\ p \in Pkg /\ q = <<q[1], p>> /\ t = <<t[1], p>>
    BY <1>2, <1>6 DEF SamePkg, Installing, InstallStamp, Area
  <2> DEFINE b == <<"build", p>>
  <2>2. ASSUME NEW s, Prereqs[t] = <<b, s>> PROVE b \in F
    <3>1. q # b
      BY <1>6, <2>1 DEF Installing, InstallStamp, Area
    <3> HIDE DEF b
    <3> QED
      BY <2>2, <3>1
  <2>3. Prereqs[t] # <<>>
    OBVIOUS
  <2>4. b \in F
    <3>1. CASE t[1] = "install-host"
      <4>1. t = <<"install-host", p>>
        BY <2>1, <3>1
      <4>2. Prereqs[t] = <<b, <<".stamp_host_installed", p>> >>
        BY <2>1, <4>1, ListedPrereqs
      <4> QED
        BY <2>2, <4>2
    <3>2. CASE t[1] = "install-staging"
      <4>1. t = <<"install-staging", p>>
        BY <2>1, <3>2
      <4>2. Prereqs[t] = <<b, <<".stamp_staging_installed", p>> >>
        BY <2>1, <2>3, <4>1, ListedPrereqs
      <4> QED
        BY <2>2, <4>2
    <3>3. CASE t[1] = "install-target"
      <4>1. t = <<"install-target", p>>
        BY <2>1, <3>3
      <4>2. Prereqs[t] = <<b, <<".stamp_target_installed", p>> >>
        BY <2>1, <2>3, <4>1, ListedPrereqs
      <4> QED
        BY <2>2, <4>2
    <3>4. CASE t[1] = "install-images"
      <4>1. t = <<"install-images", p>>
        BY <2>1, <3>4
      <4>2. Prereqs[t] = <<b, <<".stamp_images_installed", p>> >>
        BY <2>1, <2>3, <4>1, ListedPrereqs
      <4> QED
        BY <2>2, <4>2
    <3> QED
      BY <2>1, <3>1, <3>2, <3>3, <3>4
  <2>5. PICK x \in Area : q[1] = InstallStamp[x]
    BY <1>6 DEF Installing
  <2>6. Needs(q) = DepNeeds(p) \cup { <<".stamp_built", p>> }
    <3>1. q = <<InstallStamp[x], p>>
      BY <2>1, <2>5
    <3> QED
      BY <3>1, NeedsOf
  <2>7. FitsSource(q)
    BY <1>6 DEF FitsSource, Installing, InstallStamp, Area
  <2> QED
    BY <2>1, <2>4, <2>6, <2>7, BuildFinished
<1>7. CASE q[1] \notin {".stamp_patched", ".stamp_configured", ".stamp_built"} \cup Installing
  <2>1. Needs(q) = {}
    BY <1>7, NoNeeds
  <2>2. CASE q[1] = ".stamp_rsynced"
    <3>1. t = <<"rsync", p>> /\ p \in Pkg /\ q = <<".stamp_rsynced", p>>
      BY <1>2, <2>2 DEF SamePkg, Installing, InstallStamp, Area
    <3>2. p \notin OverridePkg => Prereqs[t] = <<>>
      BY <3>1, ListedPrereqs
    <3> QED
      BY <2>1, <2>2, <3>1, <3>2 DEF FitsSource
  <2>3. CASE q[1] = ".stamp_extracted"
    <3>1. t = <<"extract", p>> /\ p \in Pkg /\ q = <<".stamp_extracted", p>>
      BY <1>2, <2>3 DEF SamePkg, Installing, InstallStamp, Area
    <3>2. p \in OverridePkg => Prereqs[t] = << <<"rsync", p>> >>
      BY <3>1, ListedPrereqs
    <3>3. p \notin OverridePkg
      BY <3>1, <3>2
    <3> QED
      BY <2>1, <3>1, <3>3 DEF FitsSource
  <2>4. CASE q[1] \notin {".stamp_rsynced", ".stamp_extracted", ".stamp_patched"}
    BY <2>1, <2>4 DEF FitsSource
  <2> QED
    BY <1>7, <2>2, <2>3, <2>4
<1> QED
  BY <1>3, <1>4, <1>5, <1>6, <1>7
-----------------------------------------------------------------------------
(* The steps of the walk.                                                  *)
Frames == [target : Target, next : Nat]
State == [goals : Seq(Goal), stack : Seq(Frames), seen : SUBSET Target, order : Seq(RecipeTarget)]

(* The first n frames are as they were.                                    *)
Kept(s, z, n) == \A j \in 1..n : z.stack[j] = s.stack[j]

(* The top target has q as its next prerequisite.                          *)
Wants(s, q) ==
    /\ Len(s.stack) > 0
    /\ Top(s).next <= Len(Prereqs[Top(s).target])
    /\ q = Prereqs[Top(s).target][Top(s).next]

SkipsGoal(s, z) ==
    /\ Len(s.stack) = 0 /\ s.goals # <<>> /\ z.goals = Tail(s.goals)
    /\ Head(s.goals) \in s.seen
    /\ z.stack = s.stack /\ z.seen = s.seen /\ z.order = s.order

StartsGoal(s, z, q) ==
    /\ Len(s.stack) = 0 /\ s.goals # <<>> /\ z.goals = Tail(s.goals)
    /\ q = Head(s.goals)

StartsPrereq(s, z, q) == Wants(s, q) /\ z.goals = s.goals

Starts(s, z, q) ==
    /\ StartsGoal(s, z, q) \/ StartsPrereq(s, z, q)
    /\ q \in Target /\ q \notin s.seen
    /\ Len(z.stack) = Len(s.stack) + 1 /\ Kept(s, z, Len(s.stack))
    /\ z.stack[Len(s.stack) + 1] = Frame(q, 1)
    /\ z.seen = s.seen \cup {q} /\ z.order = s.order

SkipsPrereq(s, z, q) ==
    /\ Wants(s, q) /\ q \in s.seen
    /\ Len(z.stack) = Len(s.stack) /\ Kept(s, z, Len(s.stack) - 1)
    /\ z.stack[Len(s.stack)] = Frame(Top(s).target, Top(s).next + 1)
    /\ z.goals = s.goals /\ z.seen = s.seen /\ z.order = s.order

Finishes(s, z, t) ==
    /\ Len(s.stack) > 0 /\ t = Top(s).target /\ Top(s).next > Len(Prereqs[t])
    /\ Len(z.stack) = Len(s.stack) - 1 /\ Kept(s, z, Len(s.stack) - 2)
    /\ Len(s.stack) > 1 => LET f == s.stack[Len(s.stack) - 1] IN
                           z.stack[Len(s.stack) - 1] = Frame(f.target, f.next + 1)
    /\ z.goals = s.goals /\ z.seen = s.seen
    /\ IF t \in RecipeTarget THEN z.order = Append(s.order, t) ELSE z.order = s.order

LEMMA Fields ==
  ASSUME NEW s \in State
  PROVE  /\ s.goals \in Seq(Goal) /\ s.stack \in Seq(Frames) /\ s.seen \subseteq Target
         /\ s.order \in Seq(RecipeTarget) /\ Len(s.stack) \in Nat /\ Len(s.order) \in Nat
         /\ \A j \in 1..Len(s.stack) : /\ s.stack[j] \in Frames /\ s.stack[j].target \in Target
                                       /\ s.stack[j].next \in Nat
         /\ Top(s) = s.stack[Len(s.stack)]
         /\ Goal \subseteq Target
<1>1. s.goals \in Seq(Goal) /\ s.stack \in Seq(Frames) /\ s.seen \subseteq Target /\ s.order \in Seq(RecipeTarget)
  BY DEF State
<1>2. Len(s.stack) \in Nat /\ Len(s.order) \in Nat /\ \A j \in 1..Len(s.stack) : s.stack[j] \in Frames
  BY <1>1
<1>3. \A f \in Frames : f.target \in Target /\ f.next \in Nat
  BY DEF Frames
<1>4. Goal \subseteq Target
  BY DEF Goal, Target
<1> QED
  BY <1>1, <1>2, <1>3, <1>4 DEF Top

LEMMA FrameType ==
  ASSUME NEW t \in Target, NEW i \in Nat
  PROVE  Frame(t, i) \in Frames /\ Frame(t, i).target = t /\ Frame(t, i).next = i
BY DEF Frame, Frames

(* What make comes to is entered with its first prerequisite next.         *)
Entered(s, z, q) ==
    /\ z \in State /\ z.goals = s.goals
    /\ Len(z.stack) = Len(s.stack) + 1 /\ Kept(s, z, Len(s.stack))
    /\ z.stack[Len(s.stack) + 1] = Frame(q, 1)
    /\ z.seen = s.seen \cup {q} /\ z.order = s.order

LEMMA Enters ==
  ASSUME NEW s \in State, NEW q \in Target
  PROVE  Entered(s, Enter(s, q), q)
<1> DEFINE f == Frame(q, 1)
           stack == Append(s.stack, f)
           seen == s.seen \cup {q}
           z == [s EXCEPT !.stack = stack, !.seen = seen]
<1>1. Enter(s, q) = z
  BY DEF Enter
<1>2. f \in Frames
  BY FrameType
<1> HIDE DEF f
<1>3. s.stack \in Seq(Frames) /\ Len(s.stack) \in Nat
  BY Fields
<1>4. /\ stack \in Seq(Frames) /\ Len(stack) = Len(s.stack) + 1 /\ stack[Len(s.stack) + 1] = f
      /\ \A j \in 1..Len(s.stack) : stack[j] = s.stack[j]
  BY <1>2, <1>3
<1>5. seen \subseteq Target
  BY Fields
<1> HIDE DEF stack, seen
<1>6. /\ z \in State /\ z.goals = s.goals /\ z.stack = stack /\ z.seen = seen /\ z.order = s.order
  BY <1>4, <1>5 DEF State
<1> HIDE DEF z
<1> QED
  BY <1>1, <1>4, <1>6 DEF Entered, Kept, f, seen

(* The frame that is moved on to its next prerequisite.                    *)
MovedOn(a, b) ==
    /\ b \in Seq(Frames) /\ Len(b) = Len(a)
    /\ \A j \in 1..Len(a) - 1 : b[j] = a[j]
    /\ b[Len(a)] = Frame(a[Len(a)].target, a[Len(a)].next + 1)

LEMMA Advances ==
  ASSUME NEW a \in Seq(Frames), a # <<>>
  PROVE  MovedOn(a, Advanced(a))
<1> DEFINE n == Len(a)
           f == a[n]
           i == f.next + 1
           g == [f EXCEPT !.next = i]
<1>1. n \in Nat /\ n > 0 /\ f \in Frames
  OBVIOUS
<1>2. i \in Nat
  BY <1>1 DEF Frames
<1>3. Advanced(a) = [a EXCEPT ![n] = g]
  BY <1>1 DEF Advanced
<1> HIDE DEF i
<1>4. g = Frame(f.target, i) /\ g \in Frames
  BY <1>1, <1>2 DEF Frames, Frame
<1> HIDE DEF g
<1>5. [a EXCEPT ![n] = g] \in Seq(Frames) /\ Len([a EXCEPT ![n] = g]) = n
  BY <1>1, <1>4
<1>6. [a EXCEPT ![n] = g][n] = g /\ \A j \in 1..n - 1 : [a EXCEPT ![n] = g][j] = a[j]
  BY <1>1
<1> QED
  BY <1>3, <1>4, <1>5, <1>6 DEF MovedOn, i

LEMMA Outers ==
  ASSUME NEW s \in State, Len(s.stack) > 1
  PROVE  /\ Outer(s) \in Seq(Frames) /\ Len(Outer(s)) = Len(s.stack) - 1
         /\ \A j \in 1..Len(s.stack) - 1 : Outer(s)[j] = s.stack[j]
<1>1. s.stack \in Seq(Frames) /\ Len(s.stack) \in Nat
  BY Fields
<1> QED
  BY <1>1 DEF Outer

LEMMA NextGoalDoes ==
  ASSUME NEW s \in State, s.stack = <<>>, s.goals # <<>>
  PROVE  /\ NextGoal(s) \in State
         /\ SkipsGoal(s, NextGoal(s)) \/ Starts(s, NextGoal(s), Head(s.goals))
<1> DEFINE left == Tail(s.goals)
           q == Head(s.goals)
           rest == [s EXCEPT !.goals = left]
<1>1. left \in Seq(Goal) /\ q \in Target
  BY Fields
<1>2. NextGoal(s) = IF q \in s.seen THEN rest ELSE Enter(rest, q)
  BY DEF NextGoal
<1> HIDE DEF left, q
<1>3. /\ rest \in State /\ rest.goals = left /\ rest.stack = s.stack /\ rest.seen = s.seen
      /\ rest.order = s.order
  BY <1>1 DEF State
<1> HIDE DEF rest
<1>4. Len(s.stack) = 0
  OBVIOUS
<1>5. CASE q \in s.seen
  BY <1>2, <1>3, <1>4, <1>5 DEF SkipsGoal, left, q
<1>6. CASE q \notin s.seen
  <2>1. Entered(rest, Enter(rest, q), q) /\ NextGoal(s) = Enter(rest, q)
    BY <1>1, <1>2, <1>3, <1>6, Enters
  <2>2. Entered(rest, NextGoal(s), q)
    BY <2>1
  <2>3. StartsGoal(s, NextGoal(s), q)
    BY <1>3, <1>4, <2>2 DEF Entered, StartsGoal, left, q
  <2>4. Starts(s, NextGoal(s), q)
    BY <1>1, <1>3, <1>6, <2>2, <2>3 DEF Entered, Starts, Kept
  <2> QED
    BY <2>2, <2>4 DEF Entered, q
<1> QED
  BY <1>5, <1>6

LEMMA NextPrereqDoes ==
  ASSUME NEW s \in State, s.stack # <<>>, Top(s).next \in 1..Len(Prereqs[Top(s).target])
  PROVE  LET q == Prereqs[Top(s).target][Top(s).next] IN
         /\ NextPrereq(s) \in State
         /\ SkipsPrereq(s, NextPrereq(s), q) \/ Starts(s, NextPrereq(s), q)
<1> DEFINE q == Prereqs[Top(s).target][Top(s).next]
<1>1. /\ Len(s.stack) \in Nat /\ Len(s.stack) > 0 /\ s.stack \in Seq(Frames)
      /\ Top(s) = s.stack[Len(s.stack)] /\ Top(s) \in Frames /\ Top(s).target \in Target
  BY Fields
<1>2. q \in Target
  BY <1>1, Edges DEF EdgesTo
<1>3. Wants(s, q)
  BY <1>1 DEF Wants
<1>4. NextPrereq(s) = IF q \in s.seen THEN [s EXCEPT !.stack = Advanced(@)] ELSE Enter(s, q)
  BY DEF NextPrereq
<1> HIDE DEF q
<1>5. CASE q \in s.seen
  <2> DEFINE stack == Advanced(s.stack)
             z == [s EXCEPT !.stack = stack]
  <2>1. NextPrereq(s) = z
    BY <1>4, <1>5
  <2>2. MovedOn(s.stack, stack)
    BY <1>1, Advances
  <2> HIDE DEF stack
  <2>3. stack \in Seq(Frames)
    BY <2>2 DEF MovedOn
  <2>4. z \in State /\ z.goals = s.goals /\ z.stack = stack /\ z.seen = s.seen /\ z.order = s.order
    BY <2>3 DEF State
  <2> HIDE DEF z
  <2>5. SkipsPrereq(s, z, q)
    BY <1>1, <1>3, <1>5, <2>2, <2>4 DEF SkipsPrereq, MovedOn, Kept
  <2> QED
    BY <2>1, <2>4, <2>5 DEF q
<1>6. CASE q \notin s.seen
  <2>1. NextPrereq(s) = Enter(s, q) /\ Entered(s, Enter(s, q), q)
    BY <1>2, <1>4, <1>6, Enters
  <2>2. Entered(s, NextPrereq(s), q)
    BY <2>1
  <2>3. Starts(s, NextPrereq(s), q)
    BY <1>2, <1>3, <1>6, <2>2 DEF Entered, Starts, StartsPrereq
  <2> QED
    BY <2>2, <2>3 DEF Entered, q
<1> QED
  BY <1>5, <1>6

LEMMA LeaveDoes ==
  ASSUME NEW s \in State, s.stack # <<>>, Top(s).next > Len(Prereqs[Top(s).target])
  PROVE  Leave(s) \in State /\ Finishes(s, Leave(s), Top(s).target)
<1> DEFINE t == Top(s).target
           stack == IF Len(s.stack) = 1 THEN <<>> ELSE Advanced(Outer(s))
           order == IF t \in RecipeTarget THEN Append(s.order, t) ELSE s.order
           z == [s EXCEPT !.stack = stack, !.order = order]
<1>1. /\ Len(s.stack) \in Nat /\ Len(s.stack) > 0 /\ s.stack \in Seq(Frames)
      /\ s.order \in Seq(RecipeTarget)
  BY Fields
<1>2. Leave(s) = z
  BY DEF Leave
<1>3. order \in Seq(RecipeTarget)
  BY <1>1
<1>4. /\ stack \in Seq(Frames) /\ Len(stack) = Len(s.stack) - 1
      /\ \A j \in 1..Len(s.stack) - 2 : stack[j] = s.stack[j]
      /\ Len(s.stack) > 1 => LET f == s.stack[Len(s.stack) - 1] IN
                             stack[Len(s.stack) - 1] = Frame(f.target, f.next + 1)
  <2>1. CASE Len(s.stack) = 1
    BY <2>1
  <2>2. CASE Len(s.stack) # 1
    <3>0. Len(s.stack) > 1
      <4> DEFINE m == Len(s.stack)
      <4>1. m \in Nat /\ m > 0 /\ m # 1
        BY <1>1, <2>2
      <4> HIDE DEF m
      <4>2. m > 1
        BY <4>1
      <4> QED
        BY <4>2 DEF m
    <3>1. /\ Len(s.stack) > 1 /\ Outer(s) \in Seq(Frames) /\ Len(Outer(s)) = Len(s.stack) - 1
          /\ \A j \in 1..Len(s.stack) - 1 : Outer(s)[j] = s.stack[j]
      BY <3>0, Outers
    <3>2. Outer(s) # <<>>
      BY <1>1, <3>1
    <3>3. MovedOn(Outer(s), stack)
      BY <2>2, <3>1, <3>2, Advances
    <3> HIDE DEF stack
    <3> QED
      BY <1>1, <3>1, <3>3 DEF MovedOn
  <2> QED
    BY <2>1, <2>2
<1>5. IF t \in RecipeTarget THEN order = Append(s.order, t) ELSE order = s.order
  OBVIOUS
<1> HIDE DEF stack, order
<1>6. z \in State /\ z.goals = s.goals /\ z.stack = stack /\ z.seen = s.seen /\ z.order = order
  BY <1>3, <1>4 DEF State
<1> HIDE DEF z
<1> QED
  BY <1>1, <1>2, <1>4, <1>5, <1>6 DEF Finishes, Kept

(* Each step is one of these.                                              *)
Steps(s, z) ==
    \/ SkipsGoal(s, z)
    \/ \E q \in Target : Starts(s, z, q) \/ SkipsPrereq(s, z, q)
    \/ \E t \in Target : Finishes(s, z, t)

LEMMA ConsiderDoes ==
  ASSUME NEW s \in State, ~Ended(s), s.stack # <<>> => Top(s).next > 0
  PROVE  Consider(s) \in State /\ Steps(s, Consider(s))
<1>1. CASE s.stack = <<>>
  <2>1. s.goals # <<>> /\ Consider(s) = NextGoal(s)
    BY <1>1 DEF Ended, Consider
  <2>2. Head(s.goals) \in Target
    BY <2>1, Fields
  <2> QED
    BY <1>1, <2>1, <2>2, NextGoalDoes DEF Steps
<1>2. CASE s.stack # <<>> /\ Top(s).next <= Len(Prereqs[Top(s).target])
  <2> DEFINE q == Prereqs[Top(s).target][Top(s).next]
  <2>1. Consider(s) = NextPrereq(s)
    BY <1>2 DEF Consider, Ended
  <2>2. Top(s).target \in Target /\ Top(s).next \in Nat
    BY <1>2, Fields
  <2>3. Prereqs[Top(s).target] \in Seq(Target)
    BY <2>2, Edges DEF EdgesTo
  <2>4. Top(s).next \in 1..Len(Prereqs[Top(s).target]) /\ q \in Target
    BY <1>2, <2>2, <2>3
  <2>5. NextPrereq(s) \in State /\ (SkipsPrereq(s, NextPrereq(s), q) \/ Starts(s, NextPrereq(s), q))
    BY <1>2, <2>4, NextPrereqDoes
  <2> HIDE DEF q
  <2> QED
    BY <2>1, <2>4, <2>5 DEF Steps
<1>3. CASE s.stack # <<>> /\ ~(Top(s).next <= Len(Prereqs[Top(s).target]))
  <2>1. Consider(s) = Leave(s)
    BY <1>3 DEF Consider, Ended
  <2>2. Top(s).target \in Target /\ Top(s).next \in Nat
    BY <1>3, Fields
  <2>3. Prereqs[Top(s).target] \in Seq(Target)
    BY <2>2, Edges DEF EdgesTo
  <2>4. Top(s).next > Len(Prereqs[Top(s).target])
    BY <1>3, <2>2, <2>3
  <2> QED
    BY <1>3, <2>1, <2>2, <2>4, LeaveDoes DEF Steps
<1> QED
  BY <1>1, <1>2, <1>3
-----------------------------------------------------------------------------
(* What is always so of the walk.  First of the targets make is in the     *)
(* middle of: each leads to the next, so that each is lower than the ones  *)
(* before it.                                                              *)
Framed(s) == \A j \in 1..Len(s.stack) :
                /\ s.stack[j].target \in s.seen
                /\ s.stack[j].next \in 1..Len(Prereqs[s.stack[j].target]) + 1

Linked(s) == \A j \in 1..Len(s.stack) - 1 :
                /\ s.stack[j].next <= Len(Prereqs[s.stack[j].target])
                /\ s.stack[j + 1].target = Prereqs[s.stack[j].target][s.stack[j].next]

Falling(rank, s) == \A j \in 1..Len(s.stack) : \A i \in 1..j - 1 :
                       Lower(rank, s.stack[j].target, s.stack[i].target)

Grounded(s) == Len(s.stack) > 0 => s.stack[1].target \in Goal

Shape(rank, s) == Framed(s) /\ Linked(s) /\ Falling(rank, s) /\ Grounded(s)

(* What make wants next is below all that it is in the middle of.          *)
LEMMA WantedIsLower ==
  ASSUME NEW rank, Ranks(rank), NEW s \in State, Shape(rank, s), NEW q, Wants(s, q)
  PROVE  /\ q \in Target /\ Edge(Top(s).target, Top(s).next, q)
         /\ \A j \in 1..Len(s.stack) : Lower(rank, q, s.stack[j].target)
         /\ \A j \in 1..Len(s.stack) : q # s.stack[j].target
<1> DEFINE n == Len(s.stack)
           f == s.stack[n]
<1>1. n \in Nat /\ n \in 1..n /\ f = Top(s) /\ f.target \in Target /\ f.next \in Nat
  BY Fields DEF Wants
<1>2. f.next \in 1..Len(Prereqs[f.target]) /\ q = Prereqs[f.target][f.next]
  BY <1>1 DEF Wants, Shape, Framed
<1>3. q \in Target /\ Edge(f.target, f.next, q)
  BY <1>1, <1>2, Edges DEF EdgesTo
<1>4. Lower(rank, q, f.target)
  BY <1>1, <1>3, EdgeLowers
<1>5. ASSUME NEW j \in 1..n PROVE Lower(rank, q, s.stack[j].target)
  <2>1. CASE j = n
    BY <1>4, <2>1
  <2>2. CASE j # n
    <3>1. j \in 1..n - 1
      BY <1>1, <2>2
    <3>2. Lower(rank, f.target, s.stack[j].target)
      BY <1>1, <3>1 DEF Shape, Falling
    <3> QED
      BY <1>4, <3>2, LowerOrder
  <2> QED
    BY <2>1, <2>2
<1>6. ASSUME NEW j \in 1..n PROVE q # s.stack[j].target
  BY <1>5, LowerOrder
<1> QED
  BY <1>1, <1>3, <1>5, <1>6

(* The step from a frame to its parent's next: what a step does to frames. *)
LEMMA ShapeStarts ==
  ASSUME NEW rank, Ranks(rank), NEW s \in State, NEW z \in State, Shape(rank, s),
         NEW q \in Target, Starts(s, z, q)
  PROVE  Shape(rank, z)
<1> DEFINE n == Len(s.stack)
<1>1. /\ n \in Nat /\ Len(z.stack) = n + 1
      /\ \A j \in 1..n : z.stack[j] = s.stack[j]
      /\ z.stack[n + 1].target = q /\ z.stack[n + 1].next = 1
      /\ z.seen = s.seen \cup {q}
  BY Fields, FrameType DEF Starts, Kept
<1>2. n > 0 => Wants(s, q)
  BY DEF Starts, StartsGoal, StartsPrereq
<1>3. \A j \in 1..Len(z.stack) : j \in 1..n \/ j = n + 1
  BY <1>1
<1>4. Framed(z)
  <2>1. 1 \in 1..Len(Prereqs[q]) + 1
    BY Edges DEF EdgesTo
  <2> HIDE DEF n
  <2> QED
    BY <1>1, <1>3, <2>1 DEF Shape, Framed, n
<1>5. Linked(z)
  <2>1. ASSUME NEW j \in 1..n
        PROVE  /\ z.stack[j].next <= Len(Prereqs[z.stack[j].target])
               /\ z.stack[j + 1].target = Prereqs[z.stack[j].target][z.stack[j].next]
    <3>1. CASE j = n
      <4>1. Wants(s, q) /\ Top(s) = s.stack[n] /\ z.stack[n] = s.stack[n]
        BY <1>1, <1>2, <3>1, Fields
      <4> QED
        BY <1>1, <3>1, <4>1 DEF Wants
    <3>2. CASE j # n
      <4>1. j \in 1..n - 1 /\ j + 1 \in 1..n
        BY <1>1, <3>2
      <4> QED
        BY <1>1, <4>1 DEF Shape, Linked
    <3> QED
      BY <3>1, <3>2
  <2> QED
    BY <1>1, <2>1 DEF Linked
<1>6. Falling(rank, z)
  <2>1. ASSUME NEW j \in 1..n + 1, NEW i \in 1..j - 1
        PROVE  Lower(rank, z.stack[j].target, z.stack[i].target)
    <3>1. i \in 1..n /\ z.stack[i] = s.stack[i] /\ n > 0
      BY <1>1
    <3>2. CASE j = n + 1
      BY <1>1, <1>2, <3>1, <3>2, WantedIsLower
    <3>3. CASE j # n + 1
      <4>1. j \in 1..n
        BY <1>1, <3>3
      <4> QED
        BY <1>1, <3>1, <4>1 DEF Shape, Falling
    <3> QED
      BY <3>2, <3>3
  <2> QED
    BY <1>1, <2>1 DEF Falling
<1>7. Grounded(z)
  <2>1. CASE n = 0
    <3>1. StartsGoal(s, z, q) /\ s.goals \in Seq(Goal)
      BY <2>1, Fields DEF Starts, StartsPrereq, Wants
    <3>2. q \in Goal
      BY <3>1 DEF StartsGoal
    <3> QED
      BY <1>1, <2>1, <3>2 DEF Grounded
  <2>2. CASE n # 0
    BY <1>1, <2>2 DEF Shape, Grounded
  <2> QED
    BY <2>1, <2>2
<1> QED
  BY <1>4, <1>5, <1>6, <1>7 DEF Shape

(* The frames after a step that starts nothing: those that are left, the   *)
(* last one moved on.                                                      *)
Resumes(s, z, n) ==
    /\ n \in Nat /\ n <= Len(s.stack) /\ Len(z.stack) = n
    /\ \A j \in 1..n - 1 : z.stack[j] = s.stack[j]
    /\ n > 0 => /\ z.stack[n].target = s.stack[n].target
                /\ z.stack[n].next = s.stack[n].next + 1
                /\ s.stack[n].next <= Len(Prereqs[s.stack[n].target])
    /\ z.seen = s.seen

LEMMA Resuming ==
  ASSUME NEW s \in State, NEW z \in State, Linked(s)
  PROVE  /\ SkipsGoal(s, z) => Resumes(s, z, 0)
         /\ \A q : SkipsPrereq(s, z, q) => Resumes(s, z, Len(s.stack))
         /\ \A t : Finishes(s, z, t) => Resumes(s, z, Len(s.stack) - 1)
<1> DEFINE n == Len(s.stack)
<1>1. /\ n \in Nat /\ Top(s) = s.stack[n]
      /\ \A j \in 1..n : s.stack[j].target \in Target /\ s.stack[j].next \in Nat
  BY Fields
<1>2. SkipsGoal(s, z) => Resumes(s, z, 0)
  BY DEF SkipsGoal, Resumes
<1>3. ASSUME NEW q, SkipsPrereq(s, z, q) PROVE Resumes(s, z, n)
  <2>1. n > 0 /\ n \in 1..n
    BY <1>1, <1>3 DEF SkipsPrereq, Wants
  <2>2. z.stack[n] = Frame(s.stack[n].target, s.stack[n].next + 1)
    BY <1>1, <1>3 DEF SkipsPrereq
  <2>3. z.stack[n].target = s.stack[n].target /\ z.stack[n].next = s.stack[n].next + 1
    BY <2>2 DEF Frame
  <2> QED
    BY <1>1, <1>3, <2>1, <2>3 DEF SkipsPrereq, Resumes, Kept, Wants
<1>4. ASSUME NEW t, Finishes(s, z, t) PROVE Resumes(s, z, n - 1)
  <2>0. n > 0 /\ Len(z.stack) = n - 1 /\ z.seen = s.seen /\ Kept(s, z, n - 2)
    BY <1>4 DEF Finishes
  <2>1. /\ n > 0 /\ n - 1 \in Nat /\ Len(z.stack) = n - 1 /\ z.seen = s.seen
        /\ \A j \in 1..n - 2 : z.stack[j] = s.stack[j]
    BY <1>1, <2>0 DEF Kept
  <2>2. n - 1 > 0 => z.stack[n - 1] = Frame(s.stack[n - 1].target, s.stack[n - 1].next + 1)
    BY <1>1, <1>4 DEF Finishes
  <2>3. n - 1 > 0 => /\ z.stack[n - 1].target = s.stack[n - 1].target
                     /\ z.stack[n - 1].next = s.stack[n - 1].next + 1
    BY <2>2 DEF Frame
  <2>4. n - 1 > 0 => s.stack[n - 1].next <= Len(Prereqs[s.stack[n - 1].target])
    BY <1>1, <2>1 DEF Linked
  <2>5. (n - 1) - 1 = n - 2 /\ n - 1 <= n
    BY <1>1
  <2> QED
    BY <2>1, <2>3, <2>4, <2>5 DEF Resumes
<1> QED
  BY <1>2, <1>3, <1>4

LEMMA ShapeResumes ==
  ASSUME NEW rank, NEW s \in State, NEW z \in State, Shape(rank, s), NEW n \in Nat, Resumes(s, z, n)
  PROVE  Shape(rank, z)
<1>1. /\ Len(s.stack) \in Nat /\ n <= Len(s.stack) /\ Len(z.stack) = n /\ z.seen = s.seen
      /\ \A j \in 1..n - 1 : z.stack[j] = s.stack[j]
      /\ \A j \in 1..n : s.stack[j].target \in Target /\ s.stack[j].next \in Nat
  BY Fields DEF Resumes
<1>2. \A j \in 1..n : z.stack[j].target = s.stack[j].target
  <2>1. \A j \in 1..n : j \in 1..n - 1 \/ (j = n /\ n > 0)
    OBVIOUS
  <2> QED
    BY <1>1, <2>1 DEF Resumes
<1>3. Framed(z)
  <2>1. ASSUME NEW j \in 1..n
        PROVE  z.stack[j].target \in z.seen /\ z.stack[j].next \in 1..Len(Prereqs[z.stack[j].target]) + 1
    <3>1. s.stack[j].target \in s.seen /\ s.stack[j].next \in 1..Len(Prereqs[s.stack[j].target]) + 1
      BY <1>1 DEF Shape, Framed
    <3>2. CASE j = n
      <4>1. Len(Prereqs[s.stack[j].target]) \in Nat
        BY <1>1, Edges DEF EdgesTo
      <4>2. s.stack[j].next <= Len(Prereqs[s.stack[j].target]) /\ z.stack[j].next = s.stack[j].next + 1
        BY <3>2 DEF Resumes
      <4> QED
        BY <1>1, <1>2, <3>1, <4>1, <4>2
    <3>3. CASE j # n
      BY <1>1, <3>1, <3>3
    <3> QED
      BY <3>2, <3>3
  <2> QED
    BY <1>1, <2>1 DEF Framed
<1>4. Linked(z)
  <2>1. ASSUME NEW j \in 1..n - 1
        PROVE  /\ z.stack[j].next <= Len(Prereqs[z.stack[j].target])
               /\ z.stack[j + 1].target = Prereqs[z.stack[j].target][z.stack[j].next]
    <3>1. j + 1 \in 1..n /\ j \in 1..Len(s.stack) - 1
      BY <1>1
    <3> QED
      BY <1>1, <1>2, <3>1 DEF Shape, Linked
  <2> QED
    BY <1>1, <2>1 DEF Linked
<1>5. Falling(rank, z)
  <2>1. ASSUME NEW j \in 1..n, NEW i \in 1..j - 1
        PROVE  Lower(rank, z.stack[j].target, z.stack[i].target)
    <3>1. i \in 1..n /\ j \in 1..Len(s.stack)
      BY <1>1
    <3> QED
      BY <1>2, <3>1 DEF Shape, Falling
  <2> QED
    BY <1>1, <2>1 DEF Falling
<1>6. Grounded(z)
  BY <1>1, <1>2 DEF Shape, Grounded
<1> QED
  BY <1>3, <1>4, <1>5, <1>6 DEF Shape
-----------------------------------------------------------------------------
(* What make has finished with: all that these targets need is, too.       *)
Fin(s) == { t \in s.seen : \A j \in 1..Len(s.stack) : s.stack[j].target # t }

LEMMA FinStarts ==
  ASSUME NEW rank, NEW s \in State, NEW z \in State, Shape(rank, s), NEW q, Starts(s, z, q)
  PROVE  Fin(z) = Fin(s)
<1> DEFINE n == Len(s.stack)
<1>1. /\ n \in Nat /\ Len(z.stack) = n + 1 /\ z.seen = s.seen \cup {q} /\ q \notin s.seen
      /\ \A j \in 1..n : z.stack[j] = s.stack[j] /\ s.stack[j].target \in s.seen
      /\ z.stack[n + 1].target = q
  BY Fields DEF Starts, Kept, Shape, Framed, Frame
<1>2. \A j \in 1..n + 1 : j \in 1..n \/ j = n + 1
  BY <1>1
<1>3. n + 1 \in 1..n + 1 /\ \A j \in 1..n : j \in 1..n + 1
  BY <1>1
<1> HIDE DEF n
<1>4. Fin(z) \subseteq Fin(s)
  BY <1>1, <1>3 DEF Fin, n
<1>5. Fin(s) \subseteq Fin(z)
  BY <1>1, <1>2 DEF Fin, n
<1> QED
  BY <1>4, <1>5

LEMMA FinSkips ==
  ASSUME NEW rank, NEW s \in State, NEW z \in State, Shape(rank, s),
         SkipsGoal(s, z) \/ \E q : SkipsPrereq(s, z, q)
  PROVE  Fin(z) = Fin(s)
<1>1. CASE SkipsGoal(s, z)
  BY <1>1 DEF SkipsGoal, Fin
<1>2. ASSUME NEW q, SkipsPrereq(s, z, q) PROVE Fin(z) = Fin(s)
  <2> DEFINE n == Len(s.stack)
  <2>1. /\ n \in Nat /\ n > 0 /\ Len(z.stack) = n /\ z.seen = s.seen
        /\ \A j \in 1..n - 1 : z.stack[j] = s.stack[j]
        /\ z.stack[n].target = s.stack[n].target
    BY <1>2, Fields DEF SkipsPrereq, Wants, Kept, Frame
  <2>2. \A j \in 1..n : z.stack[j].target = s.stack[j].target
    <3>1. \A j \in 1..n : j \in 1..n - 1 \/ j = n
      BY <2>1
    <3> QED
      BY <2>1, <3>1
  <2> QED
    BY <2>1, <2>2 DEF Fin
<1> QED
  BY <1>1, <1>2

LEMMA FinFinishes ==
  ASSUME NEW rank, Ranks(rank), NEW s \in State, NEW z \in State, Shape(rank, s),
         NEW t, Finishes(s, z, t)
  PROVE  Fin(z) = Fin(s) \cup {t} /\ t \notin Fin(s)
<1> DEFINE n == Len(s.stack)
<1>1. n \in Nat /\ n > 0 /\ n \in 1..n /\ t = s.stack[n].target /\ t \in s.seen /\ Linked(s)
  <2>1. n \in Nat /\ n > 0 /\ Top(s) = s.stack[n] /\ t = Top(s).target
    BY Fields DEF Finishes
  <2>2. n \in 1..n /\ t = s.stack[n].target
    BY <2>1
  <2>3. s.stack[n].target \in s.seen /\ Linked(s)
    BY <2>2 DEF Shape, Framed
  <2> QED
    BY <2>1, <2>2, <2>3
<1>2. Resumes(s, z, n - 1)
  BY <1>1, Resuming
<1>3. Len(z.stack) = n - 1 /\ z.seen = s.seen
  BY <1>2 DEF Resumes
<1>4. \A j \in 1..n - 1 : z.stack[j].target = s.stack[j].target /\ s.stack[j].target # t
  <2> SUFFICES ASSUME NEW j \in 1..n - 1 PROVE z.stack[j].target = s.stack[j].target /\ s.stack[j].target # t
    OBVIOUS
  <2>1. j \in 1..(n - 1) - 1 \/ j = n - 1
    BY <1>1
  <2>2. z.stack[j].target = s.stack[j].target
    BY <1>1, <1>2, <2>1 DEF Resumes
  <2>3. Lower(rank, t, s.stack[j].target)
    BY <1>1 DEF Shape, Falling
  <2> QED
    BY <2>2, <2>3, LowerOrder
<1>5. \A j \in 1..n : j \in 1..n - 1 \/ j = n
  BY <1>1
<1>6. \A j \in 1..n - 1 : j \in 1..n
  BY <1>1
<1> HIDE DEF n
<1>7. Fin(z) \subseteq Fin(s) \cup {t}
  BY <1>1, <1>3, <1>4, <1>5 DEF Fin, n
<1>8. Fin(s) \cup {t} \subseteq Fin(z)
  BY <1>1, <1>3, <1>4, <1>6 DEF Fin, n
<1>9. t \notin Fin(s)
  BY <1>1 DEF Fin, n
<1> QED
  BY <1>7, <1>8, <1>9

(* A wanted target that make has come to is finished with.                 *)
LEMMA WantedIsFin ==
  ASSUME NEW rank, Ranks(rank), NEW s \in State, Shape(rank, s), NEW q \in s.seen, Wants(s, q)
  PROVE  q \in Fin(s)
BY WantedIsLower DEF Fin

PassedIsFin(s) == \A j \in 1..Len(s.stack) : \A i \in 1..s.stack[j].next - 1 :
                     Prereqs[s.stack[j].target][i] \in Fin(s)

RecipesDone(s) == \A t \in Fin(s) : t \in RecipeTarget => \E i \in 1..Len(s.order) : s.order[i] = t

(* Every recipe comes after those whose results it uses.                   *)
NeedsBefore(order) == \A k \in 1..Len(order) :
    /\ \A r \in Needs(order[k]) : \E i \in 1..k - 1 : order[i] = r
    /\ FitsSource(order[k])

Progress(s) == PassedIsFin(s) /\ ClosedUnder(Fin(s)) /\ RecipesDone(s) /\ NeedsBefore(s.order)

LEMMA ProgressStarts ==
  ASSUME NEW rank, NEW s \in State, NEW z \in State, Shape(rank, s), Progress(s),
         NEW q \in Target, Starts(s, z, q)
  PROVE  Progress(z)
<1> DEFINE n == Len(s.stack)
<1>1. Fin(z) = Fin(s) /\ z.order = s.order
  BY FinStarts DEF Starts
<1>2. PassedIsFin(z)
  <2>1. /\ n \in Nat /\ Len(z.stack) = n + 1 /\ z.stack[n + 1].next = 1
        /\ \A j \in 1..n : z.stack[j] = s.stack[j]
    BY Fields, FrameType DEF Starts, Kept
  <2>2. ASSUME NEW j \in 1..n + 1, NEW i \in 1..z.stack[j].next - 1
        PROVE  Prereqs[z.stack[j].target][i] \in Fin(s)
    <3>1. j \in 1..n
      BY <2>1, <2>2
    <3> QED
      BY <2>1, <3>1 DEF Progress, PassedIsFin
  <2> QED
    BY <1>1, <2>1, <2>2 DEF PassedIsFin
<1> QED
  BY <1>1, <1>2 DEF Progress, RecipesDone

(* The frames that a step leaves have what they have passed finished with, *)
(* if what the last of them has just passed is.                            *)
LEMMA PassedResumes ==
  ASSUME NEW s \in State, NEW z \in State, PassedIsFin(s), NEW n \in Nat, Resumes(s, z, n),
         Fin(s) \subseteq Fin(z),
         n > 0 => Prereqs[s.stack[n].target][s.stack[n].next] \in Fin(z)
  PROVE  PassedIsFin(z)
<1>1. /\ Len(s.stack) \in Nat /\ n <= Len(s.stack) /\ Len(z.stack) = n
      /\ \A j \in 1..n - 1 : z.stack[j] = s.stack[j]
      /\ \A j \in 1..n : s.stack[j].next \in Nat
  BY Fields DEF Resumes
<1>2. ASSUME NEW j \in 1..n, NEW i \in 1..z.stack[j].next - 1
      PROVE  Prereqs[z.stack[j].target][i] \in Fin(z)
  <2>1. j \in 1..Len(s.stack) /\ s.stack[j].next \in Nat
    BY <1>1
  <2>2. \A k \in 1..s.stack[j].next - 1 : Prereqs[s.stack[j].target][k] \in Fin(z)
    BY <2>1 DEF PassedIsFin
  <2>3. CASE j = n
    <3>1. z.stack[j].target = s.stack[j].target /\ z.stack[j].next = s.stack[j].next + 1
      BY <2>3 DEF Resumes
    <3>2. i \in 1..s.stack[j].next - 1 \/ i = s.stack[j].next
      BY <2>1, <3>1
    <3> QED
      BY <2>2, <2>3, <3>1, <3>2
  <2>4. CASE j # n
    <3>1. z.stack[j] = s.stack[j]
      BY <1>1, <2>4
    <3> QED
      BY <2>2, <3>1
  <2> QED
    BY <2>3, <2>4
<1> QED
  BY <1>1, <1>2 DEF PassedIsFin

LEMMA ProgressSkips ==
  ASSUME NEW rank, Ranks(rank), NEW s \in State, NEW z \in State, Shape(rank, s), Progress(s),
         SkipsGoal(s, z) \/ \E q : SkipsPrereq(s, z, q)
  PROVE  Progress(z)
<1>1. Fin(z) = Fin(s) /\ z.order = s.order
  BY FinSkips DEF SkipsGoal, SkipsPrereq
<1>2. PassedIsFin(z)
  <2>1. CASE SkipsGoal(s, z)
    BY <2>1, Fields DEF SkipsGoal, PassedIsFin
  <2>2. ASSUME NEW q, SkipsPrereq(s, z, q) PROVE PassedIsFin(z)
    <3> DEFINE n == Len(s.stack)
    <3>1. Wants(s, q) /\ q \in s.seen
      BY <2>2 DEF SkipsPrereq
    <3>2. q \in Fin(s)
      BY <3>1, WantedIsFin
    <3>3. n \in Nat /\ Prereqs[s.stack[n].target][s.stack[n].next] = q
      BY <3>1, Fields DEF Wants
    <3>4. Resumes(s, z, n)
      BY <2>2, Resuming DEF Shape
    <3> HIDE DEF n
    <3> QED
      BY <1>1, <3>2, <3>3, <3>4, PassedResumes DEF Progress
  <2> QED
    BY <2>1, <2>2
<1> QED
  BY <1>1, <1>2 DEF Progress, RecipesDone

(* What a recipe needs has been done when its turn comes.                  *)
LEMMA TopNeeds ==
  ASSUME NEW rank, NEW s \in State, Shape(rank, s), Progress(s), Len(s.stack) > 0
  PROVE  Needs(Top(s).target) \subseteq Fin(s) /\ FitsSource(Top(s).target)
<1> DEFINE n == Len(s.stack)
           t == Top(s).target
<1>1. n \in Nat /\ n > 0 /\ t = s.stack[n].target
  BY Fields
<1>2. CASE n = 1
  <2>1. t \in Goal
    BY <1>1, <1>2 DEF Shape, Grounded
  <2>2. t[1] \in Phony \cup TopLevel
    BY <2>1 DEF Goal
  <2>3. t[1] \notin {".stamp_patched", ".stamp_configured", ".stamp_built"} \cup Installing
    BY <2>2 DEF Phony, TopLevel, Installing, InstallStamp, Area
  <2>4. FitsSource(t)
    BY <2>2 DEF FitsSource, Phony, TopLevel
  <2> QED
    BY <2>3, <2>4, NoNeeds
<1>3. CASE n # 1
  <2> DEFINE f == s.stack[n - 1]
  <2>1. n - 1 \in 1..n - 1 /\ n - 1 \in 1..n /\ (n - 1) + 1 = n
    <3> HIDE DEF n
    <3> QED
      BY <1>1, <1>3
  <2>2. f.target \in Target /\ f.next \in Nat /\ f.next <= Len(Prereqs[f.target]) /\ t = Prereqs[f.target][f.next]
    BY <1>1, <2>1, Fields DEF Shape, Linked
  <2>3. f.next \in 1..Len(Prereqs[f.target]) + 1
    BY <2>1 DEF Shape, Framed
  <2>4. \A i \in 1..f.next - 1 : Prereqs[f.target][i] \in Fin(s)
    BY <2>1 DEF Progress, PassedIsFin
  <2>5. f.next \in DOMAIN Prereqs[f.target]
    BY <2>2, <2>3, Edges DEF EdgesTo
  <2> HIDE DEF f, t
  <2> QED
    BY <2>2, <2>4, <2>5, NeedsFinished DEF Progress, t
<1> QED
  BY <1>2, <1>3

LEMMA AppendedOrder ==
  ASSUME NEW order \in Seq(RecipeTarget), NEW t \in RecipeTarget
  PROVE  /\ Append(order, t) \in Seq(RecipeTarget) /\ Len(Append(order, t)) = Len(order) + 1
         /\ \A i \in 1..Len(order) : Append(order, t)[i] = order[i]
         /\ Append(order, t)[Len(order) + 1] = t
OBVIOUS

LEMMA FinishedOrder ==
  ASSUME NEW s \in State, NEW z \in State, NEW t, Finishes(s, z, t)
  PROVE  /\ Len(s.order) \in Nat /\ Len(z.order) \in Nat /\ Len(s.order) <= Len(z.order)
         /\ \A i \in 1..Len(s.order) : z.order[i] = s.order[i]
         /\ t \in RecipeTarget => Len(z.order) = Len(s.order) + 1 /\ z.order[Len(s.order) + 1] = t
         /\ t \notin RecipeTarget => Len(z.order) = Len(s.order)
<1>1. s.order \in Seq(RecipeTarget)
  BY Fields
<1> QED
  BY <1>1, AppendedOrder DEF Finishes

LEMMA ProgressFinishes ==
  ASSUME NEW rank, Ranks(rank), NEW s \in State, NEW z \in State, Shape(rank, s), Progress(s),
         NEW t \in Target, Finishes(s, z, t)
  PROVE  Progress(z)
<1> DEFINE n == Len(s.stack)
<1>1. n \in Nat /\ n > 0 /\ t = s.stack[n].target /\ t = Top(s).target /\ s.order \in Seq(RecipeTarget)
  BY Fields DEF Finishes
<1>2. Fin(z) = Fin(s) \cup {t}
  BY FinFinishes
<1>3. /\ Len(s.order) \in Nat /\ Len(z.order) \in Nat /\ Len(s.order) <= Len(z.order)
      /\ \A i \in 1..Len(s.order) : z.order[i] = s.order[i]
      /\ t \in RecipeTarget => Len(z.order) = Len(s.order) + 1 /\ z.order[Len(s.order) + 1] = t
      /\ t \notin RecipeTarget => Len(z.order) = Len(s.order)
  BY FinishedOrder
<1>4. PassedIsFin(z)
  <2>1. Resumes(s, z, n - 1)
    BY Resuming DEF Shape
  <2>2. n - 1 > 0 => Prereqs[s.stack[n - 1].target][s.stack[n - 1].next] = t
    <3>1. n - 1 > 0 => n - 1 \in 1..n - 1 /\ (n - 1) + 1 = n
      <4> HIDE DEF n
      <4> QED
        BY <1>1
    <3>2. Linked(s)
      BY DEF Shape
    <3> QED
      BY <1>1, <3>1, <3>2 DEF Linked
  <2>3. n - 1 \in Nat
    BY <1>1
  <2> QED
    BY <1>2, <2>1, <2>2, <2>3, PassedResumes DEF Progress
<1>5. ClosedUnder(Fin(z))
  <2>1. ASSUME NEW i \in DOMAIN Prereqs[t] PROVE Prereqs[t][i] \in Fin(s)
    <3>1. Prereqs[t] \in Seq(Target) /\ s.stack[n].next \in Nat /\ s.stack[n].next > Len(Prereqs[t])
      BY <1>1, Fields, Edges DEF Finishes, EdgesTo
    <3>2. i \in 1..s.stack[n].next - 1 /\ n \in 1..n
      BY <1>1, <3>1
    <3> QED
      BY <1>1, <3>2 DEF Progress, PassedIsFin
  <2>2. AllIn(Fin(z), Prereqs[t])
    BY <1>2, <2>1 DEF AllIn
  <2>3. ASSUME NEW r \in Fin(s) PROVE AllIn(Fin(z), Prereqs[r])
    BY <1>2 DEF Progress, ClosedUnder, AllIn
  <2> QED
    BY <1>2, <2>2, <2>3 DEF ClosedUnder
<1>6. RecipesDone(z)
  <2>1. ASSUME NEW r \in Fin(z), r \in RecipeTarget PROVE \E i \in 1..Len(z.order) : z.order[i] = r
    <3>1. CASE r = t
      <4>1. Len(s.order) + 1 \in 1..Len(z.order) /\ z.order[Len(s.order) + 1] = r
        BY <1>3, <2>1, <3>1
      <4> QED
        BY <4>1
    <3>2. CASE r \in Fin(s)
      <4>1. PICK i \in 1..Len(s.order) : s.order[i] = r
        BY <2>1, <3>2 DEF Progress, RecipesDone
      <4>2. i \in 1..Len(z.order) /\ z.order[i] = r
        BY <1>3, <4>1
      <4> QED
        BY <4>2
    <3> QED
      BY <1>2, <3>1, <3>2
  <2> QED
    BY <2>1 DEF RecipesDone
<1>7. NeedsBefore(z.order)
  <2>1. ASSUME NEW k \in 1..Len(z.order)
        PROVE  /\ \A r \in Needs(z.order[k]) : \E i \in 1..k - 1 : z.order[i] = r
               /\ FitsSource(z.order[k])
    <3>1. CASE k \in 1..Len(s.order)
      <4>1. z.order[k] = s.order[k] /\ FitsSource(s.order[k])
        BY <1>3, <3>1 DEF Progress, NeedsBefore
      <4>2. ASSUME NEW r \in Needs(s.order[k]) PROVE \E i \in 1..k - 1 : z.order[i] = r
        <5>1. PICK i \in 1..k - 1 : s.order[i] = r
          BY <3>1, <4>2 DEF Progress, NeedsBefore
        <5>2. z.order[i] = s.order[i]
          BY <1>3, <3>1
        <5> QED
          BY <5>1, <5>2
      <4> QED
        BY <4>1, <4>2
    <3>2. CASE k \notin 1..Len(s.order)
      <4>1. t \in RecipeTarget /\ k = Len(s.order) + 1 /\ z.order[k] = t
        BY <1>3, <2>1, <3>2
      <4>2. Needs(t) \subseteq Fin(s) /\ FitsSource(t)
        BY <1>1, TopNeeds
      <4>3. ASSUME NEW r \in Needs(t) PROVE \E i \in 1..k - 1 : z.order[i] = r
        <5>1. r \in RecipeTarget
          <6>1. CASE t[2] \in Pkg
            <7>1. r \in Stamp \X Pkg
              BY <4>1, <6>1, NeedsType
            <7> QED
              BY <7>1 DEF RecipeTarget, RecipeVerb
          <6>2. CASE t[2] \notin Pkg
            <7>1. t[1] \in TopLevel
              BY <4>1, <6>2 DEF RecipeTarget, Target
            <7>2. t[1] \notin {".stamp_patched", ".stamp_configured", ".stamp_built"} \cup Installing
              BY <7>1 DEF TopLevel, Installing, InstallStamp, Area
            <7> QED
              BY <4>3, <7>2, NoNeeds
          <6> QED
            BY <6>1, <6>2
        <5>2. PICK i \in 1..Len(s.order) : s.order[i] = r
          BY <4>2, <5>1 DEF Progress, RecipesDone
        <5>3. z.order[i] = r /\ i \in 1..k - 1
          BY <1>3, <4>1, <5>2
        <5> QED
          BY <5>3
      <4> QED
        BY <4>1, <4>2, <4>3
    <3> QED
      BY <3>1, <3>2
  <2> QED
    BY <2>1 DEF NeedsBefore
<1> QED
  BY <1>4, <1>5, <1>6, <1>7 DEF Progress
-----------------------------------------------------------------------------
(* The commands that take stamps away: the ones of RemovesFirst come       *)
(* before all others, the ones of RemovesLast after them.                  *)
Early(order) == \A i \in 1..Len(order) : order[i][1] \in RemovesFirst
Late(order) == \E i \in 1..Len(order) : order[i][1] \in RemovesLast

Tidy(order) == \A j \in 1..Len(order) : \A i \in 1..j - 1 :
    /\ order[j][1] \in RemovesFirst => order[i][1] \in RemovesFirst
    /\ order[i][1] \in RemovesLast => order[j][1] \in RemovesLast

CleansBefore(order) == \A k \in 1..Len(order) :
    order[k][1] = "clean-for-reconfigure" =>
       k > 1 /\ order[k - 1] = <<"clean-for-rebuild", order[k][2]>>

(* Of the goals of a line, only the last is not a dirclean.                *)
GoalsLeft(s) ==
    /\ \A i \in 1..Len(s.goals) - 1 : s.goals[i][1] = "dirclean"
    /\ s.goals # <<>> => /\ Early(s.order)
                         /\ \A t \in s.seen : t[1] \in {"dirclean", ".stamp_dircleaned"}

(* A target that still has to take stamps away before the rest.            *)
Opening(f) == f.target[1] \in RemovesFirst \/ (f.target[1] \in Openers /\ f.next = 1)

Opened(s) == \A j \in 1..Len(s.stack) : Opening(s.stack[j]) =>
    /\ Early(s.order)
    /\ \A k \in j + 1..Len(s.stack) : s.stack[k].target[1] \in RemovesFirst

(* A clean-for-reconfigure comes to its clean-for-rebuild first.           *)
Reconfiguring(s) == Len(s.stack) > 0 =>
    /\ Top(s).target[1] \in {"reconfigure", "clean-for-reconfigure"} /\ Top(s).next = 1 =>
          \A t \in s.seen : t[1] # "clean-for-rebuild"
    /\ Top(s).target[1] = "clean-for-reconfigure" /\ Top(s).next # 1 =>
          /\ Len(s.order) > 0
          /\ s.order[Len(s.order)] = <<"clean-for-rebuild", Top(s).target[2]>>

(* What is left to do once a stamp is uninstalled or cleaned.              *)
Closing(f, last) ==
    \/ f.target[1] \in RemovesLast
    \/ f.target[1] = "uninstall" /\ f.next > 1
    \/ f.target[1] = "clean" /\ (f.next > 1 \/ ~last)

Closed(s) ==
    /\ \A j \in 1..Len(s.stack) : s.stack[j].target[1] \in RemovesLast \cup Closers =>
          \A i \in 1..j - 1 : s.stack[i].target[1] \in Closers
    /\ Late(s.order) => /\ s.goals = <<>>
                        /\ \A j \in 1..Len(s.stack) : Closing(s.stack[j], j = Len(s.stack))

Phases(s) ==
    /\ GoalsLeft(s) /\ Opened(s) /\ Reconfiguring(s) /\ Closed(s)
    /\ Tidy(s.order) /\ CleansBefore(s.order)

(* From one target make is in the middle of to the next leads an edge.     *)
LEMMA LinkedEdges ==
  ASSUME NEW rank, NEW s \in State, Shape(rank, s), NEW j \in 1..Len(s.stack) - 1
  PROVE  /\ Edge(s.stack[j].target, s.stack[j].next, s.stack[j + 1].target)
         /\ s.stack[j].target \in Target /\ s.stack[j + 1].target \in Target
<1>1. Len(s.stack) \in Nat /\ j \in 1..Len(s.stack) /\ j + 1 \in 1..Len(s.stack)
  BY Fields
<1>2. s.stack[j].target \in Target /\ s.stack[j + 1].target \in Target
  BY <1>1, Fields
<1>3. s.stack[j].next \in 1..Len(Prereqs[s.stack[j].target])
  <2>1. Len(Prereqs[s.stack[j].target]) \in Nat
    BY <1>2, Edges DEF EdgesTo
  <2>2. s.stack[j].next \in 1..Len(Prereqs[s.stack[j].target]) + 1
    BY <1>1 DEF Shape, Framed
  <2>3. s.stack[j].next <= Len(Prereqs[s.stack[j].target])
    BY DEF Shape, Linked
  <2> QED
    BY <2>1, <2>2, <2>3
<1>4. Prereqs[s.stack[j].target][s.stack[j].next] = s.stack[j + 1].target
  BY DEF Shape, Linked
<1> QED
  BY <1>2, <1>3, <1>4, Edges DEF EdgesTo

(* A target that make enters is a goal of the line or wanted by the top.   *)
LEMMA StartsFrames ==
  ASSUME NEW s \in State, NEW z \in State, NEW q, Starts(s, z, q)
  PROVE  /\ Len(s.stack) \in Nat /\ Len(z.stack) = Len(s.stack) + 1
         /\ \A j \in 1..Len(s.stack) : z.stack[j] = s.stack[j]
         /\ z.stack[Len(s.stack) + 1].target = q /\ z.stack[Len(s.stack) + 1].next = 1
         /\ Top(z).target = q /\ Top(z).next = 1
         /\ z.order = s.order /\ z.seen = s.seen \cup {q}
         /\ \A j \in 1..Len(z.stack) : j \in 1..Len(s.stack) \/ j = Len(s.stack) + 1
<1>1. Len(s.stack) \in Nat /\ Len(z.stack) = Len(s.stack) + 1 /\ Top(z) = z.stack[Len(z.stack)]
  BY Fields DEF Starts
<1>2. z.stack[Len(s.stack) + 1] = Frame(q, 1) /\ \A j \in 1..Len(s.stack) : z.stack[j] = s.stack[j]
  BY DEF Starts, Kept
<1>3. z.stack[Len(s.stack) + 1].target = q /\ z.stack[Len(s.stack) + 1].next = 1
  BY <1>2 DEF Frame
<1>4. \A j \in 1..Len(z.stack) : j \in 1..Len(s.stack) \/ j = Len(s.stack) + 1
  BY <1>1
<1> QED
  BY <1>1, <1>2, <1>3, <1>4 DEF Starts

LEMMA GoalStarts ==
  ASSUME NEW s \in State, NEW z \in State, Phases(s), NEW q \in Target,
         Starts(s, z, q), StartsGoal(s, z, q)
  PROVE  Phases(z)
<1>1. Len(s.stack) = 0 /\ s.goals \in Seq(Goal) /\ s.goals # <<>> /\ z.goals = Tail(s.goals) /\ q = Head(s.goals)
  BY Fields DEF StartsGoal
<1>2. /\ Len(z.stack) = 1 /\ z.stack[1].target = q /\ z.stack[1].next = 1
      /\ Top(z).target = q /\ Top(z).next = 1
      /\ z.order = s.order /\ z.seen = s.seen \cup {q}
  <2> DEFINE n == Len(s.stack)
  <2>1. /\ Len(z.stack) = n + 1 /\ z.stack[n + 1].target = q /\ z.stack[n + 1].next = 1
        /\ Top(z).target = q /\ Top(z).next = 1 /\ z.order = s.order /\ z.seen = s.seen \cup {q}
    BY StartsFrames
  <2>2. n + 1 = 1
    BY <1>1
  <2> HIDE DEF n
  <2> QED
    BY <2>1, <2>2
<1>3. Early(s.order) /\ \A t \in s.seen : t[1] \in {"dirclean", ".stamp_dircleaned"}
  BY <1>1 DEF Phases, GoalsLeft
<1>4. GoalsLeft(z)
  <2>1. /\ \A i \in 1..Len(z.goals) - 1 : z.goals[i] = s.goals[i + 1] /\ i + 1 \in 1..Len(s.goals) - 1
        /\ z.goals # <<>> => 1 \in 1..Len(s.goals) - 1 /\ q = s.goals[1]
    BY <1>1
  <2>2. \A i \in 1..Len(z.goals) - 1 : z.goals[i][1] = "dirclean"
    BY <2>1 DEF Phases, GoalsLeft
  <2>3. z.goals # <<>> => q[1] = "dirclean"
    BY <2>1 DEF Phases, GoalsLeft
  <2> QED
    BY <1>2, <1>3, <2>2, <2>3 DEF GoalsLeft
<1>5. Opened(z)
  BY <1>2, <1>3 DEF Opened
<1>6. Reconfiguring(z)
  BY <1>2, <1>3 DEF Reconfiguring
<1>7. Closed(z)
  <2>1. ~Late(s.order)
    BY <1>1 DEF Phases, Closed
  <2> QED
    BY <1>2, <2>1 DEF Closed
<1> QED
  BY <1>2, <1>4, <1>5, <1>6, <1>7 DEF Phases

LEMMA PrereqStarts ==
  ASSUME NEW rank, Ranks(rank), NEW s \in State, NEW z \in State, Shape(rank, s), Phases(s),
         NEW q \in Target, Starts(s, z, q), StartsPrereq(s, z, q)
  PROVE  Phases(z)
<1> DEFINE n == Len(s.stack)
           f == s.stack[n]
<1>1. n \in Nat /\ n > 0 /\ n \in 1..n /\ f = Top(s) /\ Wants(s, q) /\ z.goals = s.goals
  BY Fields DEF StartsPrereq, Wants
<1>2. /\ Len(z.stack) = n + 1 /\ \A j \in 1..n : z.stack[j] = s.stack[j]
      /\ z.stack[n + 1].target = q /\ z.stack[n + 1].next = 1
      /\ Top(z).target = q /\ Top(z).next = 1
      /\ z.order = s.order /\ z.seen = s.seen \cup {q}
      /\ \A j \in 1..n + 1 : j \in 1..n \/ j = n + 1
  BY StartsFrames
<1>3. Edge(f.target, f.next, q) /\ f.target \in Target /\ f.target \in s.seen
  BY <1>1, WantedIsLower, Fields DEF Shape, Framed
<1> HIDE DEF n, f
<1>4. GoalsLeft(z)
  <2>1. s.goals # <<>> => q[1] = ".stamp_dircleaned"
    BY <1>3, EdgeFacts DEF Phases, GoalsLeft
  <2> QED
    BY <1>1, <1>2, <2>1 DEF Phases, GoalsLeft
<1>5. Opened(z)
  <2>1. Opening(f) => Early(s.order) /\ q[1] \in RemovesFirst
    BY <1>1, <1>3, EdgeFacts DEF Phases, Opened, Opening, n, f
  <2>2. ASSUME NEW j \in 1..n, Opening(s.stack[j])
        PROVE  /\ Early(s.order) /\ q[1] \in RemovesFirst
               /\ \A k \in j + 1..n : s.stack[k].target[1] \in RemovesFirst
    <3>1. Early(s.order) /\ \A k \in j + 1..n : s.stack[k].target[1] \in RemovesFirst
      BY <2>2 DEF Phases, Opened, n
    <3>2. CASE j = n
      BY <2>1, <2>2, <3>1, <3>2 DEF f
    <3>3. CASE j # n
      <4>1. n \in j + 1..n
        BY <1>1, <3>3
      <4>2. f.target[1] \in RemovesFirst
        BY <3>1, <4>1 DEF f
      <4> QED
        BY <2>1, <3>1, <4>2 DEF Opening
    <3> QED
      BY <3>2, <3>3
  <2>3. q[1] \in RemovesFirst => Opening(f)
    BY <1>3, EdgeFacts DEF Opening
  <2>4. q[1] \notin Openers
    BY <1>3, EdgeFacts
  <2>5. ASSUME NEW j \in 1..n + 1, Opening(z.stack[j])
        PROVE  Early(z.order) /\ \A k \in j + 1..n + 1 : z.stack[k].target[1] \in RemovesFirst
    <3>1. CASE j \in 1..n
      <4>1. \A k \in j + 1..n + 1 : k \in j + 1..n \/ k = n + 1
        BY <1>1, <3>1
      <4>2. \A k \in j + 1..n : k \in 1..n
        BY <1>1, <3>1
      <4> QED
        BY <1>2, <2>2, <2>5, <3>1, <4>1, <4>2
    <3>2. CASE j = n + 1
      <4>1. q[1] \in RemovesFirst
        BY <1>2, <2>4, <2>5, <3>2 DEF Opening
      <4>2. \A k \in j + 1..n + 1 : FALSE
        BY <1>1, <3>2
      <4> QED
        BY <1>2, <2>1, <2>3, <4>1, <4>2
    <3> QED
      BY <1>2, <3>1, <3>2
  <2> QED
    BY <1>2, <2>5 DEF Opened
<1>6. Reconfiguring(z)
  <2>1. CASE q[1] = "clean-for-reconfigure"
    <3>1. f.target[1] = "reconfigure" /\ f.next = 1
      BY <1>3, <2>1, EdgeFacts DEF RemovesFirst
    <3>2. \A t \in s.seen : t[1] # "clean-for-rebuild"
      BY <1>1, <3>1 DEF Phases, Reconfiguring, n
    <3> QED
      BY <1>2, <2>1, <3>2 DEF Reconfiguring
  <2>2. CASE q[1] # "clean-for-reconfigure"
    <3>1. q[1] # "reconfigure"
      BY <1>3, EdgeFacts DEF Openers
    <3> QED
      BY <1>2, <2>2, <3>1 DEF Reconfiguring
  <2> QED
    BY <2>1, <2>2
<1>7. Closed(z)
  <2>1. ASSUME NEW j \in 1..n + 1, z.stack[j].target[1] \in RemovesLast \cup Closers, NEW i \in 1..j - 1
        PROVE  z.stack[i].target[1] \in Closers
    <3>1. i \in 1..n /\ z.stack[i] = s.stack[i]
      BY <1>1, <1>2
    <3>2. CASE j \in 1..n
      BY <1>2, <2>1, <3>1, <3>2 DEF Phases, Closed, n
    <3>3. CASE j = n + 1
      <4>1. f.target[1] \in Closers
        BY <1>2, <1>3, <2>1, <3>3, EdgeFacts
      <4>2. i = n \/ i \in 1..n - 1
        BY <1>1, <3>1
      <4> QED
        BY <1>1, <3>1, <4>1, <4>2 DEF Phases, Closed, n, f
    <3> QED
      BY <1>2, <3>2, <3>3
  <2>2. ASSUME Late(s.order) PROVE \A j \in 1..n + 1 : Closing(z.stack[j], j = n + 1)
    <3>1. \A j \in 1..n : Closing(s.stack[j], j = n)
      BY <2>2 DEF Phases, Closed, n
    <3>2. f.target[1] \in Closers /\ f.next # 1
      <4>1. Closing(f, TRUE)
        BY <1>1, <3>1 DEF f
      <4>2. f.target[1] \notin RemovesLast /\ f.next \in Nat
        BY <1>1, <1>3, EdgeFacts, Fields DEF n, f
      <4> QED
        BY <4>1, <4>2 DEF Closing, Closers
    <3>3. q[1] \in RemovesLast
      BY <1>3, <3>2, EdgeFacts
    <3>4. ASSUME NEW j \in 1..n + 1 PROVE Closing(z.stack[j], j = n + 1)
      <4>1. CASE j = n + 1
        BY <1>2, <3>3, <4>1 DEF Closing
      <4>2. CASE j \in 1..n
        <5>1. z.stack[j] = s.stack[j] /\ j # n + 1
          BY <1>1, <1>2, <4>2
        <5> QED
          BY <3>1, <4>2, <5>1 DEF Closing
      <4> QED
        BY <1>2, <4>1, <4>2
    <3> QED
      BY <3>4
  <2>3. Late(s.order) => s.goals = <<>>
    BY DEF Phases, Closed
  <2> QED
    BY <1>1, <1>2, <2>1, <2>2, <2>3 DEF Closed
<1> QED
  BY <1>2, <1>4, <1>5, <1>6, <1>7 DEF Phases
LEMMA PhasesSkips ==
  ASSUME NEW rank, Ranks(rank), NEW s \in State, NEW z \in State, Shape(rank, s), Phases(s),
         SkipsGoal(s, z) \/ \E q : SkipsPrereq(s, z, q)
  PROVE  Phases(z)
<1>1. CASE SkipsGoal(s, z)
  <2>1. /\ Len(s.stack) = 0 /\ s.goals \in Seq(Goal) /\ s.goals # <<>> /\ z.goals = Tail(s.goals)
        /\ z.stack = s.stack /\ z.seen = s.seen /\ z.order = s.order
    BY <1>1, Fields DEF SkipsGoal
  <2>2. GoalsLeft(z)
    <3>1. \A i \in 1..Len(z.goals) - 1 : z.goals[i] = s.goals[i + 1] /\ i + 1 \in 1..Len(s.goals) - 1
      BY <2>1
    <3> QED
      BY <2>1, <3>1 DEF Phases, GoalsLeft
  <2>3. Opened(z) /\ Reconfiguring(z)
    BY <2>1 DEF Opened, Reconfiguring
  <2>4. Closed(z)
    BY <2>1 DEF Phases, Closed
  <2> QED
    BY <2>1, <2>2, <2>3, <2>4 DEF Phases
<1>2. ASSUME NEW q, SkipsPrereq(s, z, q) PROVE Phases(z)
  <2> DEFINE n == Len(s.stack)
             f == s.stack[n]
  <2>1. /\ n \in Nat /\ n > 0 /\ n \in 1..n /\ f = Top(s) /\ Wants(s, q) /\ q \in s.seen
        /\ z.goals = s.goals /\ z.seen = s.seen /\ z.order = s.order
    BY <1>2, Fields DEF SkipsPrereq, Wants
  <2>2. Resumes(s, z, n)
    BY <1>2, Resuming DEF Shape
  <2>3. /\ Len(z.stack) = n /\ \A j \in 1..n - 1 : z.stack[j] = s.stack[j]
        /\ z.stack[n].target = f.target /\ z.stack[n].next = f.next + 1
        /\ \A j \in 1..n : j \in 1..n - 1 \/ j = n
        /\ Top(z) = z.stack[n]
    BY <2>1, <2>2, Fields DEF Resumes
  <2>4. Edge(f.target, f.next, q) /\ f.target \in Target /\ f.next \in Nat /\ f.next > 0 /\ q \in Target
    <3>1. f.target \in Target /\ f.next \in 1..Len(Prereqs[f.target]) + 1
      BY <2>1, Fields DEF Shape, Framed
    <3>2. Edge(f.target, f.next, q) /\ q \in Target
      BY <2>1, WantedIsLower
    <3> QED
      BY <2>1, <3>1, <3>2, Fields
  <2>5. \A j \in 1..n : z.stack[j].target = s.stack[j].target
    BY <2>3
  <2>6. z.stack[n].next # 1 /\ (f.next > 1 => z.stack[n].next > 1)
    BY <2>3, <2>4
  <2> HIDE DEF n, f
  <2>7. GoalsLeft(z)
    BY <2>1 DEF Phases, GoalsLeft
  <2>8. Opened(z)
    <3>1. ASSUME NEW j \in 1..n, Opening(z.stack[j]) PROVE Opening(s.stack[j])
      BY <2>3, <2>5, <2>6, <3>1 DEF Opening
    <3>2. ASSUME NEW j \in 1..n, Opening(z.stack[j])
          PROVE  Early(z.order) /\ \A k \in j + 1..n : z.stack[k].target[1] \in RemovesFirst
      <4>1. Early(s.order) /\ \A k \in j + 1..n : s.stack[k].target[1] \in RemovesFirst
        BY <3>1, <3>2 DEF Phases, Opened, n
      <4>2. \A k \in j + 1..n : k \in 1..n
        BY <2>1
      <4> QED
        BY <2>1, <2>5, <4>1, <4>2
    <3> QED
      BY <2>3, <3>2 DEF Opened
  <2>9. Reconfiguring(z)
    <3>1. z.stack[n].target[1] # "clean-for-reconfigure" \/ f.next # 1
      <4>1. ASSUME f.target[1] = "clean-for-reconfigure", f.next = 1 PROVE FALSE
        <5>1. q[1] = "clean-for-rebuild"
          BY <2>4, <4>1, EdgeFacts
        <5>2. \A t \in s.seen : t[1] # "clean-for-rebuild"
          BY <2>1, <4>1 DEF Phases, Reconfiguring, n
        <5> QED
          BY <2>1, <5>1, <5>2
      <4> QED
        BY <2>3, <4>1
    <3>2. ASSUME f.target[1] = "clean-for-reconfigure", f.next # 1
          PROVE  Len(s.order) > 0 /\ s.order[Len(s.order)] = <<"clean-for-rebuild", f.target[2]>>
      BY <2>1, <3>2 DEF Phases, Reconfiguring, n
    <3> QED
      BY <2>1, <2>3, <2>6, <3>1, <3>2 DEF Reconfiguring
  <2>10. Closed(z)
    <3>1. \A j \in 1..n : z.stack[j].target[1] \in RemovesLast \cup Closers =>
             \A i \in 1..j - 1 : z.stack[i].target[1] \in Closers
      <4>1. \A j \in 1..n : \A i \in 1..j - 1 : i \in 1..n
        BY <2>1
      <4> QED
        BY <2>5, <4>1 DEF Phases, Closed, n
    <3>2. ASSUME Late(s.order), NEW j \in 1..n PROVE Closing(z.stack[j], j = n)
      <4>1. Closing(s.stack[j], j = n)
        BY <3>2 DEF Phases, Closed, n
      <4>2. z.stack[j].target = s.stack[j].target /\ (s.stack[j].next > 1 => z.stack[j].next > 1)
        BY <2>3, <2>5, <2>6 DEF f
      <4> QED
        BY <4>1, <4>2 DEF Closing
    <3>3. Late(s.order) => s.goals = <<>>
      BY DEF Phases, Closed
    <3> QED
      BY <2>1, <2>3, <3>1, <3>2, <3>3 DEF Closed
  <2> QED
    BY <2>1, <2>7, <2>8, <2>9, <2>10 DEF Phases
<1> QED
  BY <1>1, <1>2
LEMMA PhasesFinishes ==
  ASSUME NEW rank, Ranks(rank), NEW s \in State, NEW z \in State, Shape(rank, s), Phases(s),
         NEW t \in Target, Finishes(s, z, t)
  PROVE  Phases(z)
<1> DEFINE n == Len(s.stack)
           m == n - 1
           l == Len(s.order)
           f == s.stack[m]
<1>1. /\ n \in Nat /\ n > 0 /\ n \in 1..n /\ t = s.stack[n].target /\ Top(s) = s.stack[n]
      /\ z.goals = s.goals /\ z.seen = s.seen
  BY Fields DEF Finishes
<1>2. m \in Nat /\ n = m + 1 /\ m <= n
  BY <1>1
<1>3. /\ Len(z.stack) = m /\ Top(z) = z.stack[m] /\ \A j \in 1..m - 1 : z.stack[j] = s.stack[j]
      /\ m > 0 => z.stack[m].target = f.target /\ z.stack[m].next = f.next + 1
  <2>1. Resumes(s, z, m)
    BY Resuming DEF Shape
  <2>2. Top(z) = z.stack[Len(z.stack)]
    BY Fields
  <2> HIDE DEF m
  <2> QED
    BY <2>1, <2>2 DEF Resumes
<1>4. m > 0 => Edge(f.target, f.next, t) /\ f.target \in Target /\ f.next \in Nat /\ f.next > 0
  <2>1. m > 0 => m \in 1..n - 1 /\ m \in 1..n /\ m + 1 = n
    <3> HIDE DEF n
    <3> QED
      BY <1>1
  <2>2. m > 0 => Edge(f.target, f.next, s.stack[m + 1].target)
    BY <2>1, LinkedEdges
  <2>3. m > 0 => f.target \in Target /\ f.next \in 1..Len(Prereqs[f.target]) + 1 /\ f.next \in Nat
    BY <2>1, Fields DEF Shape, Framed
  <2> HIDE DEF n, m, f
  <2> QED
    BY <1>1, <2>1, <2>2, <2>3
<1>5. /\ l \in Nat /\ Len(z.order) \in Nat
      /\ \A i \in 1..l : i \in 1..Len(z.order) /\ z.order[i] = s.order[i]
      /\ \A i \in 1..Len(z.order) : i \in 1..l \/ (i = l + 1 /\ z.order[i] = t /\ t \in RecipeTarget)
      /\ t \in RecipeTarget => Len(z.order) = l + 1 /\ z.order[l + 1] = t
  <2>1. /\ l \in Nat /\ Len(z.order) \in Nat /\ l <= Len(z.order)
        /\ \A i \in 1..l : z.order[i] = s.order[i]
        /\ t \in RecipeTarget => Len(z.order) = l + 1 /\ z.order[l + 1] = t
        /\ t \notin RecipeTarget => Len(z.order) = l
    BY FinishedOrder
  <2> HIDE DEF l
  <2> QED
    BY <2>1
<1>6. /\ \A j \in 1..m : /\ j \in 1..n /\ z.stack[j].target = s.stack[j].target
                         /\ j \in 1..m - 1 \/ (j = m /\ m > 0)
      /\ m > 0 => z.stack[m].next > 1
  <2> HIDE DEF n, m
  <2>1. \A j \in 1..m : j \in 1..n /\ (j \in 1..m - 1 \/ (j = m /\ m > 0))
    BY <1>1, <1>2
  <2>2. \A j \in 1..m : z.stack[j].target = s.stack[j].target
    BY <1>3, <2>1
  <2>3. m > 0 => z.stack[m].next > 1
    BY <1>3, <1>4
  <2> QED
    BY <2>1, <2>2, <2>3
<1>7. t \in s.seen
  BY <1>1 DEF Shape, Framed
<1>8. t \in RecipeTarget => t[1] \notin Openers \cup Closers
  BY DEF RecipeTarget, RecipeVerb, Stamp, Ephemeral, TopLevel, Openers, Closers
<1>9. Early(s.order) /\ t[1] \in RemovesFirst => Early(z.order)
  BY <1>5 DEF Early
<1>10. t[1] \in RemovesFirst => Early(s.order)
  BY <1>1 DEF Phases, Opened, Opening
<1> HIDE DEF n, m, l, f
<1>11. GoalsLeft(z)
  <2>1. s.goals # <<>> => Early(z.order)
    <3> SUFFICES ASSUME s.goals # <<>> PROVE Early(z.order)
      OBVIOUS
    <3>1. Early(s.order) /\ t[1] \in {"dirclean", ".stamp_dircleaned"}
      BY <1>7 DEF Phases, GoalsLeft
    <3>2. CASE t[1] = "dirclean"
      <4>1. t \notin RecipeTarget
        BY <1>8, <3>2 DEF Openers
      <4> QED
        BY <1>5, <3>1, <4>1 DEF Early, l
    <3>3. CASE t[1] = ".stamp_dircleaned"
      BY <1>9, <3>1, <3>3 DEF RemovesFirst
    <3> QED
      BY <3>1, <3>2, <3>3
  <2> QED
    BY <1>1, <2>1 DEF Phases, GoalsLeft
<1>12. Opened(z)
  <2>1. ASSUME NEW j \in 1..m, Opening(z.stack[j]) PROVE Opening(s.stack[j])
    <3>1. CASE j \in 1..m - 1
      BY <1>3, <2>1, <3>1
    <3>2. CASE j = m /\ m > 0
      <4>1. z.stack[j].next # 1
        BY <1>3, <1>4, <3>2
      <4> QED
        BY <1>6, <2>1, <4>1 DEF Opening
    <3> QED
      BY <1>6, <3>1, <3>2
  <2>2. ASSUME NEW j \in 1..m, Opening(z.stack[j])
        PROVE  Early(z.order) /\ \A k \in j + 1..m : z.stack[k].target[1] \in RemovesFirst
    <3>1. j \in 1..n /\ n \in j + 1..n /\ \A k \in j + 1..m : k \in j + 1..n /\ k \in 1..m
      BY <1>1, <1>2
    <3>2. Early(s.order) /\ \A k \in j + 1..n : s.stack[k].target[1] \in RemovesFirst
      BY <2>1, <2>2, <3>1 DEF Phases, Opened, n
    <3>3. Early(z.order)
      BY <1>1, <1>9, <3>1, <3>2
    <3> QED
      BY <1>6, <3>1, <3>2, <3>3
  <2> QED
    BY <1>3, <2>2 DEF Opened
<1>13. Reconfiguring(z)
  <2>1. ASSUME m > 0, f.target[1] = "clean-for-reconfigure"
        PROVE  Len(z.order) > 0 /\ z.order[Len(z.order)] = <<"clean-for-rebuild", f.target[2]>>
    <3>1. t[1] = "clean-for-rebuild" /\ t[2] = f.target[2]
      BY <1>4, <2>1, EdgeFacts
    <3>2. t \in RecipeTarget /\ t = <<"clean-for-rebuild", f.target[2]>>
      BY <3>1 DEF Target, RecipeTarget, RecipeVerb, TopLevel
    <3> QED
      BY <1>5, <3>2
  <2>2. m > 0 => z.stack[m].next # 1
    BY <1>3, <1>4
  <2> QED
    BY <1>3, <2>1, <2>2 DEF Reconfiguring
<1>14. Closed(z)
  <2>1. \A j \in 1..m : z.stack[j].target[1] \in RemovesLast \cup Closers =>
           \A i \in 1..j - 1 : z.stack[i].target[1] \in Closers
    <3>1. \A j \in 1..m : \A i \in 1..j - 1 : i \in 1..m
      BY <1>2
    <3> QED
      BY <1>6, <3>1 DEF Phases, Closed, n
  <2>2. CASE Late(s.order)
    <3>1. s.goals = <<>> /\ \A j \in 1..n : Closing(s.stack[j], j = n)
      BY <2>2 DEF Phases, Closed, n
    <3>2. ASSUME NEW j \in 1..m PROVE Closing(z.stack[j], j = m)
      <4>1. Closing(s.stack[j], FALSE)
        <5>1. j \in 1..n /\ j # n
          BY <1>2, <1>6
        <5>2. Closing(s.stack[j], j = n)
          BY <3>1, <5>1
        <5> QED
          BY <5>1, <5>2 DEF Closing
      <4>2. CASE j \in 1..m - 1
        <5>1. j # m /\ z.stack[j] = s.stack[j]
          BY <1>2, <1>3, <4>2
        <5> QED
          BY <4>1, <5>1 DEF Closing
      <4>3. CASE j = m /\ m > 0
        BY <1>6, <4>1, <4>3 DEF Closing
      <4> QED
        BY <1>6, <4>2, <4>3
    <3> QED
      BY <1>1, <1>3, <2>1, <3>1, <3>2 DEF Closed
  <2>3. CASE ~Late(s.order) /\ Late(z.order)
    <3>1. t[1] \in RemovesLast
      BY <1>5, <2>3 DEF Late, l
    <3>2. s.goals = <<>>
      BY <1>7, <3>1 DEF Phases, GoalsLeft, RemovesLast
    <3>3. \A i \in 1..m : s.stack[i].target[1] \in Closers
      <4>1. \A i \in 1..m : i \in 1..n - 1
        BY <1>2
      <4> QED
        BY <1>1, <3>1, <4>1 DEF Phases, Closed, n
    <3>4. ASSUME NEW j \in 1..m PROVE Closing(z.stack[j], j = m)
      <4>1. CASE j \in 1..m - 1
        <5>1. j \in 1..n - 1 /\ j + 1 \in 1..m /\ j # m
          BY <1>2, <4>1
        <5>2. Edge(s.stack[j].target, s.stack[j].next, s.stack[j + 1].target)
              /\ s.stack[j].target \in Target /\ s.stack[j + 1].target \in Target
          BY <5>1, LinkedEdges DEF n
        <5>3. s.stack[j].target[1] \in Closers /\ s.stack[j + 1].target[1] \in Closers
          BY <3>3, <5>1
        <5>4. s.stack[j].target[1] # "uninstall"
          <6>1. s.stack[j].next # 1 => s.stack[j + 1].target[1] \in RemovesLast
            BY <5>2, <5>3, EdgeFacts
          <6>2. s.stack[j].target[1] = "uninstall" /\ s.stack[j].next = 1 => s.stack[j + 1].target[1] = "configure"
            BY <5>2, EdgeFacts
          <6> QED
            BY <5>3, <6>1, <6>2 DEF Closers, RemovesLast
        <5> QED
          BY <1>6, <5>1, <5>3, <5>4 DEF Closing, Closers
      <4>2. CASE j = m /\ m > 0
        <5>1. z.stack[j].target[1] \in Closers /\ z.stack[j].next > 1
          BY <1>6, <3>3, <4>2
        <5> QED
          BY <5>1 DEF Closing, Closers
      <4> QED
        BY <1>6, <4>1, <4>2
    <3> QED
      BY <1>1, <1>3, <2>1, <3>2, <3>4 DEF Closed
  <2>4. CASE ~Late(z.order)
    BY <1>3, <2>1, <2>4 DEF Closed
  <2> QED
    BY <2>2, <2>3, <2>4
<1>15. Tidy(z.order)
  <2>1. ASSUME NEW j \in 1..Len(z.order), NEW i \in 1..j - 1
        PROVE  /\ z.order[j][1] \in RemovesFirst => z.order[i][1] \in RemovesFirst
               /\ z.order[i][1] \in RemovesLast => z.order[j][1] \in RemovesLast
    <3>1. CASE j \in 1..l
      <4>1. i \in 1..l
        BY <1>5, <3>1
      <4> QED
        BY <1>5, <3>1, <4>1 DEF Phases, Tidy, l
    <3>2. CASE j = l + 1 /\ z.order[j] = t /\ t \in RecipeTarget
      <4>1. i \in 1..l /\ z.order[i] = s.order[i]
        BY <1>5, <3>2
      <4>2. t[1] \in RemovesFirst => z.order[i][1] \in RemovesFirst
        BY <1>10, <4>1 DEF Early, l
      <4>3. ASSUME z.order[i][1] \in RemovesLast PROVE t[1] \in RemovesLast
        <5>1. Late(s.order)
          BY <4>1, <4>3 DEF Late, l
        <5>2. Closing(s.stack[n], n = n)
          BY <1>1, <5>1 DEF Phases, Closed, n
        <5> QED
          BY <1>1, <1>8, <3>2, <5>2 DEF Closing, Closers
      <4> QED
        BY <3>2, <4>2, <4>3
    <3> QED
      BY <1>5, <3>1, <3>2
  <2> QED
    BY <2>1 DEF Tidy
<1>16. CleansBefore(z.order)
  <2>1. ASSUME NEW k \in 1..Len(z.order), z.order[k][1] = "clean-for-reconfigure"
        PROVE  k > 1 /\ z.order[k - 1] = <<"clean-for-rebuild", z.order[k][2]>>
    <3>1. CASE k \in 1..l
      <4>1. k > 1 /\ s.order[k - 1] = <<"clean-for-rebuild", s.order[k][2]>>
        BY <1>5, <2>1, <3>1 DEF Phases, CleansBefore, l
      <4>2. k - 1 \in 1..l
        BY <1>5, <3>1, <4>1
      <4> QED
        BY <1>5, <3>1, <4>1, <4>2
    <3>2. CASE k = l + 1 /\ z.order[k] = t /\ t \in RecipeTarget
      <4>1. t[1] = "clean-for-reconfigure" /\ t[2] \in Pkg
        BY <2>1, <3>2 DEF RecipeTarget, TopLevel
      <4>2. Prereqs[t] = << <<"clean-for-rebuild", t[2]>> >>
        <5>1. t = <<"clean-for-reconfigure", t[2]>>
          BY <4>1 DEF Target
        <5> QED
          BY <4>1, <5>1, ListedPrereqs
      <4>3. Top(s).next # 1
        BY <4>2 DEF Finishes
      <4>4. l > 0 /\ s.order[l] = <<"clean-for-rebuild", t[2]>>
        BY <1>1, <4>1, <4>3 DEF Phases, Reconfiguring, n, l
      <4>5. l \in 1..l /\ k - 1 = l /\ k > 1
        BY <1>5, <3>2, <4>4
      <4> QED
        BY <1>5, <3>2, <4>4, <4>5
    <3> QED
      BY <1>5, <2>1, <3>1, <3>2
  <2> QED
    BY <2>1 DEF CleansBefore
<1> QED
  BY <1>11, <1>12, <1>13, <1>14, <1>15, <1>16 DEF Phases
-----------------------------------------------------------------------------
(* Such an order is orderly: what a recipe needs was made before it, and   *)
(* no command that takes it away stands in between.                        *)
LEMMA OrderIsOrderly ==
  ASSUME NEW order \in Seq(RecipeTarget), NeedsBefore(order), Tidy(order), CleansBefore(order)
  PROVE  OrderlyScript(order)
<1>1. Len(order) \in Nat /\ DOMAIN order = 1..Len(order) /\ \A k \in 1..Len(order) : order[k] \in RecipeTarget
  OBVIOUS
<1>2. ASSUME NEW k \in 1..Len(order), NEW t \in Needs(order[k])
      PROVE  \E i \in 1..k - 1 : order[i] = t /\ \A j \in i + 1..k - 1 : ~Removes(order[j], t)
  <2>1. PICK i \in 1..k - 1 : order[i] = t
    BY <1>2 DEF NeedsBefore
  <2>2. order[k][1] \notin RemovesLast
    BY <1>2, NoNeeds DEF RemovesLast, Installing, InstallStamp, Area
  <2>3. order[k][2] \in Pkg
    <3>1. CASE order[k][1] \in TopLevel
      <4>1. Needs(order[k]) = {}
        BY <3>1, NoNeeds DEF TopLevel, Installing, InstallStamp, Area
      <4> QED
        BY <4>1
    <3>2. CASE order[k][1] \notin TopLevel
      BY <1>1, <3>2 DEF RecipeTarget
    <3> QED
      BY <3>1, <3>2
  <2>4. t[1] \in Stamp
    BY <2>3, NeedsType
  <2>5. t[1] \notin RemovesFirst
    BY <2>4 DEF Stamp, RemovesFirst
  <2>6. ASSUME NEW j \in i + 1..k - 1, Removes(order[j], t) PROVE FALSE
    <3>1. order[j][1] \in RemovesFirst \cup RemovesLast
      BY <2>6 DEF Removes, Removed, RemovesFirst, RemovesLast
    <3>2. j \in 1..Len(order) /\ j \in 1..k - 1 /\ i \in 1..j - 1
      BY <1>1
    <3>3. order[j][1] \in RemovesFirst => order[i][1] \in RemovesFirst
      BY <3>2 DEF Tidy
    <3>4. order[j][1] \in RemovesLast => order[k][1] \in RemovesLast
      BY <3>2 DEF Tidy
    <3> QED
      BY <2>1, <2>2, <2>5, <3>1, <3>3, <3>4
  <2> QED
    BY <2>1, <2>6
<1>3. ASSUME NEW k \in 1..Len(order)
      PROVE  /\ order[k][1] = "clean-for-reconfigure" =>
                   k > 1 /\ order[k - 1] = <<"clean-for-rebuild", order[k][2]>>
             /\ FitsSource(order[k])
  BY DEF CleansBefore, NeedsBefore
<1> QED
  BY <1>1, <1>2, <1>3 DEF OrderlyScript, FitsSource

-----------------------------------------------------------------------------
(* The walk as a whole.                                                    *)
WalkInv(rank, s) == Shape(rank, s) /\ Progress(s) /\ Phases(s)

LEMMA StartInv ==
  ASSUME NEW rank, NEW line, DircleansFirst(line)
  PROVE  Start(line) \in State /\ WalkInv(rank, Start(line))
<1> DEFINE s == Start(line)
<1>1. s.goals = line /\ s.stack = <<>> /\ s.seen = {} /\ s.order = <<>> /\ s \in State
  BY DEF Start, State, DircleansFirst
<1>2. Len(s.stack) = 0 /\ Len(s.order) = 0 /\ Fin(s) = {}
  BY <1>1 DEF Fin
<1>3. s.goals \in Seq(Goal) /\ \A i \in 1..Len(s.goals) - 1 : s.goals[i][1] = "dirclean"
  BY <1>1 DEF DircleansFirst
<1> HIDE DEF s
<1>4. Shape(rank, s)
  BY <1>2 DEF Shape, Framed, Linked, Falling, Grounded
<1>5. Progress(s)
  BY <1>2 DEF Progress, PassedIsFin, ClosedUnder, RecipesDone, NeedsBefore
<1>6. GoalsLeft(s)
  BY <1>1, <1>2, <1>3 DEF GoalsLeft, Early
<1>7. Opened(s) /\ Reconfiguring(s) /\ Closed(s) /\ Tidy(s.order) /\ CleansBefore(s.order)
  BY <1>2 DEF Opened, Reconfiguring, Closed, Late, Tidy, CleansBefore
<1> QED
  BY <1>1, <1>4, <1>5, <1>6, <1>7 DEF WalkInv, Phases, s

LEMMA TopMoved ==
  ASSUME NEW rank, NEW s \in State, Shape(rank, s)
  PROVE  s.stack # <<>> => Top(s).next > 0
<1>1. s.stack # <<>> => Len(s.stack) \in 1..Len(s.stack)
  BY Fields
<1>2. s.stack # <<>> => Top(s).next \in 1..Len(Prereqs[Top(s).target]) + 1
  BY <1>1, Fields DEF Shape, Framed
<1> QED
  BY <1>2

LEMMA ConsiderInv ==
  ASSUME NEW rank, Ranks(rank), NEW s \in State, WalkInv(rank, s)
  PROVE  Consider(s) \in State /\ WalkInv(rank, Consider(s))
<1> DEFINE z == Consider(s)
<1>1. CASE Ended(s)
  BY <1>1 DEF Consider
<1>2. CASE ~Ended(s)
  <2>1. s.stack # <<>> => Top(s).next > 0
    BY TopMoved DEF WalkInv
  <2>2. z \in State /\ Steps(s, z)
    BY <1>2, <2>1, ConsiderDoes
  <2> HIDE DEF z
  <2>3. Shape(rank, s) /\ Progress(s) /\ Phases(s) /\ Linked(s) /\ Len(s.stack) \in Nat
    BY Fields DEF WalkInv, Shape
  <2>4. CASE SkipsGoal(s, z)
    <3>1. Shape(rank, z)
      BY <2>2, <2>3, <2>4, Resuming, ShapeResumes
    <3> QED
      BY <2>2, <2>3, <2>4, <3>1, ProgressSkips, PhasesSkips DEF WalkInv, z
  <2>5. ASSUME NEW q \in Target, Starts(s, z, q) PROVE WalkInv(rank, z)
    <3>1. Shape(rank, z) /\ Progress(z)
      BY <2>2, <2>3, <2>5, ShapeStarts, ProgressStarts
    <3>2. Phases(z)
      <4>1. CASE StartsGoal(s, z, q)
        BY <2>2, <2>3, <2>5, <4>1, GoalStarts
      <4>2. CASE StartsPrereq(s, z, q)
        BY <2>2, <2>3, <2>5, <4>2, PrereqStarts
      <4> QED
        BY <2>5, <4>1, <4>2 DEF Starts
    <3> QED
      BY <3>1, <3>2 DEF WalkInv
  <2>6. ASSUME NEW q \in Target, SkipsPrereq(s, z, q) PROVE WalkInv(rank, z)
    <3>1. Resumes(s, z, Len(s.stack))
      BY <2>2, <2>3, <2>6, Resuming
    <3>2. Shape(rank, z)
      BY <2>2, <2>3, <3>1, ShapeResumes
    <3> QED
      BY <2>2, <2>3, <2>6, <3>2, ProgressSkips, PhasesSkips DEF WalkInv
  <2>7. ASSUME NEW t \in Target, Finishes(s, z, t) PROVE WalkInv(rank, z)
    <3>1. Resumes(s, z, Len(s.stack) - 1) /\ Len(s.stack) - 1 \in Nat
      BY <2>2, <2>3, <2>7, Resuming DEF Finishes
    <3>2. Shape(rank, z)
      BY <2>2, <2>3, <3>1, ShapeResumes
    <3> QED
      BY <2>2, <2>3, <2>7, <3>2, ProgressFinishes, PhasesFinishes DEF WalkInv
  <2> QED
    BY <2>2, <2>4, <2>5, <2>6, <2>7 DEF Steps, z
<1> QED
  BY <1>1, <1>2

(* All states of a walk are in a set that holds its start and that no      *)
(* consideration leaves.                                                   *)
LEMMA WalkStays ==
  ASSUME NEW line, NEW S, Start(line) \in S, \A x \in S : Consider(x) \in S
  PROVE  \A n \in Nat : Walk(line)[n] \in S
<1> DEFINE F == [i \in Nat |-> [x \in S |-> Consider(x)]]
           a == Start(line)
<1>1. a \in S
  OBVIOUS
<1>2. \A x \in S : Consider(x) \in S
  OBVIOUS
<1>3. \A i \in Nat : \A x \in S : F[i][x] = Consider(x)
  OBVIOUS
<1> HIDE DEF a
<1>4. PICK f : IsRun(f, S, a, F)
  <2> HIDE DEF F
  <2> QED
    BY <1>1, <1>2, <1>3, RunExists
<1>5. f = [n \in Nat |-> IF n = 0 THEN a ELSE Consider(f[n - 1])]
  <2>1. ASSUME NEW i \in Nat, i # 0 PROVE f[i] = Consider(f[i - 1])
    <3>1. i - 1 \in Nat /\ (i - 1) + 1 = i
      BY <2>1
    <3>2. f[(i - 1) + 1] = F[(i - 1) + 1][f[i - 1]] /\ f[i - 1] \in S
      BY <1>4, <3>1 DEF IsRun
    <3> HIDE DEF F
    <3> QED
      BY <1>3, <3>1, <3>2
  <2> QED
    BY <1>4, <2>1 DEF IsRun
<1> DEFINE walk == CHOOSE g : g = [n \in Nat |-> IF n = 0 THEN a ELSE Consider(g[n - 1])]
<1>6. walk = [n \in Nat |-> IF n = 0 THEN a ELSE Consider(walk[n - 1])]
  BY <1>5
<1>7. Walk(line) = walk
  BY DEF Walk, a
<1> HIDE DEF walk
<1> DEFINE G == {n \in Nat : walk[n] \in S}
<1>8. 0 \in G
  BY <1>1, <1>6
<1>9. ASSUME NEW n \in G PROVE n + 1 \in G
  <2>1. n + 1 \in Nat /\ n + 1 # 0 /\ (n + 1) - 1 = n
    OBVIOUS
  <2>2. walk[n + 1] = Consider(walk[n])
    BY <1>6, <2>1
  <2> QED
    BY <1>2, <2>1, <2>2
<1>10. G = Nat
  <2>1. G \subseteq Nat
    OBVIOUS
  <2> HIDE DEF G
  <2> QED
    BY <1>8, <1>9, <2>1, SetInduction
<1> QED
  BY <1>7, <1>10

(* Every state of the walk for such a line is such a state.                *)
LEMMA WalkKeepsInv ==
  ASSUME NEW rank, Ranks(rank), NEW line, DircleansFirst(line)
  PROVE  \A n \in Nat : Walk(line)[n] \in State /\ WalkInv(rank, Walk(line)[n])
<1> DEFINE S == {s \in State : WalkInv(rank, s)}
<1>1. Start(line) \in S /\ \A x \in S : Consider(x) \in S
  BY StartInv, ConsiderInv
<1>2. \A n \in Nat : Walk(line)[n] \in S
  <2> HIDE DEF S
  <2> QED
    BY <1>1, WalkStays
<1> QED
  BY <1>2

(* The plans are what make comes to for such lines.                        *)
Planned == \A line \in CommandLines : DircleansFirst(line) /\ IsPlanOf(Plan[line], line)

(* What make comes to is orderly (package/pkg-generic.mk:337-450,           *)
(* Makefile:298-319): when no package depends on itself, for every command *)
(* line of which only the last goal is not a dirclean, whichever goal of   *)
(* the packages or the build that is.                                      *)
THEOREM PlansAreOrderly ==
    ASSUME Acyclic, Planned
    PROVE  Orderly
<1>1. PICK rank : Ranks(rank)
  BY DEF Acyclic
<1>2. ASSUME NEW line \in CommandLines PROVE OrderlyScript(Script[line])
  <2>1. DircleansFirst(line) /\ IsPlanOf(Plan[line], line)
    BY DEF Planned
  <2>2. PICK n \in Nat : Plan[line] = Walk(line)[n].order
    BY <2>1 DEF IsPlanOf
  <2> DEFINE s == Walk(line)[n]
  <2>3. s \in State /\ WalkInv(rank, s)
    BY <1>1, <2>1, WalkKeepsInv
  <2>4. Script[line] = s.order
    BY <2>2 DEF Script
  <2> HIDE DEF s
  <2>5. s.order \in Seq(RecipeTarget) /\ NeedsBefore(s.order) /\ Tidy(s.order) /\ CleansBefore(s.order)
    BY <2>3, Fields DEF WalkInv, Progress, Phases
  <2> QED
    BY <2>4, <2>5, OrderIsOrderly
<1> QED
  BY <1>2 DEF Orderly
-----------------------------------------------------------------------------
IsJoin(c, a, b) ==
    /\ Len(c) = Len(a) + Len(b) /\ DOMAIN c = 1..Len(a) + Len(b)
    /\ \A i \in 1..Len(a) : c[i] = a[i]
    /\ \A i \in 1..Len(b) : c[Len(a) + i] = b[i]

LEMMA JoinedAt ==
  ASSUME NEW S, NEW a \in Seq(S), NEW b \in Seq(S)
  PROVE  a \o b \in Seq(S) /\ IsJoin(a \o b, a, b)
BY DEF IsJoin

(* What a rebuild comes to besides: `all', and with it the packages it     *)
(* builds and, after them, the root filesystem.                            *)
RootfsTarget == <<"rootfs", World>>
PkgTarget(p) == <<"pkg", p>>

LEMMA AllPrereqs ==
  /\ \E i \in DOMAIN Prereqs[All] : Prereqs[All][i] = RootfsTarget
  /\ \A i \in DOMAIN Prereqs[All] : Prereqs[All][i] = RootfsTarget =>
        \A d \in DOMAIN Selected : \E j \in 1..i - 1 : Prereqs[All][j] = PkgTarget(Selected[d])
<1> DEFINE a == << <<"toolchain", World>> >>
           b == Packages(Selected)
           c == a \o b
           l == Len(Selected)
<1>1. /\ Selected \in Seq(Pkg) /\ l \in Nat /\ DOMAIN Selected = 1..l
      /\ b \in Seq(Target) /\ Len(b) = l /\ DOMAIN b = 1..l
      /\ \A d \in 1..l : b[d] = PkgTarget(Selected[d])
  BY PkgAssumption, PackagesOf DEF PkgTarget
<1>2. a \in Seq(Target) /\ Len(a) = 1 /\ a[1] # RootfsTarget
  BY DEF RootfsTarget, Target, TopLevel
<1>3. Finishing \in Seq(Target) /\ Len(Finishing) = 3 /\ Finishing[2] = RootfsTarget
      /\ Finishing[1] # RootfsTarget /\ Finishing[3] # RootfsTarget
  BY DEF RootfsTarget, Finishing, Target, TopLevel
<1> HIDE DEF a, b, l
<1>4. /\ c \in Seq(Target) /\ Len(c) = l + 1 /\ c[1] = a[1]
      /\ \A d \in 1..l : d + 1 \in 1..l + 1 /\ c[d + 1] = b[d]
  <2>1. c \in Seq(Target) /\ IsJoin(c, a, b)
    BY <1>1, <1>2, JoinedAt
  <2> HIDE DEF c
  <2>2. \A d \in 1..l : d + 1 \in 1..l + 1 /\ d + 1 = 1 + d
    BY <1>1
  <2> QED
    BY <1>1, <1>2, <2>1, <2>2 DEF IsJoin
<1>5. \A i \in 1..l + 1 : c[i] # RootfsTarget
  <2>1. ASSUME NEW i \in 1..l + 1 PROVE c[i] # RootfsTarget
    <3>1. CASE i = 1
      BY <1>2, <1>4, <3>1
    <3>2. CASE i # 1
      <4>1. i - 1 \in 1..l /\ (i - 1) + 1 = i
        BY <1>1, <3>2
      <4>2. c[i] = PkgTarget(Selected[i - 1])
        BY <1>1, <1>4, <4>1
      <4> QED
        BY <4>2 DEF PkgTarget, RootfsTarget
    <3> QED
      BY <3>1, <3>2
  <2> QED
    BY <2>1
<1>6. Prereqs[All] = c \o Finishing
  BY TopPrereqs DEF a, b
<1> HIDE DEF c
<1> DEFINE e == c \o Finishing
<1>7. /\ DOMAIN e = 1..l + 4
      /\ \A i \in 1..l + 1 : e[i] = c[i]
      /\ e[l + 2] = Finishing[1] /\ e[l + 3] = Finishing[2] /\ e[l + 4] = Finishing[3]
  <2>1. IsJoin(e, c, Finishing)
    BY <1>3, <1>4, JoinedAt
  <2> HIDE DEF e
  <2>2. (l + 1) + 3 = l + 4 /\ (l + 1) + 1 = l + 2 /\ (l + 1) + 2 = l + 3 /\ 1 \in 1..3 /\ 2 \in 1..3 /\ 3 \in 1..3
    BY <1>1
  <2>3. e[(l + 1) + 1] = Finishing[1] /\ e[(l + 1) + 2] = Finishing[2] /\ e[(l + 1) + 3] = Finishing[3]
    BY <1>3, <1>4, <2>1, <2>2 DEF IsJoin
  <2> QED
    BY <1>3, <1>4, <2>1, <2>2, <2>3 DEF IsJoin
<1> HIDE DEF e
<1>8. \A i \in DOMAIN e : e[i] = RootfsTarget <=> i = l + 3
  <2>1. \A i \in DOMAIN e : i \in 1..l + 1 \/ i = l + 2 \/ i = l + 3 \/ i = l + 4
    BY <1>1, <1>7
  <2> QED
    BY <1>1, <1>3, <1>5, <1>7, <2>1
<1>9. \A d \in 1..l : d + 1 \in 1..(l + 3) - 1 /\ e[d + 1] = PkgTarget(Selected[d])
  BY <1>1, <1>4, <1>7
<1>10. l + 3 \in DOMAIN e
  BY <1>1, <1>7
<1>11. Prereqs[All] = e
  BY <1>6 DEF e
<1> QED
  BY <1>1, <1>8, <1>9, <1>10, <1>11

LEMMA BuiltWith ==
  ASSUME NEW F, ClosedUnder(F), NEW p \in Pkg, PkgTarget(p) \in F, Areas(p) # {}
  PROVE  <<"build", p>> \in F
<1> DEFINE b == <<"build", p>>
<1>0. <<"pkg", p>> \in F
  BY DEF PkgTarget
<1>1. <<"install", p>> \in F
  BY <1>0, FinishedWith
<1>2. CASE p \in HostPkg
  <2> DEFINE t == <<"install-host", p>>
             s == <<".stamp_host_installed", p>>
  <2>1. t \in F
    BY <1>1, <1>2, FinishedWith
  <2>2. Prereqs[t] = <<b, s>>
    BY ListedPrereqs
  <2> HIDE DEF t, s, b
  <2> QED
    BY <2>1, <2>2, ListMembers DEF ClosedUnder, b
<1>3. CASE p \notin HostPkg
  <2>1. <<"install-staging", p>> \in F /\ <<"install-target", p>> \in F /\ <<"install-images", p>> \in F
    BY <1>1, <1>3, FinishedWith
  <2>2. CASE p \in StagingPkg
    <3> DEFINE t == <<"install-staging", p>>
               s == <<".stamp_staging_installed", p>>
    <3>1. t \in F /\ Prereqs[t] = <<b, s>>
      BY <2>1, <2>2, ListedPrereqs
    <3> HIDE DEF t, s, b
    <3> QED
      BY <3>1, ListMembers DEF ClosedUnder, b
  <2>3. CASE p \in TargetPkg
    <3> DEFINE t == <<"install-target", p>>
               s == <<".stamp_target_installed", p>>
    <3>1. t \in F /\ Prereqs[t] = <<b, s>>
      BY <2>1, <2>3, ListedPrereqs
    <3> HIDE DEF t, s, b
    <3> QED
      BY <3>1, ListMembers DEF ClosedUnder, b
  <2>4. CASE p \in ImagesPkg
    <3> DEFINE t == <<"install-images", p>>
               s == <<".stamp_images_installed", p>>
    <3>1. t \in F /\ Prereqs[t] = <<b, s>>
      BY <2>1, <2>4, ListedPrereqs
    <3> HIDE DEF t, s, b
    <3> QED
      BY <3>1, ListMembers DEF ClosedUnder, b
  <2> QED
    BY <1>3, <2>2, <2>3, <2>4 DEF Areas
<1> QED
  BY <1>2, <1>3

(* With the selected packages, all that is built and installed is.         *)
LEMMA BuiltFinished ==
  ASSUME NEW F, ClosedUnder(F), \A d \in DOMAIN Selected : PkgTarget(Selected[d]) \in F,
         NEW p \in Built, NEW st \in AllSteps(p)
  PROVE  <<st, p>> \in F
<1> DEFINE B == {q \in Pkg : PkgTarget(q) \in F}
<1>1. Builds(B)
  <2>1. \A d \in DOMAIN Selected : Selected[d] \in B
    BY PkgAssumption
  <2>2. ASSUME NEW q \in B, Areas(q) # {}, NEW i \in DOMAIN Dependencies[q] PROVE Dependencies[q][i] \in B
    <3>1. <<"build", q>> \in F
      BY <2>2, BuiltWith
    <3>2. <<"depends", q>> \in F
      <4>1. <<"configure", q>> \in F
        BY <3>1, FinishedWith
      <4> QED
        BY <4>1, FinishedWith
    <3>3. PkgTarget(Dependencies[q][i]) \in F
      BY <3>2, DependsOn DEF PkgTarget
    <3>4. Dependencies[q][i] \in Pkg
      BY PkgAssumption
    <3> QED
      BY <3>3, <3>4
  <2> QED
    BY <2>1, <2>2 DEF Builds
<1>2. p \in Pkg /\ p \in B /\ Areas(p) # {}
  <2>1. B \in SUBSET Pkg
    OBVIOUS
  <2> HIDE DEF B
  <2> QED
    BY <1>1, <2>1 DEF Built
<1>3. <<"build", p>> \in F
  BY <1>2, BuiltWith
<1>4. <<".stamp_built", p>> \in F /\ <<"configure", p>> \in F
  BY <1>2, <1>3, FinishedWith
<1>5. SourceNeeds(p) \subseteq F /\ <<".stamp_configured", p>> \in F
  BY <1>2, <1>4, ConfigureFinished
<1>6. CASE st = ".stamp_built"
  BY <1>4, <1>6
<1>7. ASSUME NEW x \in Areas(p), st = InstallStamp[x] PROVE <<st, p>> \in F
  <2>1. <<"pkg", p>> \in F
    BY <1>2 DEF PkgTarget
  <2>2. <<InstallStamp[x], p>> \in F
    BY <1>2, <2>1, PackageFinished
  <2> QED
    BY <1>7, <2>2
<1>8. CASE p \in OverridePkg /\ st = ".stamp_rsynced"
  BY <1>5, <1>8 DEF SourceNeeds
<1>9. CASE p \notin OverridePkg /\ st = ".stamp_extracted"
  BY <1>5, <1>9 DEF SourceNeeds
<1>10. CASE st = ".stamp_configured"
  BY <1>5, <1>10
<1> QED
  BY <1>6, <1>7, <1>8, <1>9, <1>10 DEF AllSteps, RebuildSteps
-----------------------------------------------------------------------------
(* The walk for a line that ends with the goal g and dircleans the         *)
(* packages of D.  Nothing is rebuilt and nothing cleaned but for g,       *)
(* nothing dircleaned but those packages, and an image of the whole build  *)
(* comes after all that is built.                                          *)
Rebuilders == {"clean-for-rebuild", "clean-for-reconfigure"} \cup {"rebuild", "reconfigure"}

GoalsEnd(g, s) ==
    /\ s.goals = <<>> => g \in s.seen
    /\ s.goals # <<>> => s.goals[Len(s.goals)] = g

Dircleaners == {"dirclean", ".stamp_dircleaned"}

OnlyFor(g, D, t) ==
    /\ t[1] \in Rebuilders => Rebuilds(g) /\ t[2] = g[2]
    /\ t[1] \in RemovesLast \cup Closers => ~MakesAll(g)
    /\ t[1] \in Dircleaners => t[2] \in D
    /\ g[1] = "dirclean" => t[1] \in Dircleaners

ImagedAfter(order) ==
    \A r \in 1..Len(order) : order[r] = RootfsTarget =>
       \A p \in Built : \A st \in AllSteps(p) : \E j \in 1..r - 1 : order[j] = <<st, p>>

ForGoal(g, D, s) ==
    /\ GoalsEnd(g, s)
    /\ \A i \in 1..Len(s.order) : s.order[i] \in s.seen
    /\ \A t \in s.seen : OnlyFor(g, D, t)
    /\ \A i \in 1..Len(s.goals) : OnlyFor(g, D, s.goals[i])
    /\ Len(s.stack) > 0 /\ s.stack[1].target = RootfsTarget => ~MakesAll(g)
    /\ MakesAll(g) => ImagedAfter(s.order)

LastGoal(g) == g \in Goal /\ g[1] \notin {"clean-for-rebuild", "clean-for-reconfigure"}

LEMMA EdgeOwner ==
  ASSUME NEW t \in Target, NEW i, NEW q \in Target, Edge(t, i, q), NEW g, NEW D, OnlyFor(g, D, t)
  PROVE  OnlyFor(g, D, q)
<1>1. q[1] \in RemovesLast \cup Closers => t[1] \in Closers
  BY EdgeFacts
<1>2. q[1] \in Rebuilders => t[1] \in Rebuilders /\ q[2] = t[2]
  <2>1. q[1] \in Rebuilders => q[1] \in {"clean-for-rebuild", "clean-for-reconfigure"}
    BY EdgeFacts DEF Rebuilders, Openers
  <2>2. q[1] \in Rebuilders => t[1] \in Rebuilders
    BY <2>1, EdgeFacts DEF Rebuilders
  <2>3. q[1] \in Rebuilders => q[2] = t[2]
    BY <2>1 DEF Edge, All, TopLevel
  <2> QED
    BY <2>2, <2>3
<1>3. q[1] \in Dircleaners => t[1] \in Dircleaners /\ q[2] = t[2]
  <2>1. q[1] \in Dircleaners => q[1] = ".stamp_dircleaned"
    BY EdgeFacts DEF Dircleaners, Openers
  <2>2. q[1] = ".stamp_dircleaned" => t[1] = "dirclean" /\ q[2] = t[2]
    BY DEF Edge, SamePkg, Installing, InstallStamp, Area, All, TopLevel
  <2> QED
    BY <2>1, <2>2 DEF Dircleaners
<1>4. t[1] \in Dircleaners => q[1] \in Dircleaners
  BY EdgeFacts DEF Dircleaners
<1> QED
  BY <1>1, <1>2, <1>3, <1>4 DEF OnlyFor

LEMMA EmptyHasNone ==
  ASSUME NEW S, NEW t \in Seq(S)
  PROVE  t = <<>> <=> Len(t) = 0
OBVIOUS

LEMMA TailEnds ==
  ASSUME NEW S, NEW l \in Seq(S), l # <<>>
  PROVE  /\ Tail(l) = <<>> => Head(l) = l[Len(l)]
         /\ Tail(l) # <<>> => Tail(l)[Len(Tail(l))] = l[Len(l)]
         /\ Head(l) = l[1] /\ 1 \in 1..Len(l)
         /\ \A i \in 1..Len(Tail(l)) : i + 1 \in 1..Len(l) /\ Tail(l)[i] = l[i + 1]
<1> DEFINE n == Len(l)
<1>1. n \in Nat /\ n > 0 /\ Head(l) = l[1] /\ Len(Tail(l)) = n - 1 /\ Tail(l) \in Seq(S)
      /\ \A i \in 1..n - 1 : Tail(l)[i] = l[i + 1]
  OBVIOUS
<1>2. Tail(l) = <<>> <=> n - 1 = 0
  <2> DEFINE t == Tail(l)
  <2>1. t \in Seq(S) /\ Len(t) = n - 1
    BY <1>1
  <2> HIDE DEF t, n
  <2>2. t = <<>> <=> Len(t) = 0
    BY <2>1, EmptyHasNone
  <2> QED
    BY <2>1, <2>2 DEF t
<1> HIDE DEF n
<1> QED
  BY <1>1, <1>2 DEF n

LEMMA ForGoalStarts ==
  ASSUME NEW rank, Ranks(rank), NEW s \in State, NEW z \in State, Shape(rank, s), Phases(s),
         NEW g, NEW D, LastGoal(g), ForGoal(g, D, s), NEW q \in Target, Starts(s, z, q)
  PROVE  ForGoal(g, D, z)
<1>1. z.order = s.order /\ z.seen = s.seen \cup {q}
  BY DEF Starts
<1>2. CASE StartsGoal(s, z, q)
  <2>1. /\ Len(s.stack) = 0 /\ s.goals \in Seq(Goal) /\ s.goals # <<>> /\ z.goals = Tail(s.goals)
        /\ q = Head(s.goals)
    BY <1>2, Fields DEF StartsGoal
  <2>2. /\ z.goals = <<>> => q = s.goals[Len(s.goals)]
        /\ z.goals # <<>> => z.goals[Len(z.goals)] = s.goals[Len(s.goals)]
        /\ q = s.goals[1] /\ 1 \in 1..Len(s.goals)
        /\ \A i \in 1..Len(z.goals) : i + 1 \in 1..Len(s.goals) /\ z.goals[i] = s.goals[i + 1]
    BY <2>1, TailEnds
  <2>3. s.goals[Len(s.goals)] = g
    BY <2>1 DEF ForGoal, GoalsEnd
  <2>4. GoalsEnd(g, z)
    BY <1>1, <2>2, <2>3 DEF GoalsEnd
  <2>5. OnlyFor(g, D, q) /\ \A i \in 1..Len(z.goals) : OnlyFor(g, D, z.goals[i])
    BY <2>2 DEF ForGoal
  <2>6. z.stack[1].target = q
    <3> DEFINE n == Len(s.stack)
    <3>1. z.stack[n + 1].target = q
      BY StartsFrames
    <3>2. n + 1 = 1
      BY <2>1
    <3> HIDE DEF n
    <3> QED
      BY <3>1, <3>2
  <2>7. q = RootfsTarget => ~MakesAll(g)
    <3>1. CASE z.goals = <<>>
      BY <2>2, <2>3, <3>1 DEF RootfsTarget, MakesAll, Rebuilds, All
    <3>2. CASE z.goals # <<>>
      <4>1. 1 \in 1..Len(s.goals) - 1
        BY <2>1, <3>2
      <4>2. q[1] = "dirclean"
        BY <2>2, <4>1 DEF Phases, GoalsLeft
      <4> QED
        BY <4>2 DEF RootfsTarget
    <3> QED
      BY <3>1, <3>2
  <2> QED
    BY <1>1, <2>4, <2>5, <2>6, <2>7 DEF ForGoal
<1>3. CASE StartsPrereq(s, z, q)
  <2>1. Wants(s, q) /\ z.goals = s.goals
    BY <1>3 DEF StartsPrereq
  <2>2. Len(s.stack) \in 1..Len(s.stack) /\ 1 \in 1..Len(s.stack) /\ Top(s) = s.stack[Len(s.stack)]
    BY <2>1, Fields DEF Wants
  <2>3. Edge(Top(s).target, Top(s).next, q) /\ Top(s).target \in Target /\ Top(s).target \in s.seen
    BY <2>1, <2>2, WantedIsLower, Fields DEF Shape, Framed
  <2>4. OnlyFor(g, D, q)
    BY <2>3, EdgeOwner DEF ForGoal
  <2>5. z.stack[1] = s.stack[1] /\ Len(s.stack) > 0
    BY <2>2, StartsFrames
  <2> QED
    BY <1>1, <2>1, <2>4, <2>5 DEF ForGoal, GoalsEnd
<1> QED
  BY <1>2, <1>3 DEF Starts

LEMMA FirstStays ==
  ASSUME NEW s \in State, NEW z \in State, NEW n, Resumes(s, z, n), Len(z.stack) > 0
  PROVE  Len(s.stack) > 0 /\ z.stack[1].target = s.stack[1].target
<1>1. /\ n \in Nat /\ n <= Len(s.stack) /\ Len(z.stack) = n /\ n > 0 /\ Len(s.stack) \in Nat
      /\ \A j \in 1..n - 1 : z.stack[j] = s.stack[j]
      /\ z.stack[n].target = s.stack[n].target
  BY Fields DEF Resumes
<1>2. CASE n = 1
  BY <1>1, <1>2
<1>3. CASE n # 1
  BY <1>1, <1>3
<1> QED
  BY <1>2, <1>3

LEMMA ForGoalSkips ==
  ASSUME NEW s \in State, NEW z \in State, Linked(s), Phases(s),
         NEW g, NEW D, LastGoal(g), ForGoal(g, D, s),
         SkipsGoal(s, z) \/ \E q : SkipsPrereq(s, z, q)
  PROVE  ForGoal(g, D, z)
<1>1. CASE SkipsGoal(s, z)
  <2>1. /\ s.goals \in Seq(Goal) /\ s.goals # <<>> /\ z.goals = Tail(s.goals)
        /\ z.stack = s.stack /\ z.seen = s.seen /\ z.order = s.order /\ Head(s.goals) \in s.seen
    BY <1>1, Fields DEF SkipsGoal
  <2>2. /\ z.goals = <<>> => Head(s.goals) = s.goals[Len(s.goals)]
        /\ z.goals # <<>> => z.goals[Len(z.goals)] = s.goals[Len(s.goals)]
        /\ \A i \in 1..Len(z.goals) : i + 1 \in 1..Len(s.goals) /\ z.goals[i] = s.goals[i + 1]
    BY <2>1, TailEnds
  <2>3. s.goals[Len(s.goals)] = g
    BY <2>1 DEF ForGoal, GoalsEnd
  <2> QED
    BY <2>1, <2>2, <2>3 DEF ForGoal, GoalsEnd
<1>2. ASSUME NEW q, SkipsPrereq(s, z, q) PROVE ForGoal(g, D, z)
  <2>1. z.goals = s.goals /\ z.seen = s.seen /\ z.order = s.order
    BY <1>2 DEF SkipsPrereq
  <2>2. Resumes(s, z, Len(s.stack))
    BY <1>2, Resuming
  <2> QED
    BY <2>1, <2>2, FirstStays DEF ForGoal, GoalsEnd
<1> QED
  BY <1>1, <1>2

LEMMA ForGoalFinishes ==
  ASSUME NEW rank, Ranks(rank), NEW s \in State, NEW z \in State, Shape(rank, s), Progress(s),
         NEW g, NEW D, LastGoal(g), ForGoal(g, D, s), NEW t \in Target, Finishes(s, z, t)
  PROVE  ForGoal(g, D, z)
<1> DEFINE n == Len(s.stack)
           l == Len(s.order)
<1>1. /\ n \in Nat /\ n > 0 /\ n \in 1..n /\ t = s.stack[n].target
      /\ z.goals = s.goals /\ z.seen = s.seen
  BY Fields DEF Finishes
<1>2. /\ l \in Nat /\ Len(z.order) \in Nat
      /\ \A i \in 1..l : z.order[i] = s.order[i]
      /\ \A i \in 1..Len(z.order) : i \in 1..l \/ (i = l + 1 /\ z.order[i] = t /\ t \in RecipeTarget)
  <2>1. /\ l \in Nat /\ Len(z.order) \in Nat
        /\ \A i \in 1..l : z.order[i] = s.order[i]
        /\ t \in RecipeTarget => Len(z.order) = l + 1 /\ z.order[l + 1] = t
        /\ t \notin RecipeTarget => Len(z.order) = l
    BY FinishedOrder
  <2> HIDE DEF l
  <2> QED
    BY <2>1
<1>3. t \in s.seen
  BY <1>1 DEF Shape, Framed
<1>4. \A i \in 1..Len(z.order) : z.order[i] \in z.seen
  BY <1>1, <1>2, <1>3 DEF ForGoal
<1>5. Resumes(s, z, n - 1)
  BY Resuming DEF Shape
<1>6. ASSUME MakesAll(g), t = RootfsTarget, NEW p \in Built, NEW st \in AllSteps(p)
      PROVE  \E j \in 1..l : s.order[j] = <<st, p>>
  <2>1. n # 1
    BY <1>1, <1>6 DEF ForGoal
  <2> DEFINE m == n - 1
             f == s.stack[m]
  <2>2. m \in 1..m /\ m \in 1..n /\ m + 1 = n /\ m = n - 1
    <3> HIDE DEF n
    <3> QED
      BY <1>1, <2>1
  <2>3. Edge(f.target, f.next, t) /\ f.target \in Target
    <3>1. Edge(f.target, f.next, s.stack[m + 1].target) /\ f.target \in Target
      BY <2>2, LinkedEdges
    <3> HIDE DEF m, n, f
    <3> QED
      BY <1>1, <2>2, <3>1
  <2>4. f.next <= Len(Prereqs[f.target]) /\ Prereqs[f.target][f.next] = t
    <3>1. f.next <= Len(Prereqs[f.target]) /\ s.stack[m + 1].target = Prereqs[f.target][f.next]
      BY <2>2 DEF Shape, Linked
    <3> HIDE DEF m, n, f
    <3> QED
      BY <1>1, <2>2, <3>1
  <2>5. f.next \in 1..Len(Prereqs[f.target]) + 1
    BY <2>2 DEF Shape, Framed
  <2>6. \A i \in 1..f.next - 1 : Prereqs[f.target][i] \in Fin(s)
    BY <2>2 DEF Progress, PassedIsFin
  <2> HIDE DEF m, n, f
  <2>7. f.target = All
    BY <1>6, <2>3, PkgAssumption DEF Edge, RootfsTarget, All
  <2>8. f.next \in DOMAIN Prereqs[All]
    BY <2>3, <2>4, <2>5, <2>7, Edges DEF EdgesTo
  <2>9. \A d \in DOMAIN Selected : PkgTarget(Selected[d]) \in Fin(s)
    BY <1>6, <2>4, <2>6, <2>7, <2>8, AllPrereqs
  <2>10. <<st, p>> \in Fin(s)
    BY <1>6, <2>9, BuiltFinished DEF Progress
  <2>11. <<st, p>> \in RecipeTarget
    BY <1>6, InstallStamps DEF Built, AllSteps, RebuildSteps, Areas, Area, RecipeTarget, RecipeVerb, Stamp
  <2> QED
    BY <2>10, <2>11 DEF Progress, RecipesDone, l
<1> HIDE DEF n, l
<1>7. MakesAll(g) => ImagedAfter(z.order)
  <2> SUFFICES ASSUME MakesAll(g), NEW r \in 1..Len(z.order), z.order[r] = RootfsTarget,
                      NEW p \in Built, NEW st \in AllSteps(p)
               PROVE  \E j \in 1..r - 1 : z.order[j] = <<st, p>>
    BY DEF ImagedAfter
  <2>1. \E j \in 1..r - 1 : j \in 1..l /\ s.order[j] = <<st, p>>
    <3>1. CASE r \in 1..l
      <4>1. s.order[r] = RootfsTarget
        BY <1>2, <3>1
      <4>2. PICK j \in 1..r - 1 : s.order[j] = <<st, p>>
        BY <3>1, <4>1 DEF ForGoal, ImagedAfter, l
      <4>3. j \in 1..l
        BY <1>2, <3>1
      <4> QED
        BY <4>2, <4>3
    <3>2. CASE r = l + 1 /\ z.order[r] = t
      <4>1. PICK j \in 1..l : s.order[j] = <<st, p>>
        BY <1>6, <3>2
      <4>2. j \in 1..r - 1
        BY <1>2, <3>2
      <4> QED
        BY <4>1, <4>2
    <3> QED
      BY <1>2, <3>1, <3>2
  <2>2. PICK j \in 1..r - 1 : j \in 1..l /\ s.order[j] = <<st, p>>
    BY <2>1
  <2> QED
    BY <1>2, <2>2
<1>8. Len(z.stack) > 0 /\ z.stack[1].target = RootfsTarget => ~MakesAll(g)
  BY <1>5, FirstStays DEF ForGoal
<1> QED
  BY <1>1, <1>4, <1>7, <1>8 DEF ForGoal, GoalsEnd
-----------------------------------------------------------------------------
LEMMA ForGoalStart ==
  ASSUME NEW line, DircleansFirst(line), RebuildsBuilt(line)
  PROVE  LastGoal(LastOf(line)) /\ ForGoal(LastOf(line), Dircleaned(line), Start(line))
<1> DEFINE g == LastOf(line)
           D == Dircleaned(line)
           n == Len(line)
<1>1. line \in Seq(Goal) /\ line # <<>> /\ n \in 1..n /\ g = line[n] /\ DOMAIN line = 1..n
  BY DEF DircleansFirst, RebuildsBuilt, LastOf
<1>2. LastGoal(g)
  BY <1>1 DEF LastGoal, RebuildsBuilt
<1>3. ASSUME NEW i \in 1..n PROVE OnlyFor(g, D, line[i])
  <2>1. line[i] \in Goal
    BY <1>1, <1>3
  <2>2. line[i][1] # ".stamp_dircleaned"
    BY <2>1 DEF Goal, Phony, TopLevel
  <2>3. line[i][1] = "dirclean" => line[i][2] \in D
    <3> SUFFICES ASSUME line[i][1] = "dirclean" PROVE line[i][2] \in D
      OBVIOUS
    <3>1. line[i][2] \in Pkg /\ line[i] = <<"dirclean", line[i][2]>>
      BY <2>1 DEF Goal, TopLevel
    <3> QED
      BY <1>1, <3>1 DEF Dircleaned
  <2>4. line[i][1] = "dirclean" \/ line[i] = g
    <3>1. i \in 1..n - 1 \/ i = n
      <4>1. n \in Nat
        BY <1>1
      <4> HIDE DEF n
      <4> QED
        BY <1>3, <4>1
    <3> QED
      BY <1>1, <3>1 DEF DircleansFirst
  <2>5. CASE line[i][1] = "dirclean"
    BY <2>3, <2>5 DEF OnlyFor, Dircleaners, Rebuilders, RemovesLast, Closers
  <2>6. CASE line[i] = g
    BY <1>2, <2>2, <2>3, <2>6
      DEF OnlyFor, Dircleaners, LastGoal, Rebuilders, MakesAll, Rebuilds, All, RemovesLast, Closers
  <2> QED
    BY <2>4, <2>5, <2>6
<1>4. /\ Start(line).goals = line /\ Start(line).stack = <<>>
      /\ Start(line).seen = {} /\ Start(line).order = <<>>
  BY DEF Start
<1> QED
  BY <1>1, <1>2, <1>3, <1>4 DEF ForGoal, GoalsEnd, ImagedAfter

LEMMA ForGoalKept ==
  ASSUME NEW rank, Ranks(rank), NEW s \in State, WalkInv(rank, s),
         NEW g, NEW D, LastGoal(g), ForGoal(g, D, s)
  PROVE  ForGoal(g, D, Consider(s))
<1> DEFINE z == Consider(s)
<1>1. Shape(rank, s) /\ Progress(s) /\ Phases(s) /\ Linked(s)
  BY DEF WalkInv, Shape
<1>2. CASE Ended(s)
  BY <1>2 DEF Consider
<1>3. CASE ~Ended(s)
  <2>1. s.stack # <<>> => Top(s).next > 0
    BY <1>1, TopMoved
  <2>2. z \in State /\ Steps(s, z)
    BY <1>3, <2>1, ConsiderDoes
  <2> HIDE DEF z
  <2> QED
    BY <1>1, <2>2, ForGoalStarts, ForGoalSkips, ForGoalFinishes DEF Steps, z
<1> QED
  BY <1>2, <1>3

(* In the end all is finished with, so what a recipe took away in the      *)
(* beginning has been made again, and an image after it.                   *)
LEMMA MadeAgain ==
  ASSUME NEW rank, NEW s \in State, WalkInv(rank, s), Ended(s),
         NEW g \in Goal, NEW D, ForGoal(g, D, s), MakesAll(g), Rebuilds(g) => g[2] \in Built,
         NEW k \in 1..Len(s.order), s.order[k][1] \in RemovesFirst, s.order[k][2] \in Built,
         NEW st \in AllSteps(s.order[k][2])
  PROVE  Redone(s.order, k, st)
<1> DEFINE l == Len(s.order)
           p == s.order[k][2]
<1>1. l \in Nat /\ DOMAIN s.order = 1..l
  BY Fields
<1>2. Fin(s) = s.seen /\ g \in s.seen
  BY DEF Ended, Fin, ForGoal, GoalsEnd
<1>3. All \in Fin(s)
  <2>1. CASE Rebuilds(g)
    <3> DEFINE q == g[2]
               a == <<"clean-for-rebuild", q>>
               b == <<"clean-for-reconfigure", q>>
    <3>1. q \in Pkg /\ (g = <<"rebuild", q>> \/ g = <<"reconfigure", q>>)
      BY <2>1 DEF Built, Rebuilds, Goal
    <3>2. Prereqs[g] = <<a, All>> \/ Prereqs[g] = <<b, All>>
      BY <3>1, ListedPrereqs
    <3>3. AllIn(Fin(s), Prereqs[g])
      BY <1>2 DEF WalkInv, Progress, ClosedUnder
    <3> HIDE DEF a, b, q
    <3> QED
      BY <3>2, <3>3, ListMembers
  <2>2. CASE g = All
    BY <1>2, <2>2
  <2> QED
    BY <2>1, <2>2 DEF MakesAll
<1>4. RootfsTarget \in Fin(s)
  BY <1>3, AllPrereqs DEF WalkInv, Progress, ClosedUnder, AllIn
<1>5. RootfsTarget \in RecipeTarget
  BY DEF RootfsTarget, RecipeTarget, TopLevel
<1>6. PICK r \in 1..l : s.order[r] = RootfsTarget
  BY <1>4, <1>5 DEF WalkInv, Progress, RecipesDone
<1>7. PICK j \in 1..r - 1 : s.order[j] = <<st, p>>
  BY <1>6 DEF ForGoal, ImagedAfter
<1>8. j \in 1..l /\ j < r
  BY <1>1
<1>9. st \in Stamp
  BY InstallStamps DEF Built, AllSteps, RebuildSteps, Areas, Area, Stamp
<1>10. s.order[j][1] \notin RemovesFirst
  BY <1>7, <1>9 DEF Stamp, RemovesFirst
<1>11. ASSUME NEW i \in 1..l, s.order[i][1] \in RemovesFirst PROVE i < j
  <2>1. i # j
    BY <1>10, <1>11
  <2>2. ~(j \in 1..i - 1)
    BY <1>10, <1>11 DEF WalkInv, Phases, Tidy
  <2> QED
    BY <1>8, <2>1, <2>2
<1>12. k < j
  BY <1>11
<1>13. ASSUME NEW i \in j + 1..l, Removes(s.order[i], s.order[j]) PROVE FALSE
  <2>1. i \in 1..l /\ ~(i < j)
    BY <1>1, <1>8
  <2>2. s.order[i][1] \in RemovesFirst \cup RemovesLast
    BY <1>13 DEF Removes, Removed, RemovesFirst, RemovesLast
  <2>3. s.order[i][1] \in RemovesLast
    BY <1>11, <2>1, <2>2
  <2>4. s.order[i] \in s.seen
    BY <2>1 DEF ForGoal
  <2> QED
    BY <2>3, <2>4 DEF ForGoal, OnlyFor
<1>14. j \in k + 1..l /\ r \in k + 1..l
  BY <1>1, <1>6, <1>8, <1>12
<1> QED
  BY <1>6, <1>7, <1>8, <1>13, <1>14 DEF Redone, RootfsTarget

LEMMA RebuiltInFull ==
  ASSUME NEW rank, NEW s \in State, WalkInv(rank, s), Ended(s),
         NEW g \in Goal, NEW D, ForGoal(g, D, s), Rebuilds(g) => g[2] \in Built
  PROVE  RebuildsInFull(s.order)
<1>1. DOMAIN s.order = 1..Len(s.order)
  BY Fields
<1>2. ASSUME NEW k \in 1..Len(s.order), s.order[k][1] = "clean-for-rebuild",
             NEW st \in RebuildSteps(s.order[k][2])
      PROVE  Redone(s.order, k, st)
  <2>1. Rebuilds(g) /\ s.order[k][2] \in Built
    BY <1>2 DEF ForGoal, OnlyFor, Rebuilders
  <2>2. st \in AllSteps(s.order[k][2]) /\ MakesAll(g) /\ s.order[k][1] \in RemovesFirst
    BY <1>2, <2>1 DEF AllSteps, MakesAll, RemovesFirst
  <2> QED
    BY <2>1, <2>2, MadeAgain
<1> QED
  BY <1>1, <1>2 DEF RebuildsInFull

LEMMA RestoredInFull ==
  ASSUME NEW rank, NEW s \in State, WalkInv(rank, s), Ended(s),
         NEW g \in Goal, NEW D, ForGoal(g, D, s), Rebuilds(g) => g[2] \in Built,
         D = {} \/ g[1] = "dirclean" \/ (MakesAll(g) /\ D \subseteq Built)
  PROVE  RestoresInFull(s.order)
<1>1. Len(s.order) \in Nat /\ DOMAIN s.order = 1..Len(s.order)
  BY Fields
<1> SUFFICES ASSUME NEW p \in Restored(s.order), NEW k \in 1..Len(s.order),
                    s.order[k] = <<".stamp_dircleaned", p>>
             PROVE  /\ \A i \in 1..k - 1 : s.order[i][1] \notin Stamp
                    /\ \A st \in AllSteps(p) : Redone(s.order, k, st)
  BY <1>1 DEF RestoresInFull
<1>2. s.order[k][1] \in RemovesFirst /\ s.order[k][2] = p /\ s.order[k] \in s.seen
  BY DEF RemovesFirst, ForGoal
<1>3. p \in D
  BY <1>2 DEF ForGoal, OnlyFor, Dircleaners
<1>4. g[1] # "dirclean"
  <2>1. PICK r \in 1..Len(s.order) : s.order[r] = RootfsTarget
    BY <1>1 DEF Restored, RootfsTarget
  <2>2. s.order[r] \in s.seen /\ s.order[r][1] \notin Dircleaners
    BY <2>1 DEF ForGoal, RootfsTarget, Dircleaners
  <2> QED
    BY <2>2 DEF ForGoal, OnlyFor
<1>5. MakesAll(g) /\ p \in Built
  BY <1>3, <1>4
<1>6. ASSUME NEW i \in 1..k - 1 PROVE s.order[i][1] \notin Stamp
  <2>1. s.order[i][1] \in RemovesFirst
    BY <1>2, <1>6 DEF WalkInv, Phases, Tidy
  <2> QED
    BY <2>1 DEF RemovesFirst, Stamp
<1>7. ASSUME NEW st \in AllSteps(p) PROVE Redone(s.order, k, st)
  BY <1>2, <1>5, <1>7, MadeAgain
<1> QED
  BY <1>6, <1>7

LEMMA WalkForGoal ==
  ASSUME NEW rank, Ranks(rank), NEW line, DircleansFirst(line), RebuildsBuilt(line)
  PROVE  \A n \in Nat : /\ Walk(line)[n] \in State /\ WalkInv(rank, Walk(line)[n])
                        /\ ForGoal(LastOf(line), Dircleaned(line), Walk(line)[n])
<1> DEFINE g == LastOf(line)
           D == Dircleaned(line)
           S == {s \in State : WalkInv(rank, s) /\ ForGoal(g, D, s)}
<1>1. LastGoal(g)
  BY ForGoalStart
<1>2. Start(line) \in S
  BY StartInv, ForGoalStart
<1> HIDE DEF g, D
<1>3. \A x \in S : Consider(x) \in S
  BY <1>1, ConsiderInv, ForGoalKept
<1>4. \A n \in Nat : Walk(line)[n] \in S
  <2> HIDE DEF S
  <2> QED
    BY <1>2, <1>3, WalkStays
<1> QED
  BY <1>4 DEF g, D

(* And a rebuild comes to all the steps it undoes once more, and to the    *)
(* root filesystem after them (pkg-generic.mk:437-450, Makefile:298-319),  *)
(* for every package that `all' builds: selected, or one that a selected   *)
(* package depends on.                                                     *)
THEOREM PlansRebuildInFull ==
    ASSUME Acyclic, Planned, \A line \in CommandLines : RebuildsBuilt(line)
    PROVE  RebuildsComplete
<1>1. PICK rank : Ranks(rank)
  BY DEF Acyclic
<1>2. ASSUME NEW line \in CommandLines PROVE RebuildsInFull(Script[line])
  <2>1. DircleansFirst(line) /\ RebuildsBuilt(line) /\ IsPlanOf(Plan[line], line)
    BY DEF Planned
  <2>2. PICK n \in Nat : Ended(Walk(line)[n]) /\ Plan[line] = Walk(line)[n].order
    BY <2>1 DEF IsPlanOf
  <2> DEFINE s == Walk(line)[n]
             g == LastOf(line)
             D == Dircleaned(line)
  <2>3. s \in State /\ WalkInv(rank, s) /\ ForGoal(g, D, s)
    BY <1>1, <2>1, WalkForGoal
  <2>4. g \in Goal /\ (Rebuilds(g) => g[2] \in Built)
    BY <2>1, ForGoalStart DEF RebuildsBuilt, LastGoal
  <2>5. Script[line] = s.order /\ Ended(s)
    BY <2>2 DEF Script
  <2> HIDE DEF s, g, D
  <2> QED
    BY <2>3, <2>4, <2>5, RebuiltInFull
<1> QED
  BY <1>2 DEF RebuildsComplete

(* A dirclean before the whole build comes before everything that it takes *)
(* away, and all of that comes again (pkg-generic.mk:316-450).             *)
THEOREM PlansRestoreInFull ==
    ASSUME Acyclic, Planned,
           \A line \in CommandLines : RebuildsBuilt(line) /\ RestoresBuilt(line)
    PROVE  RestoresComplete
<1>1. PICK rank : Ranks(rank)
  BY DEF Acyclic
<1>2. ASSUME NEW line \in CommandLines PROVE RestoresInFull(Script[line])
  <2>1. DircleansFirst(line) /\ RebuildsBuilt(line) /\ RestoresBuilt(line) /\ IsPlanOf(Plan[line], line)
    BY DEF Planned
  <2>2. PICK n \in Nat : Ended(Walk(line)[n]) /\ Plan[line] = Walk(line)[n].order
    BY <2>1 DEF IsPlanOf
  <2> DEFINE s == Walk(line)[n]
             g == LastOf(line)
             D == Dircleaned(line)
  <2>3. s \in State /\ WalkInv(rank, s) /\ ForGoal(g, D, s)
    BY <1>1, <2>1, WalkForGoal
  <2>4. g \in Goal /\ (Rebuilds(g) => g[2] \in Built)
    BY <2>1, ForGoalStart DEF RebuildsBuilt, LastGoal
  <2>5. Script[line] = s.order /\ Ended(s)
    BY <2>2 DEF Script
  <2>6. D = {} \/ g[1] = "dirclean" \/ (MakesAll(g) /\ D \subseteq Built)
    BY <2>1 DEF RestoresBuilt
  <2> HIDE DEF s, g, D
  <2> QED
    BY <2>3, <2>4, <2>5, <2>6, RestoredInFull
<1> QED
  BY <1>2 DEF RestoresComplete

-----------------------------------------------------------------------------
(* So the theorems about the package infrastructure hold of every build:   *)
(* all they ask is that no package depends on itself, that make is called  *)
(* with such command lines, and a careful user.                            *)

(* A stamp file never promises work that is not done.                      *)
THEOREM BuildsKeepStampsHonest ==
    ASSUME Acyclic, Planned, CarefulUser
    PROVE  Spec => []StampHonest
BY PlansAreOrderly, StampsAreHonest

(* When a package is configured all that it depends on is installed.       *)
THEOREM BuildsPutDependenciesFirst ==
    ASSUME Acyclic, Planned, CarefulUser
    PROVE  Spec => []DepsBeforeConfigure
BY PlansAreOrderly, DependenciesFirst

(* A package becomes completely installed only while all that it depends   *)
(* on is.                                                                  *)
THEOREM BuildsInstallInOrder ==
    ASSUME Acyclic, Planned, CarefulUser
    PROVE  Spec => OrderedSpec
BY PlansAreOrderly, InstallsInOrder

(* After a rebuild of a package that `all' builds, the edits are in what   *)
(* is built, installed and in the image.                                   *)
THEOREM BuildsTakeEffect ==
    ASSUME Acyclic, Planned, CarefulUser,
           \A line \in CommandLines : RebuildsBuilt(line)
    PROVE  Spec => RebuildTakesEffect
BY PlansAreOrderly, PlansRebuildInFull, RebuildsTakeEffect

(* After a dirclean and a build of everything, a package is as if it had   *)
(* been built from nothing, whatever went wrong before; those it depends   *)
(* on are dircleaned with it or handled with care.                         *)
THEOREM BuildsRestore ==
    ASSUME Acyclic, Planned, NEW C, Guarded(C),
           \A line \in CommandLines : RebuildsBuilt(line) /\ RestoresBuilt(line)
    PROVE  Spec => DircleanRestores
BY PlansAreOrderly, PlansRestoreInFull, DircleansRestore
=============================================================================
