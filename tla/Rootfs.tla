------------------------------- MODULE Rootfs ------------------------------
(* The images of the root filesystem, fs/common.mk: for each of them the    *)
(* recipe writes a script, has fakeroot run it on the target directory and  *)
(* puts the warning file back there.  A build may be interrupted, or the    *)
(* command of an image fail, and make is then called again.                 *)
EXTENDS Makedevs

CONSTANTS
  Images,        \* the images that are enabled, in the order of TARGETS
  WithInit,      \* those whose PRE_GEN_HOOKS make /init, a path
  Init0,         \* that path
  Tables,        \* what the tables may be: [rootfs, devices, permissions]
  Installed,     \* the target directory after the packages
  MaxBuilds      \* bound on the calls of make

VARIABLES
  tables,        \* the tables of this configuration, and static
  tree,          \* the target directory, as fakeroot shows it while it runs
  warning,       \* THIS_IS_NOT_YOUR_ROOT_FILESYSTEM is in it
  script,        \* the commands in FAKEROOT_SCRIPT
  table,         \* FULL_DEVICE_TABLE
  image,         \* the images, by name
  at,            \* the image that is being made, 0 when make does not run
  step,          \* the line of the recipe that is next
  devs,          \* makedevs while it runs: the lines left and its result
  builds

vars == <<tables, tree, warning, script, table, image, at, step, devs, builds>>

Name == Images[at]
Made(t, w) == [state |-> "whole", tree |-> t, warning |-> w]
NoImage == [state |-> "none"]
Partial == [state |-> "partial"]
NotRunning == [left |-> <<>>, ok |-> TRUE, on |-> FALSE]

Init ==
  /\ tables \in Tables
  /\ tree = Installed /\ warning = TRUE
  /\ script = <<>> /\ table = <<>>
  /\ image = [f \in ToSet(Images) |-> NoImage]
  /\ at = 0 /\ step = "none" /\ devs = NotRunning
  /\ builds = 0

\* Outside of fakeroot everything belongs to the user, and a device is a file.
Forgotten(t) ==
  [p \in Paths |-> IF t[p] = Absent THEN Absent
                   ELSE Node(IF t[p].type = "dir" THEN "dir" ELSE "file", t[p].mode, <<"user", "user">>, NoDev)]

\* The target directory as the packages leave it: a directory, of the user.
ASSUME TargetDirectory == Installed = Forgotten(Installed) /\ IsDir(Installed, Root)
ASSUME TablesAreLists == \A t \in Tables : \A s \in {t.rootfs, t.devices, t.permissions} : s \in Seq(ToSet(s))
ASSUME InitPath == Init0 \in Paths \ {Root}
ASSUME ImageNames ==
  /\ Images # <<>> /\ Images \in Seq(ToSet(Images))
  /\ ToSet(Images) \cap {"chown", "makedevs"} = {}

make ==
  /\ at = 0
  /\ builds < MaxBuilds
  /\ builds' = builds + 1
  /\ at' = 1 /\ step' = "hooks"
  /\ UNCHANGED <<tables, tree, warning, script, table, image, devs>>

Goes(next) == step' = next /\ UNCHANGED <<at, builds, tables>>

PreGenHooks ==
  /\ step = "hooks"
  /\ tree' = IF Name \in WithInit /\ ~Exists(tree, Init0)
             THEN [tree EXCEPT ![Init0] = Node("file", "755", <<"user", "user">>, NoDev)] ELSE tree
  /\ Goes("rm")
  /\ UNCHANGED <<warning, script, table, image, devs>>

WarningStays ==     \* mutant
  /\ step = "rm"
  /\ script' = <<>>
  /\ Goes("script")
  /\ UNCHANGED <<tree, warning, table, image, devs>>
RemoveOld ==
  /\ step = "rm"
  /\ script' = <<>> /\ warning' = FALSE
  /\ Goes("script")
  /\ UNCHANGED <<tree, table, image, devs>>

(* The tables of the packages are used if the configuration has a table.    *)
FullTable(t) == t.rootfs \o (IF t.static THEN t.devices ELSE <<>>) \o t.permissions
WriteScript ==
  /\ step = "script"
  /\ IF tables.rootfs = <<>>
     THEN script' = script \o <<"chown", Name>> /\ UNCHANGED table
     ELSE script' = script \o <<"chown", "makedevs", Name>> /\ table' = FullTable(tables)
  /\ Goes("fakeroot")
  /\ UNCHANGED <<tree, warning, image, devs>>

(* The shell goes on when a command has failed: the last one's status is    *)
(* that of the script.                                                      *)
Commanded(command) == step = "fakeroot" /\ script # <<>> /\ script[1] = command
ChownAll ==
  /\ Commanded("chown")
  /\ tree' = [p \in Paths |-> IF tree[p] = Absent THEN Absent ELSE [tree[p] EXCEPT !.owner = Super]]
  /\ script' = Tail(script)
  /\ Goes("fakeroot")
  /\ UNCHANGED <<warning, table, image, devs>>
StartMakedevs ==
  /\ Commanded("makedevs")
  /\ ~devs.on
  /\ devs' = [left |-> table, ok |-> TRUE, on |-> TRUE]
  /\ Goes("fakeroot")
  /\ UNCHANGED <<tree, warning, script, table, image>>
ReadLine ==
  /\ Commanded("makedevs")
  /\ devs.on /\ devs.left # <<>>
  /\ \E s \in {Line([tree |-> tree, ok |-> devs.ok, died |-> FALSE], devs.left[1])} :
       /\ tree' = s.tree
       /\ devs' = [left |-> IF s.died THEN <<>> ELSE Tail(devs.left), ok |-> s.ok, on |-> TRUE]
  /\ Goes("fakeroot")
  /\ UNCHANGED <<warning, script, table, image>>
EndMakedevs ==
  /\ Commanded("makedevs")
  /\ devs.on /\ devs.left = <<>>
  /\ devs' = NotRunning
  /\ script' = Tail(script)
  /\ Goes("fakeroot")
  /\ UNCHANGED <<tree, warning, table, image>>

MakeImage ==
  /\ step = "fakeroot" /\ script = <<Name>>
  /\ image' = [image EXCEPT ![Name] = Made(tree, warning)]
  /\ script' = <<>>
  /\ tree' = Forgotten(tree)
  /\ Goes("restore")
  /\ UNCHANGED <<warning, table, devs>>

\* Where make stops: the image that was being made is not whole.
Stopped ==
  /\ at' = 0 /\ step' = "none"
  /\ devs' = NotRunning
  /\ tree' = IF step = "fakeroot" THEN Forgotten(tree) ELSE tree
  /\ UNCHANGED <<tables, warning, table, builds>>
ImageFails ==
  /\ step = "fakeroot" /\ script = <<Name>>
  /\ builds < MaxBuilds
  /\ image' = [image EXCEPT ![Name] = Partial]
  /\ Stopped
  /\ UNCHANGED script
\* make removes the image that an interrupt cuts short, if it still can.
CutShort ==
  CASE step = "fakeroot" /\ script = <<Name>> -> {image[Name], Partial, NoImage}
    [] step = "restore" -> {image[Name], NoImage}
    [] OTHER -> {image[Name]}
Interrupt ==
  /\ at # 0
  /\ builds < MaxBuilds
  /\ \E left \in CutShort : image' = [image EXCEPT ![Name] = left]
  /\ Stopped
  /\ UNCHANGED script

Finish ==
  IF at < Len(Images) THEN at' = at + 1 /\ step' = "hooks" ELSE at' = 0 /\ step' = "none"
NeverRestored ==     \* mutant
  /\ step = "restore"
  /\ Finish
  /\ UNCHANGED <<tables, tree, warning, script, table, image, devs, builds>>
Restore ==
  /\ step = "restore"
  /\ warning' = TRUE
  /\ Finish
  /\ UNCHANGED <<tables, tree, script, table, image, devs, builds>>

Recipe ==
  \/ PreGenHooks \/ RemoveOld \/ WriteScript
  \/ ChownAll \/ StartMakedevs \/ ReadLine \/ EndMakedevs \/ MakeImage
  \/ Restore
Next == make \/ Recipe \/ ImageFails \/ Interrupt

Spec == Init /\ [][Next]_vars /\ WF_vars(Recipe)

(* ------------------------------ properties ------------------------------ *)

Whole(f) == image[f].state = "whole"

(* The lines makedevs reads: all of them, or those up to an unknown user.   *)
IsEntry(l) == l.kind = "entry" /\ InRange(l)
Dies(l) == IsEntry(l) /\ ~Known(l)
UpTo(lines, d) == IF d = 0 THEN lines ELSE SubSeq(lines, 1, d - 1)
Lines == [t \in Tables |-> IF t.rootfs = <<>> THEN <<>> ELSE UpTo(FullTable(t), SelectInSeq(FullTable(t), Dies))]
Owned(t) == [p \in Paths |-> IF t[p] = Absent THEN Absent ELSE [t[p] EXCEPT !.owner = Super]]
FromInstalled ==
  [t \in Tables |->
     LET after[n \in 0 .. Len(Lines[t])] ==
           IF n = 0 THEN [tree |-> Owned(Installed), ok |-> TRUE, died |-> FALSE]
           ELSE With(after[n - 1], LAMBDA s : Line(s, Lines[t][n]))
     IN  after[Len(Lines[t])].tree]

(* No image has the warning in it that its target directory is not one.    *)
WarningKeptOut == \A f \in ToSet(Images) : Whole(f) => ~image[f].warning

(* Whatever builds came before and wherever they were cut short, an image   *)
(* that was made has the files of the packages with the table applied to    *)
(* them once, and not the warning; only /init may be left by another image  *)
(* (common.mk:46-60).                                                       *)
ImageAsFirst ==
  /\ WarningKeptOut
  /\ \A f \in ToSet(Images) : Whole(f) =>
       \A p \in Paths \ {Init0} : image[f].tree[p] = FromInstalled[tables][p]

Named(l) == IF l.count = 0 THEN {l.name} ELSE {Numbered[<<l.name, l.start + i>>] : i \in 0 .. l.count - 1}
LastToName(lines, i) ==
  Named(lines[i]) \ UNION {Named(lines[j]) : j \in {k \in i + 1 .. Len(lines) : IsEntry(lines[k])}}
RdevOf(l, p) ==
  IF l.type \in {"d", "f"} THEN NoDev
  ELSE IF l.count = 0 THEN <<l.major, l.minor>>
  ELSE CHOOSE d \in {<<l.major, l.minor + i * l.increment>> : i \in 0 .. l.count - 1} :
         \E i \in 0 .. l.count - 1 : p = Numbered[<<l.name, l.start + i>>] /\ d[2] = l.minor + i * l.increment
TypeOfLine(l) == CASE l.type = "d" -> "dir" [] l.type = "f" -> "file" [] OTHER -> l.type

(* Every name a line of the table stands for, as the usage message of       *)
(* makedevs tells it (makedevs.c:312-349), is in the image with the type,   *)
(* owner, mode and device of the last line that names it; a regular file    *)
(* that no package installs stays missing.                                  *)
TableApplied ==
  \A f \in ToSet(Images) : Whole(f) =>
    \A i \in DOMAIN Lines[tables] : IsEntry(Lines[tables][i]) =>
      \A p \in LastToName(Lines[tables], i) :
        LET l == Lines[tables][i]
        IN  \/ l.type = "f" /\ Installed[p] = Absent
            \/ image[f].tree[p] = Node(TypeOfLine(l), l.mode, l.owner, RdevOf(l, p))

(* What the theorems ask of a table, and the tables of the repository have: *)
(* each name is a path of the tree, not /init, and is named by entries of   *)
(* one kind, directories, files or devices, which the packages do not       *)
(* install as something else; the directory of a device is there before it. *)
EntriesOf(t, types) == {i \in DOMAIN Lines[t] : IsEntry(Lines[t][i]) /\ Lines[t][i].type \in types}
NodePaths(t) == UNION {Named(Lines[t][i]) : i \in EntriesOf(t, {"p", "c", "b"})}
FileNames(t) == {Lines[t][i].name : i \in EntriesOf(t, {"f"})}
WaysOf(t, entries) == UNION {ToSet(Way[Lines[t][i].name]) : i \in entries}
WayPaths(t) == WaysOf(t, EntriesOf(t, {"d"}))
DirsBefore(t, i) ==
  {p \in Paths : p = Root \/ IsDir(Installed, p)} \cup WaysOf(t, {j \in EntriesOf(t, {"d"}) : j < i})

OrdinaryEntry(l) ==
  /\ l.type \in {"d", "f", "p", "c", "b"}
  /\ {l.major, l.minor, l.start, l.increment, l.count} \subseteq Nat
  /\ l.type \in {"d", "f"} => l.count = 0
  /\ Named(l) \subseteq Paths
  /\ \A i, j \in 0 .. l.count - 1 : Numbered[<<l.name, l.start + i>>] = Numbered[<<l.name, l.start + j>>] => i = j
OneKindEach(t) ==
  /\ NodePaths(t) \cap FileNames(t) = {}
  /\ (NodePaths(t) \cup FileNames(t)) \cap WayPaths(t) = {}
  /\ \A p \in NodePaths(t) \cup FileNames(t) : ~IsDir(Installed, p) /\ p \notin {Root, Init0}
  /\ \A p \in WayPaths(t) : p # Init0 /\ (Installed[p] = Absent \/ IsDir(Installed, p))
DirectoryFirst(t) ==
  \A i \in EntriesOf(t, {"p", "c", "b"}) : \A p \in Named(Lines[t][i]) : Parent[p] \in DirsBefore(t, i)
Orderly(t) ==
  /\ \A i \in DOMAIN Lines[t] : Lines[t][i].kind \in {"comment", "invalid", "entry"}
  /\ \A i \in DOMAIN Lines[t] : IsEntry(Lines[t][i]) => OrdinaryEntry(Lines[t][i])
  /\ OneKindEach(t) /\ DirectoryFirst(t)

\* No series has more devices than there are minor numbers.
MinorsFit(t) ==
  \A i \in EntriesOf(t, {"p", "c", "b"}) :
    LET l == Lines[t][i] IN l.minor + (l.count - 1) * l.increment < Word

(* The last call of make, which nothing disturbs, makes every image whole,  *)
(* whatever was left by those before, and leaves the warning in the target  *)
(* directory.                                                               *)
AllMade == builds = MaxBuilds ~> (at = 0 /\ warning /\ \A f \in ToSet(Images) : Whole(f))
=============================================================================
