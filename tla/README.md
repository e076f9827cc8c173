# Buildroot in TLA+

Buildroot turns a configuration into a root filesystem, a kernel and boot
loaders. A build is GNU make running `Makefile`, the `*.mk` files and a few shell
scripts; nearly all that it keeps between two commands is in files: stamp files
in each package's build directory, the archives in the download directory, and
what was installed. The configuration comes from Kconfig: programs in C that
read and write `.config` and keep a network of symbols whose values depend on
each other, behind three user interfaces (questions, `menuconfig`, `nconfig`).

What is hard about the first half: decisions are taken from the existence of
files, order comes from the order of lists, any command may fail or be
interrupted, and the user types the next one. What is hard about the second:
values are cached and invalidated, entries of the menu move and disappear with
each answer, and the windows are redrawn line by line.

This directory holds models of that program, configurations for the model
checker TLC, and theorems that the proof system TLAPS has checked. Paths below
are relative to the repository.

    tlc -workers 2 -config PkgBuild.cfg MCPkgBuild     # a run, see "Runs"
    tlapm PkgBuildProofs.tla                           # the proofs of a module

## 1. Inventory

| component | state | operations | interacts with | what is hard, what makes it correct |
|---|---|---|---|---|
| generic package infrastructure, `package/pkg-generic.mk` | stamp files, build directory, installed files of each package | ten stamp recipes; uninstall, clean, dirclean, rebuild, reconfigure | run by make; uses downloads and patches | failures and ^C at any command; each stamp tells the truth, dependencies first, a rebuild takes effect, starting over works |
| its target graph, same file 349-445, and `Makefile` 332-399 | none (text) | the prerequisites of each target | read by make | all order is list order |
| GNU make | targets seen in this invocation | walks the graph, runs recipes, stops at the first failure | the shell | a target shared by two goals is visited once |
| downloads, `package/pkg-download.mk` | archives and temporary files in `dl/`, working copies | seven methods, tried site by site | other builds of the same tree, through `dl/` | broken transfers, interruptions, parallel builds; a file with the archive's name is complete |
| patches, `support/scripts/apply-patches.sh` | the build directory, `.applied_patches_list` | one run on one directory, recursive | called by the patch step | not idempotent; recursion with global variables; all patches or an error |
| root filesystems, `fs/common.mk` | images, the fakeroot script, the device table, the warning file | one recipe for each image | makedevs, the target directory that all images share | a script that does not stop on errors; what a cut-short recipe leaves; every image as if made first |
| makedevs, `package/makedevs/makedevs.c` | the tree it works on, exit status | one line of the table after the other | called in the fakeroot script | ranges of nodes, errors that end the program or only the line; the tree is what the table says |
| Kconfig: menus, `menu.c`, `expr.c`, `symbol.c:911-1110` | the menu tree, properties, dependencies | the parser's statements, `menu_finalize`, simplification, printing, check for recursions | values, front ends | entries are moved while the tree is walked; nothing lost, order and meaning kept |
| Kconfig: values, `symbol.c`, `confdata.c`, `conf.c` | a cached value, visibility and dependencies of each symbol; `.config`, `.config.old`, `auto.conf`, headers | calculating, setting, choices; reading and writing; the modes of `conf` | the Makefiles include what it writes | stale values; a crash between two renames; what is written reads back |
| menuconfig, `mconf.c` | one session: current menu, items, whether there are changes | keys of a menu, dialogs, load, save, exit | lxdialog, Kconfig's values | what is shown is what is so; no change is lost silently |
| nconfig, `nconf.c`, `nconf.gui.c` | the same; the search pattern; windows | the same; search; button, field, text windows | Kconfig's values, curses | the same; the search ends and stays on a match |
| lxdialog, `support/kconfig/lxdialog` | scroll, choice, cursor and what the window shows | menu, radio list, input field, text, question; resize | called by menuconfig | incremental scrolling; Enter acts on what is highlighted |
| top level, `Makefile` | toolchain, target directory, images | toolchain, target-finalize, target-post-image, clean | the package goals | the image holds every package, finalized |
| toolchains, `toolchain/` | stamps of their own, sysroot, wrapper | a fixed sequence of stages | all target packages | stages in several directories |
| offline sources, `Makefile` 363-379, 571 | archives | `make source`, `external-deps` | the download targets | host dependencies are expanded one level |
| Linux, boot loaders | as packages | hooks: patch loop, initramfs rebuild | generic infrastructure | the kernel is made twice when it holds the initramfs |
| autotools, CMake, legal information, host checks, scripts, package data, board files, elf2flt, mcookie, gconf, qconf | none that a modelled part reads | | | |

`PROJECT.json` says for each of these whether it is modelled, in part or not,
and lists the forty hazards that matter most at their lines; section 3.2 has the
others.

## 2. Modules

| module | what it is | checked in |
|---|---|---|
| `PkgTargets` | the graph of targets: `Prereqs`, and which targets have commands | the package runs |
| `MakePlan` | make's walk of that graph as a recursive function: gives the constant `Plan` its value | the package runs |
| `PkgBuild` | make running the recipes in the order of `Plan`, their effect on stamps and directories, failures, and the user | `daily_work`, `recover` |
| `BuildOrder` | abstract: packages become installed one at a time, after all they depend on | `daily_work`, as the property `OrderedSpec` |
| `PkgBuildProofs` | theorems about `PkgBuild` for any `Plan`, among them that it implements `BuildOrder` | tlapm |
| `MakePlanProofs` | that make's walk gives such plans as these theorems assume | tlapm |
| `Induction` | induction over sets instead of predicates, which the proofs about recursive functions and folds rest on | tlapm |
| `Download`, `DownloadProofs` | builds that share a download directory | `download`, `parallel_builds`; tlapm |
| `ApplyPatches`, `ApplyPatchesProofs` | apply-patches.sh on one build directory | `apply_patches`, `patches_lost`; tlapm |
| `Makedevs`, `Rootfs`, `RootfsProofs` | makedevs; the recipes of the images, which run it | `images`; tlapm |
| `KExpr`, `KFinalize`, `KMenu` | expressions; `menu_finalize`; the parser's building of a menu, and the check for recursions | `kconfig_menu` |
| `KSymbol`, `KConfData`, `KVisible`, `KConf` | values; configuration files; what is shown; the program `conf` | `kconfig_conf` |
| `ConfText`, `ConfFiles`, `ConfFilesProofs` | the text of a file; abstract: how the files of `conf` follow each other, whatever is in them; theorems | `kconfig_conf`, as the property `FilesSpec`; tlapm |
| `ConfSession`, `Mconf`, `Nconf`, `Frontends` | what the two sessions share; how each builds a menu and takes keys; one session of either | `front_ends`, `load_forgets` |
| `ListWindow`, `MenuBox`, `CheckList`, `InputBox`, `TextBox`, `Lxdialog` | the dialogs of menuconfig | `dialogs` |
| `NconfGui`, `Dialogs` | the windows of nconfig; the dialogs of either program | `dialogs` |
| `DialogsProofs` | theorems about the dialogs of menuconfig and the windows of nconfig | tlapm |
| `MC...` | the instances | |

How they compose. `PkgBuild` is built on `PkgTargets` and takes make's order as
the constant `Plan`. `ApplyPatches` and `Download` are the inside of two of its
recipes: it uses of the first that a tree with some of the patches in it is
refused (`Repatched`). `Rootfs` extends `Makedevs` and steps through the table
line by line. The sessions run on `KSymbol`, `KConfData` and `KVisible`, whose
operators take the table of symbols and return the next one, as the C functions
change it; `KConf`, `Mconf` and `Nconf` are three programs over the same tables.
`KConf` extends `ConfFiles`, has its variables and implements `FilesSpec`.
The dialogs are checked by themselves: a session takes any result a dialog can
give.

A definition whose comment is only `mutant` is not part of the model: it is a
plausible mistake in the definition it stands beside, kept to show which property
would notice. `PROJECT.json` pairs each with a property.

### 2.1 PkgBuild and the code

*make.* `goals` is the command line, `Recipes` its targets with commands in the
order make comes to them, `at` the current one. A stamp target has no
prerequisites, so `UpToDate` is the existence of its file. A stamp recipe is two
steps, its commands (`...Cmds`) and the final `$(Q)touch $@` (`Touch`), because
that is where it matters whether it is cut short; `half` is the point between.
The uninstall and clean recipes remove stamps before and after their commands, in
the order of the file; clean-for-rebuild removes its stamps one `rm -f` after the
other, the rsync stamp among them for an override package. Failures and ^C
(`Break...`) may strike any recipe in `Fragile` before its commands have done all
of their work, or before the touch.

*The disk.* `stamps` are the files; `tree` and `inst` are what the directories
really hold. Their contents are abstracted to a quality: absent, bad (incomplete
or made from something older), good. Each recipe says what its work is made
from: the configuration is good when the source is, the patches are and every
dependency is installed. No recipe reads a quality to decide what to do; the one
exception is the patch script's refusal of a patched tree.

*The user* types one of `CommandLines` whenever make has ended, edits packages
of `Edited` (in the override directory, or in the build directory) and removes
by hand the stamps of `HandRemoved`.

What the abstraction leaves out: sources are not edited while make runs; a
dependency that is rebuilt does not make its dependents bad (the manual says that
the infrastructure does not know, docs/manual/rebuilding-packages.txt:11-49);
`rsync -au` brings the edited source whole; cleaning leaves what is in the
images and host directories; the toolchain, target-finalize, the root filesystem
(see `Rootfs`) and the post-image script are single actions that are not cut
short; no `DL_MODE` other than DOWNLOAD, no legal-info, no output.

### 2.2 Download and the code

One process per build runs the shell command that `DOWNLOAD_INNER` expands to
(pkg-download.mk:228-258): for the primary site, the package's own and the backup
site in turn, the method's own commands. A name is bound to an inode and a
writer keeps its inode open; hence the effects of two wgets on one `.tmp` file
(truncation, a rename under the writer, `rm -f` of the other's file) are what
POSIX makes of them. The archive is `Size` blocks, written in order.
`InPlace` methods (scp, the local copy, bzr) write the archive under its own name,
`Vcs` methods check out a working copy and pack it; that the status of
`git archive | gzip` is gzip's is in `TransferFails`. The check of an archive's
contents does not exist in this version, so neither in the model.

### 2.3 ApplyPatches and the code

The stack of calls of `scan_patchdir`, each with the names its loops have left,
and the one variable that is read after a recursive call: `path`, which is global
in the shell. A directory holds a `series` file (its lines, which may leave out
files or name some that do not exist) or what `ls` lists. A file that cannot be
opened gives `patch` an empty input, which it accepts; a patch in the tree
already, or one in `Bad`, is rejected, possibly after some of its hunks. `patch`
is taken as run without a terminal, as in a logged or unattended build: on a
terminal it would ask about a reversed patch.

### 2.4 Rootfs, Makedevs and the code

`step` is the place in the recipe of fs/common.mk:39-66, `script` the lines of
`_fakeroot.fs` that are left to run, `table` the device table as it was written.
The hooks, the format's command and the post-generation compression are one
action each or left out. Inside fakeroot makedevs reads a line at a time
(`StartMakedevs`, `ReadLine`, `EndMakedevs`); a line is an entry, a comment or
one it refuses. Every outcome of an entry is there: the directory that is made
with its parents, the regular file that must exist, one node or a range with
`start`, `increment` and `count`, the name that has no parent directory, and the
unknown user or group that ends the program in the middle of the table. A
device is its major and minor number; the fields of a line are at most `FieldMax`
and the arithmetic on the minor number is modulo `Word`, both reduced in the
instance (31 and 256 for 2^20 - 1 and 2^32) with products beyond `Word` kept. A file has an owner, a mode, a type and a device number; on the real disk
it belongs to the user, in the image to what fakeroot remembers.

### 2.5 Kconfig and the code

Chains of `&&` and `||` are one node with the sequence of its operands, since the
code walks a chain operand by operand. `KMenu` has an action for every statement
of the parser that adds to the menu (config, choice, menu, comment, if, depends,
prompts, defaults, selects, the ends of blocks); when the root is closed,
`final` is what `menu_finalize` and `sym_check_deps` make of it. In `KSymbol` a
table holds for each symbol its value, the mark that it is valid, the value of
the user and the visibility; `sym_calc_value` is recursive through expressions
and choices and leaves its preliminary value while it is, as in the code. `KConf`
unfolds the recursion of `conf` and `check_conf` over the menu into a list of calls
still to be made, one step per question; writing a file is a step for each
`fopen`, `rename` and `touch` that a crash can fall between.
`ConfFiles` has these steps without the questions and the values. A temporary file
holds any lines; for auto.conf they have to say what .config says (`Agree`), what
auto.conf says if that was up to date already, and every header that changes with
them has been touched (`WritesAutoTmp`).
Left out: the lexer and the parser's recovery, "visible if", environment
symbols, string expansion, and the wording of messages.

### 2.6 The front ends and the code

A session (`ConfSession`) is in a phase: a menu is built, a menu, a choice, a
string, load, save or exit dialog is open, or it is done. Building a menu is one
step; each result of a dialog is an action. `misnamed` is the one variable that
the code has not: it remembers that a file to load was not found.

A dialog (`MenuBox` ... `TextBox`) holds the variables of its function and what
the window shows, line by line, so that the incremental scrolling of the code
and a full redraw can be compared. A resize changes the number of rows between
two keys, as `ERROR_SIZE` and `on_key_resize` see it. In the input field of
nconfig a text is a buffer ended by a zero, and `mem` goes on behind the buffer, in
bytes that belong to the callers, as far as an insertion can reach (`Memory`). What
happens there is undefined in C; the model moves the bytes, and a field is closed after
an overrun with the program going on or not (`crashed`). A text that `strncpy` would
copy without its end, one not shorter than the buffer, is left out
(`BufferAssumption`). The array of the search pattern is not checked for its end
(nconf.c:1035); `MaxPattern` is the model's bound. In nconfig's search the outcomes of an empty menu
(a division by zero) and of an index that is never met again (an endless loop)
are states of their own, `stuck`, after which nothing happens. Left out: colours,
columns (but those of the input field), the frames of boxes, help texts.

## 3. Runs

Every run is exhaustive: no state constraint, no symmetry.

| run | question | instance | distinct states |
|---|---|---|---|
| `daily_work` | do stamps stay honest, dependencies come first, rebuilds take effect, and is it all a `BuildOrder`? | app, lib, tool: all three sorts of package (patched archive, override, host), a shared dependency; `make`, lib-source, and pkg, rebuild, reconfigure, dirclean of each; lib edited; every lib recipe fragile, except clean-ups | 464,761 |
| `recover` | does dirclean repair whatever happened, does repeating the commands get there? | app and tool; clean-ups of app cut short anywhere, the documented stamps removed by hand, half applied patches, every tool recipe fragile | 98,954 |
| `download` | one build, any trouble | all 84 configurations of sites | 5,554 |
| `apply_patches` | is what was done recorded, and everything applied where nothing comes after a directory? | every layout of a directory, a folder and an archive, nested either way, with series files; one bad patch | 95,225 |
| `images` | is every image as if it were made first, with the table applied, and does the last make get all? | two images, of which cpio adds `/init`; four tables with a node, a series, a new directory, a file, refused lines and an unknown user; static or dynamic `/dev`; three calls of make, cut short anywhere but in the last | 4,240 |
| `kconfig_menu` | does `menu_finalize` keep order and meaning, are exactly the recursions reported? | every menu of up to four entries and four attributes the parser can build from a boolean, a tristate, `MODULES` and a choice, with two dependencies, one condition, two defaults and a select | 120,809 |
| `kconfig_conf` | is what `conf` writes consistent, does it read back, is it safe to kill? | two runs in any of eleven modes on the same files; two choices, the first in the hash table depending on the other, a menu of a package, a select, a hexadecimal number with a range; a crash at every step of the writing | 49,176 |
| `front_ends` | does the menu show what is so, is no change lost? | one session of either program with two changes, loads or saves; a choice that a range depends on, a select, a comment; both menu modes | 68,725 |
| `dialogs` | does what is shown agree with what the keys act on? | five entries in windows of one to five lines, a radio list of two lines for four values, a field of four columns for six characters, texts shorter and longer than the window, four terminal heights; nconfig's search and text, and its field with a buffer of five bytes, opened empty or with two letters | 122,219 |

The instances also evaluate what the theorems assume. `MCPkgBuild` checks that its
packages do not depend on each other in a circle and that its command lines are
such as section 4 speaks of (`LinesAreOrdinary`); `MCPkgRecover`, that its scripts, and
those of every goal by itself, are `Orderly` (`GoalsAreOrderly`), that rebuilds are
complete (`RebuildsAreComplete`), and that dircleans are, with the tool in careful
hands (`DircleansAreComplete`): the hypotheses of the theorems are not empty.

Three runs end in a violation, of what a document or a message of the program says:

- `parallel_builds` (67 states): the manual calls parallel builds from one source
  tree safe (docs/manual/common-usage.txt:46-48); they share `dl/<archive>.tmp`,
  and one of them ends with a truncated archive. With one build it cannot happen:
  that is proved.
- `patches_lost`: a patch listed after a directory or an archive is looked up in
  the wrong place, recorded as applied, and not applied, and the script ends
  well. That the other layouts are safe is proved.
- `load_forgets`: the name of a file that does not exist, in the load dialog of
  menuconfig or nconfig, clears the mark that something has changed; the exit does
  not ask, and the changes are lost. `NothingLostIfFound` shows that nothing else
  loses them.

What the properties say, and why each could fail:

- `StampHonest`: a stamp exists only over work that is complete and up to date. A
  reordered `rm` or a stamp left out of the rebuild list breaks it.
- `DepsBeforeConfigure`, `OrderedSpec`: rest only on the order of prerequisite
  lists. The second is the refinement of `BuildOrder` with `ready` = the packages
  all of whose areas are good.
- `RebuildTakesEffect`: after `make <p>-rebuild` ends well the edit is compiled,
  installed and in the image.
- `DircleanRestores`: after `<p>-dirclean` and a build that ends well, \<p> is whole
  whatever was left there before. `Converges` (liveness): when accidents stop,
  coming back to the commands reaches a complete system.
- `ArchiveWhole`, `GetsThere`: an archive's name means an archive; once sites
  answer, some repetition gets past the download.
- `AppliedIsListed`, `CompleteIfDescentLast`: the list names what is in the
  tree; a run that ends well has applied all, in order.
- `ImageAsFirst`: no image depends on the builds before it, though they share the
  target directory, the script and the table. `TableApplied`: the nodes are what
  the usage message of makedevs promises. `AllMade` (liveness).
- `TreeKeepsOrder`, `VisibleIsReachable`, `ConditionsKept`, `PrintsBack`,
  `RecursionReported`: the moved and simplified menu against the one that was
  written, under every assignment of values; the report of recursions against
  the cycles of the graph.
- `CacheFresh`: no value that is marked valid differs from one calculated from
  scratch, but for what randconfig calculates too early (3.1). `OneValue`, `ReadsBack`, `DefconfigRestores`, `KeepsAnswers`: the files
  against the values. `KeptAside`, `HeadersTouched`, `AutoMatches`: what make and
  the next run see after a crash between any two steps. `FilesSpec`: each step of
  `conf` is one of `ConfFiles`, so that auto.conf is never begun with anything but the
  values of the .config that is there, also when nothing was to be written. `ConfEnds` (liveness): the
  rounds of questions come to an end whatever is answered.
- `ShownIsCurrent`, `ChoiceHasOne`, `NothingLostIfFound`: the session.
- `MenuShowsItems`, `ListShowsItems`, `FieldShowsText`, `TextStaysInSequence`,
  `StaysOnMatch`, `StuckAtAnEnd`, `EditsText`, `ShowsEveryLine`: the windows.

*Why these bounds.* A recipe touches one package and reads its dependencies, so a
package, something it depends on and something both depend on show every
relation between stamps; the three packages differ in every parameter that the
infrastructure branches on. Invocations are unbounded in number. Faults are
spread over the two runs because all at once multiplies states without a new
interaction; the theorems hold for any `Fragile` within their assumption. Two
blocks are the least with an incomplete file. Three names in a directory put
something before, and after, a directory that is descended into. Two images are
the least where one can spoil the other, three calls of make the least with an
interrupted one before and after a whole one. Four entries are the least where one
moves under an entry that itself moves. Two runs of `conf` are the least where one
reads what the other wrote. `MaxChanges` = 2 is a change and a load or save after
it. The lists are longer than the window by at least one full scroll either way.
Named bounds: `MaxBuilds`, `MaxEntries`, `MaxAttributes`, `MaxRuns`, `MaxChanges`,
`MaxHscroll`, `MaxPattern`.

*Fairness.* `PkgBuild!FairSpec` has weak fairness of `Make`: make runs on by
itself and nothing but a recipe's own end or failure stops it; and strong
fairness of each `Invoke(line)`: a person, or a cron job, who comes back to each
of the commands. It is strong because typing another command disables it for a
while. No fairness of faults, and `Converges` assumes that they and the removal
of stamps end. `Download!FairSpec` has weak fairness of each build's shell,
restart included. `Rootfs` has weak fairness of the recipe only: no call of make
is forced. `KConf` says that a process that is not idle goes on.
`CHECK_DEADLOCK FALSE` stands where a process ends: the downloads, the images, a
parsed menu, a session, and nconfig's search when it is stuck.

### 3.1 Properties that are stated with an exception

An exception is a place where the code does something else, seen while the
property was being written:

- A menu that was opened with a saved scroll and is then redrawn by a resize
  shows other items than it acts on (menubox.c:256; `MenuShowsItems`).
- The input field, resized while a text that fits is still scrolled, has its
  cursor off the end of the text (inputbox.c; `FieldShowsText`).
- While nconfig shows all entries, an item is built from a value that nothing
  has calculated since the last change (nconf.c:807; `ShownIsCurrent`).
- `back_lines` takes the end of the text for a line of its own even where no
  newline comes before it, and goes back one line less from there (textbox.c:275;
  `TextStaysInSequence`).
- nconfig's search divides by zero in an empty menu and loops for ever where
  nothing matches and it starts before the first or behind the last item
  (nconf.c:513; `StuckAtAnEnd` says exactly when).
- An insertion in nconfig's input field moves as many bytes from the cursor on as
  the whole text has, and one more (nconf.gui.c:455-460): the bytes behind the buffer are
  overwritten once the text has more than half as many characters as the buffer has
  bytes, always if it is typed from left to right. `EditsText` says so exactly: the text
  is right in any case, no overrun before that length, and one then.
- A rebuild of two packages on one command line: `all` is visited once, after
  the first, so that the second loses its stamps and is not rebuilt
  (pkg-generic.mk:440). The runs have one rebuild goal per line.
- In randconfig a choice that comes in the hash table before one whose value it
  depends on has that value calculated before it is drawn; the value stays y, and
  another one becomes y too (confdata.c:1082, 991). `kconfig_conf` has this order.
  The table remembers such values (`early`), `CacheFresh` and `OneValue` except them,
  and what is made of them, and `ReadsBack` such a file. Without the exception TLC finds
  `OneValue` violated in six steps, against the comment at confdata.c:1073-1076 ("we set
  it to yes, and the rest to no").
- makedevs dies at an unknown user and the image is generated all the same
  (fs/common.mk:60): `ImageAsFirst` and `TableApplied` take the lines up to there for the
  table (`Lines`).

### 3.2 Known weaknesses without a property

- pkg-generic.mk:385-390 and docs/manual/package-make-target.txt list depends
  before extract and patch; the prerequisites (pkg-generic.mk:391) put patch, and
  so source and extract, before depends. A hook of these steps that uses a host
  tool finds it or not, depending on what was built before.
- "all targets depend on the crosscompiler" (Makefile:384): only those that
  `world` names do.
- docs/manual/rebuilding-packages.txt:66-68 says that without `.stamp_configured` a
  package is recompiled "starting from the configuration step"; only that step is run
  again, since `.stamp_built` is there. `RemoveStamp` of `recover` covers what follows.
- TARGETS is appended to by many files; the images are right because
  target-finalize comes after the packages in it (Makefile:338).
- `rm -Rf` of a build directory removes stamps in directory order
  (pkg-generic.mk:184); in `recover`, as an interrupted dirclean.
- Goals that take away what a later goal needs, `<d>-install <d>-uninstall <p>`
  (pkg-generic.mk:423), are what the assumption `Orderly` excludes.
- `rsync -au` never deletes, and keeps newer files (pkg-generic.mk:65).
- A `git archive` that fails half way counts as an archive (pkg-download.mk:91).
- `make source` expands the host dependencies of host packages one level deep
  (Makefile:376).
- The loop over the kernel's patches has the status of the last (linux.mk:140).
- The packages' permissions are in the table only if the configuration names a
  table of its own (fs/common.mk:50).
- makedevs does not look at the result of bb_make_directory, nor at fields that
  a short line does not set (makedevs.c:449, 440); a node named before its directory
  exists in the second image only (503).
- nconfig takes every key that is no part of a search for the end of one, with
  `selected_index` -1, and looks at the entry before the first of a list that is made
  again with it (nconf.c:1296).
- `expr_get_leftmost_symbol` follows the left side of a comparison, a symbol, as if it
  were an expression (expr.c:1023); `Leftmost` gives `Undefined` there.
- A menuconfig dialog shown in a terminal that is too small is shown again for
  ever (mconf.c:724).

## 4. Proofs

All for every value of the constants under the named assumptions.

**`PkgBuildProofs`**, for every set of packages and dependency graph, every `Plan`
and every `Fragile`. `TypeCorrect`, `Spec => []TypeOK`, needs only `PkgAssumption` and
`PlanAssumption`; since it is proved for all of them, no run checks it again. The others assume, where they say so:

- `Orderly`: in the script of each command line every recipe comes after those
  whose results it needs, with nothing between that takes them away.
- `CarefulUser`: no stamp removed by hand, no edits in build directories, no
  clean-up cut short (`CarefulWith(p)` of every package). Without it `StampHonest` is
  false: an interrupted dirclean may leave `.stamp_built` over an empty directory.
  The constants of `daily_work` satisfy it.
- `RebuildsComplete`, `RestoresComplete`: after a clean-for-rebuild, or a dirclean of a
  line that makes an image, every step that it undid is made again, for good, and
  the image comes after that.
- `Guarded(C)`: the packages of `C` are in careful hands, and what a dircleaned
  package depends on is in `C` or dircleaned by the same line. `CarefulUser` is not
  assumed with it: anything may have happened to the packages that are cleaned.

The first three are about make's walk of the target graph, and `MakePlanProofs`
proves them.

| theorem | property | assumes |
|---|---|---|
| `Inductive` | `IInv` | `Orderly`, `CarefulUser` |
| `StampsAreHonest` | `StampHonest` | the same |
| `DependenciesFirst` | `DepsBeforeConfigure` | the same |
| `InstallsInOrder` | `OrderedSpec`, the refinement of `BuildOrder` | the same |
| `RebuildsTakeEffect` | `RebuildTakesEffect` | the same, `RebuildsComplete` |
| `DircleansRestore` | `DircleanRestores` | `Orderly`, `RestoresComplete`, `Guarded(C)` |

`StampHonest` alone is not inductive. `IInv` is `PassedIsDone` (what the walk has come
past is still there, which is how a recipe knows that its inputs are: nothing
checks them) and, of every package, `Sound(p)`: its stamps are honest; `Chained` (a
later stamp implies the earlier ones, so that redoing a step finds no later stamp
that it would make a liar); `HalfDone` (between the commands and the touch the work
is done); `JustCleaned` (clean-for-reconfigure removes `.stamp_configured` only after
clean-for-rebuild has removed what depends on it); it is dirty only as an override
package. That a step keeps `Sound(p)` is proved for each package by itself, from the
soundness of what it depends on (`SoundDeps`) and from no other: `MakeSound` has one
step per recipe and per cut-short recipe, over lemmas on what a step of make does
to the walk, what is there when a recipe runs and the order of stamps.

`InstallsInOrder`: only an installation step makes more of a package good, and it
finds the dependencies installed, because make has come past them in this
invocation (`DepsStillThere`); so every step is one of `BuildOrder` or leaves `Ready`
alone.

`RebuildsTakeEffect` adds `RebuildInv`: since its clean-for-rebuild only a new rsync
gives an override package its stamp back, and that brings the edits
(`SyncedSinceClean`); an image that make has come past holds the packages that were
installed for good before it (`InImage`).

`DircleansRestore` has no invariant of the state between invocations but for the
packages of `C`, because nothing need be true of the others. Its invariant
`RestoreInv(C)` says of a package that is to be restored: once make has come past its
dirclean, it is sound (a dirclean that runs to its end makes any package sound,
`DircleanSound`), and so are those that it depends on by the time a recipe uses them;
and it is in the image as above. TLC agrees on `recover` with `C = {tool}`.

**`MakePlanProofs`**, about `Prereqs` and the recursive function `Walk`, for every set
of packages, under hypotheses on what the user gives make:

- `Acyclic`: there is a rank by which every package is above those it depends on.
- `Planned`: every command line is dircleans followed by one goal of a package or
  of the whole build (`DircleansFirst`), and its `Plan` is what the walk has come to
  where it ends (`IsPlanOf`).
- `RebuildsBuilt`: a rebuild or reconfiguration is of a package that `all' builds,
  and clean-for-rebuild is not asked for by itself.
- `RestoresBuilt`: where the line ends with the whole build, or a rebuild, the
  packages that it dircleans are such that `all' builds; otherwise it dircleans
  none, or does nothing else.

Without `DircleansFirst` the conclusion is false: `<d>-install <d>-uninstall <p>`.

`PlansAreOrderly` proves `Orderly`; `PlansRebuildInFull`, `RebuildsComplete`;
`PlansRestoreInFull`, `RestoresComplete`. The proof first lists the edges of the graph
(`Edges`) and shows that each leads downwards, by `Level`, the rank of the package
and `Height` in that order, so that there is no circle. Then it
describes a step of the walk as a goal or prerequisite that is started or skipped,
or a target that is finished, and keeps `WalkInv`: `Shape` (the stack is a path in the
graph; what is on it, finished and still unseen), `Progress` (what is finished has its
prerequisites finished, and its recipe in the order, after what it needs) and
`Phases` (recipes that take stamps away come first, or, for a goal that uninstalls, last;
clean-for-reconfigure comes right after clean-for-rebuild). `ForGoal` says what
is done only for the sake of the goals, and that an image of the whole build
comes after all that is built.

So the theorems above hold of every build: `BuildsKeepStampsHonest`,
`BuildsPutDependenciesFirst`, `BuildsInstallInOrder`, `BuildsTakeEffect` and `BuildsRestore`
assume nothing about the order of recipes.

**`Induction`** makes this possible. The provers cannot use the library's induction
theorems, which take a predicate; `SetInduction` is the same for a set of numbers,
proved from well-foundedness. From it follow that a function defined by recursion on
the naturals exists and satisfies its equation (`RunExists`), and that bounded sets
have least and greatest elements (`LeastExists`, `GreatestExists`).

**`DialogsProofs`**, about the dialogs of menuconfig together with the program that
calls them (`DialogsSpec`), for any number of entries, any height of the terminal and any keys:

- `MenuAlwaysShowsItems` (`MenuShowsItems`), with `RowsAssumption` and `MenuAssumption`. `MenuInv`: the
  window shows the items from the scroll on line by line, the choice is within it, and
  between two keys its line is lit and no other; a menu that was opened with a saved
  scroll is excepted once it was redrawn by a resize, as in the property.
- `ListAlwaysShowsItems` (`ListShowsItems`), with `ListAssumption` (a radio list has
  values); the same for `ListInv`.
- `FieldAlwaysShowsText` (`FieldShowsText`), with `FieldAssumption` (at least two columns).
  `InField`: until the exception of the property, scroll, cursor and what the field
  shows are those of the end of the text.
- `TextAlwaysInSequence` (`TextStaysInSequence`), with `TextAssumption` (texts of at least one
  line, windows of at least five rows) and `NoEmptyBox`. `InText`: for a text that ends with
  a newline there is a line at the top of the window, those that are shown follow
  it, and the place to read on from and the marks of the two ends agree with that.

Likewise for nconfig:

- `SearchAlwaysOnMatch` (`StaysOnMatch`) and `SearchStuckOnlyAtAnEnd` (`StuckAtAnEnd`), for every
  menu of strings (`ItemsAssumption`). `SearchInv`: the current item matches
  every beginning of the pattern that some item matches (`Searched`), and the search
  stands still only where `StuckAtAnEnd` says (`Standstill`).
- `BufferAlwaysEdited` (`EditsText`), for every size of the buffer and every text that
  fits when it is opened (`BufferAssumption`). `InBuffer`: the memory holds the edited text, ended
  by a zero, and the cursor is in it; what is behind the buffer is as it was while the
  text was never longer than half of it (`BeyondKept`); and a text that was only typed
  from left to right has, for each length it had, left the bytes that were moved then
  (`Appended`).
- `EveryLineShown` (`ShowsEveryLine`), for every terminal of at least twenty lines, which
  is what nconf asks for (`ScreenAssumption`). `WinInv`: the window is within the text, and
  what has been shown reaches to its lower edge without a gap.

**`ApplyPatchesProofs`**, for every layout, of any depth: `TypeCorrect`;
`EverythingIsListed` (`AppliedIsListed`); `AllAreApplied` (`CompleteIfDescentLast`). The last
one rests on an invariant of the stack of calls: what was applied, followed by what
the calls on the stack have left, from the innermost outwards, is the order in
which the whole layout is to be applied; it holds where the variable `path` is not
used after a descent, which is what "nothing listed after a directory" gives.

**`DownloadProofs`**: `AloneArchiveWhole`, `ArchiveWhole` for one build (`OneBuild`), any
`Size` and any configuration. The invariant says that the writer's file is the one
named `.tmp`, that it holds the blocks from the first to where the build has come,
that it is whole before the rename, and that the archive is never the same file.
With two builds it is false (`parallel_builds`).

**`RootfsProofs`**, for every target directory, table, set of images and number of
builds: `WarningNeverShipped`, the part of `ImageAsFirst` that does not depend on
makedevs, from the place in the recipe at which the warning file is away
(`WarningInv`) and from images having different names (`ImagesByName`).
`EveryImageAsFirst` (`ImageAsFirst`) and `ImagesHaveTheTable` (`TableApplied`), for tables
that are `Orderly`: a name is a path other than /init, is named by entries of one kind,
which agrees with what the packages install there, and the directory of a device
comes before it. The tables of the repository (system/device_table.txt,
device_table_dev.txt, board/raspberrypi/device_table.txt) are like that, the
instance's tables too (`TablesAreOrderly` of `MCRootfs`); the last clause excludes the
node that exists in the second image only (3.2). `ImagesHaveTheTable` needs `MinorsFit`
besides: in no series of the table do 32 bits overflow.
The argument: a line does to each path something that depends on that path alone
(`Effect`; `EntryIs`, from `MakeDirectoryMakes` and `NodesAre`, inductions over the way
to a path and over a series). What a path may be when an image is begun, after any
builds, is bounded (`May`): a directory of the table is a directory or nothing, a device
may be the empty file that fakeroot left, a path no entry names is as the packages
left it. On these states the last line that settles a path, by naming it or by making
it on the way to another, gives it the same whatever it was (`EffectSettles`). So after k
lines a tree agrees with the k-th of the first application on every path that no
later line settles (`Agrees`), and after the last one on all. The invariant
(`ImageInv`) says this at each line, that a tree is one of these at each
other place, also when it belongs to the user again (`OfPackages`), and that
what was made is complete; TLC checked it in all states of `images` before the proof.

**`ConfFilesProofs`**, for all symbols, contents of the files and numbers of runs of
`conf`, each killed anywhere: `OldOneIsKept` (`KeptAside`), `AutoIsOfConfig` (`AutoMatches`)
and `NoHeaderMissed` (`HeadersTouched`), of `FilesSpec`. The three are not inductive by
themselves; `FilesInv` adds what the temporary file is in each phase (`TmpSound`): it is
there between the renames, for auto.conf it agrees with .config, what it changes
has been touched, an auto.conf that is up to date is not changed by it, and
autoconf.h is the same before auto.conf follows. The headers that were touched are
counted until auto.conf is replaced, not until the run ends, which is why a run that
is killed and one with other answers after it leave no header out. What is assumed of
a run is in the guards of `ConfFiles`: above all that auto.conf is written with the
values of .config. That `conf` fulfils them is the property `FilesSpec` of
`kconfig_conf`. TLC checked `FilesInv` in all states of that run before the proof.

Only model-checked:

- liveness (`Converges`, `GetsThere`, `AllMade`, `ConfEnds`): under fairness the prover
  does not reach it;
- Kconfig and the sessions on it: expressions, menus and values are recursive
  operators there, like the code, and what such an operator computes needs
  induction over data; so does that `KConf` implements `FilesSpec`.

## 5. Not modelled

- gconf and qconf: GTK and Qt programs whose state is in widgets; what they do to
  a configuration they do through `symbol.c` and `confdata.c`.
- The contents of the toolchain stages; the external toolchain's wrapper, a
  sequential rewriting of arguments that ends in `execv`.
- elf2flt and mcookie: third-party, a linker's back end and an MD5.
- `make source`, the kernel's hooks and the boot loaders: expansions of text and
  packages with commands of their own.
- autotools, CMake, helper functions: they supply text to the steps.
- Package recipes and patches, boards, configurations: data. legal-info,
  graph-depends and the other reports: nothing reads what they write.
- The checks in `toolchain/helpers.mk` and `support/dependencies`: text processing of
  other programs' output.

## 6. What would come next

The order in which the project would grow: `make source` against the closure of
the dependency graph; the kernel's second make for the initramfs; a `.config` with
environment symbols and "visible if"; two rebuild goals on a command line, once it
is settled what they ought to do; the evaluation of expressions as a recursive
function, as the device table is, so that `CacheFresh` can be proved with `Induction`.
