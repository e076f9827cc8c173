---------------------------- MODULE ApplyPatches ----------------------------
(***************************************************************************)
(* support/scripts/apply-patches.sh, run on the build directory of one     *)
(* package, again when it failed or was interrupted: scan_patchdir goes    *)
(* down into directories and archives, apply_patch feeds one file to patch. *)
(*                                                                         *)
(* Shell variables are global.  Of those that scan_patchdir shares with    *)
(* the calls it makes to itself, `path' is read after such a call.         *)
(***************************************************************************)
EXTENDS Naturals, Sequences

CONSTANTS
    Patch,      \* file names with a suffix that apply_patch supports
    Other,      \* file names with another suffix
    Folder,     \* names of directories
    Archive,    \* names of .tar, .tbz2 and .tgz archives
    Root,       \* the directory the script is given
    Nowhere,    \* the empty directory made for an archive that is not found
    Layouts,    \* what the directories may hold, see Layout
    Bad         \* patches that do not apply to the package

Name == Patch \cup Other \cup Folder \cup Archive
Dir  == {Root, Nowhere} \cup Folder \cup Archive     \* an archive: what is in it
File == Dir \X Patch                        \* a patch, by the directory that holds it

(* list: the lines of the series file, or else the names that match the    *)
(* patterns, in the order of ls; files: what is there.                     *)
Contents == [ series : BOOLEAN, list : Seq(Name), files : SUBSET Name ]
Listed(c) == { c.list[i] : i \in DOMAIN c.list }
Sound(c) == IF c.series THEN Listed(c) \subseteq Patch \cup Other ELSE Listed(c) = c.files

ASSUME ApplyPatchesAssumption ==
    /\ \A l \in Layouts : /\ DOMAIN l = Dir
                          /\ \A d \in Dir : l[d] \in Contents /\ Sound(l[d])
                          /\ l[Nowhere].files = {} /\ ~l[Nowhere].series
    /\ Bad \subseteq File
    /\ Patch \cap Other = {} /\ (Patch \cup Other) \cap (Folder \cup Archive) = {}
    /\ Folder \cap Archive = {} /\ {Root, Nowhere} \cap Name = {} /\ Root # Nowhere

VARIABLES
    layout, \* the patch directory and what is below it
    path,   \* the global shell variable
    stack,  \* the calls of scan_patchdir, the innermost first
    status, \* the script: "none", "running" or its exit status
    tree,   \* the patches that the build directory holds, in whole or in part
    listed  \* the names in .applied_patches_list

vars == << layout, path, stack, status, tree, listed >>

Held(d) == layout[d].files
Frame(d) == [ series |-> layout[d].series, todo |-> layout[d].list ]
Call == [ series : BOOLEAN, todo : Seq(Name) ]

TypeOK ==
    /\ DOMAIN layout = Dir
    /\ path \in Dir
    /\ stack \in Seq(Call)
    /\ status \in { "none", "running", "ok", "failed" }
    /\ tree \subseteq File
    /\ listed \subseteq Patch

Init ==
    /\ layout \in Layouts
    /\ path = Root /\ stack = <<>> /\ status = "none"
    /\ tree = {} /\ listed = {}

-----------------------------------------------------------------------------
Run ==
    /\ status # "running" /\ status' = "running"
    /\ path' = Root /\ stack' = << Frame(Root) >>
    /\ UNCHANGED << layout, tree, listed >>

Current == Head(Head(stack).todo)
AtEntry == status = "running" /\ stack # <<>> /\ Head(stack).todo # <<>>
Rest == << [Head(stack) EXCEPT !.todo = Tail(@)] >> \o Tail(stack)

IsFolder  == ~Head(stack).series /\ Current \in Folder \cap Held(path)
IsArchive == ~Head(stack).series /\ Current \in Archive

PathKept(d) == path' = path /\ stack' = << Frame(d) >> \o Rest     \* mutant
Enter(d) == path' = d /\ stack' = << Frame(d) >> \o Rest

Descend ==
    /\ AtEntry /\ IsFolder
    /\ Enter(Current)
    /\ UNCHANGED << layout, status, tree, listed >>

(* tar says so when there is no such archive, and the script goes on. *)
Unpack ==
    /\ AtEntry /\ IsArchive
    /\ Enter(IF Current \in Held(path) THEN Current ELSE Nowhere)
    /\ UNCHANGED << layout, status, tree, listed >>

(* apply_patch skips what it has no command for. *)
Skip ==
    /\ AtEntry /\ ~IsFolder /\ ~IsArchive /\ Current \notin Patch
    /\ stack' = Rest
    /\ UNCHANGED << layout, path, status, tree, listed >>

Applying == AtEntry /\ Current \in Patch
Opened == Current \in Held(path)    \* else cat fails and patch reads nothing
Applies == ~Opened \/ <<path, Current>> \notin Bad \cup tree

ApplyPatch ==
    /\ Applying /\ Applies
    /\ listed' = listed \cup {Current}
    /\ tree' = IF Opened THEN tree \cup {<<path, Current>>} ELSE tree
    /\ stack' = Rest
    /\ UNCHANGED << layout, path, status >>

ListedLate ==     \* mutant: the list is written after a patch has applied
    /\ Applying /\ ~Applies
    /\ tree' \in { tree, tree \cup {<<path, Current>>} }
    /\ status' = "failed" /\ stack' = <<>>
    /\ UNCHANGED << layout, path, listed >>

(* Some hunks may apply before the one that does not. *)
PatchFails ==
    /\ Applying /\ ~Applies
    /\ listed' = listed \cup {Current}
    /\ tree' \in { tree, tree \cup {<<path, Current>>} }
    /\ status' = "failed" /\ stack' = <<>>
    /\ UNCHANGED << layout, path >>

(* `path' stays what the inner call has made it. *)
Return ==
    /\ status = "running" /\ stack # <<>> /\ Head(stack).todo = <<>>
    /\ stack' = Tail(stack)
    /\ UNCHANGED << layout, path, status, tree, listed >>

(* No rejects are left: patch has failed where it has left one. *)
Exit ==
    /\ status = "running" /\ stack = <<>>
    /\ status' = "ok"
    /\ UNCHANGED << layout, path, stack, tree, listed >>

Script == Run \/ Descend \/ Unpack \/ Skip \/ ApplyPatch \/ PatchFails \/ Return \/ Exit

(* ^C, perhaps in the middle of a patch. *)
Interrupt ==
    /\ status = "running"
    /\ \/ UNCHANGED << tree, listed >>
       \/ /\ Applying /\ listed' = listed \cup {Current}
          /\ \/ UNCHANGED tree
             \/ Opened /\ tree' = tree \cup {<<path, Current>>}
    /\ status' = "failed" /\ stack' = <<>>
    /\ UNCHANGED << layout, path >>

(* <p>-dirclean and the next extraction. *)
StartOver ==
    /\ status \in { "ok", "failed" }
    /\ status' = "none" /\ tree' = {} /\ listed' = {} /\ path' = Root
    /\ UNCHANGED << layout, stack >>
Next == Script \/ Interrupt \/ StartOver

Spec == Init /\ [][Next]_vars

-----------------------------------------------------------------------------

(* Whatever a run has done to the tree, in whole or in part, is in         *)
(* .applied_patches_list.                                                  *)
AppliedIsListed ==
    \A f \in tree : f[2] \in listed

(* The directories below Root. *)
Below(d) == { e \in Folder \cup Archive : ~layout[d].series /\ e \in Listed(layout[d]) }
Scanned == { d \in Dir : \A S \in SUBSET Dir :
                 Root \in S /\ (\A e \in S : Below(e) \subseteq S) => d \in S }
Wanted == { f \in File : /\ f[1] \in Scanned
                         /\ f[2] \in Listed(layout[f[1]]) \cap Held(f[1]) }

(* What spares a layout the loss of `path': nothing comes after a          *)
(* directory or an archive.                                                *)
DescentLast ==
    \A d \in Scanned : LET l == layout[d].list IN
        \A i \in DOMAIN l : l[i] \in Below(d) => i = Len(l)

(* On such a layout a run that ends well has applied every patch there is  *)
(* and nothing else.                                                       *)
CompleteIfDescentLast ==
    status = "ok" /\ DescentLast => tree = Wanted

(* apply-patches.sh:16 and 25: the script looks "recursively for patches   *)
(* from the patch directory" and tries to apply each that it finds.        *)
AppliesWhatItFinds == status = "ok" => Wanted \subseteq tree
=============================================================================
