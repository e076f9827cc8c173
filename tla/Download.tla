------------------------------ MODULE Download ------------------------------
(***************************************************************************)
(* The download infrastructure (package/pkg-download.mk): how the builds   *)
(* that share a download directory get one archive into it.                *)
(*                                                                         *)
(* Each build runs the shell commands of DOWNLOAD_INNER: one site after    *)
(* the other, until a method says that the archive is there.  The file     *)
(* system is modelled as far as these commands can tell: names for inodes, *)
(* and inodes that hold some of the blocks of the archive, because a       *)
(* writer keeps its file open when another build renames or truncates it.  *)
(***************************************************************************)
EXTENDS Naturals, Sequences, FiniteSets

CONSTANTS
    Builds,     \* the builds that share the download directory
    Size,       \* the blocks of a complete archive
    Inode,      \* the files of the file system
    None,       \* no file
    Configs,    \* the site configurations, see Config
    Unlucky     \* the builds that sites let down or somebody interrupts

Wget    == { "wget" }
InPlace == { "scp", "file", "bzr" }     \* write the archive under its own name
Vcs     == { "git", "svn", "hg" }       \* check out a working copy, then pack it
Method  == Wget \cup InPlace \cup Vcs

(* BR2_PRIMARY_SITE, BR2_PRIMARY_SITE_ONLY, the package's site method and  *)
(* BR2_BACKUP_SITE.                                                        *)
Config == [ primary : { "none", "wget", "scp" }, only : BOOLEAN,
            upstream : Method, backup : BOOLEAN ]

ASSUME DownloadAssumption ==
    /\ Size \in Nat \ {0}
    /\ None \notin Inode
    /\ Configs \subseteq Config
    /\ Unlucky \subseteq Builds
    /\ IsFiniteSet(Builds) /\ IsFiniteSet(Inode)
    /\ Cardinality(Inode) > Cardinality(Builds) + 1

VARIABLES
    conf,   \* the site configuration
    pc,     \* build -> what its shell is about to do
    site,   \* build -> the site it is trying
    fd,     \* build -> the file it is writing
    pos,    \* build -> the blocks it has written
    names,  \* the download directory: the archive and its .tmp file
    data,   \* inode -> its blocks
    clone   \* a working copy of the package is in the download directory

vars == << conf, pc, site, fd, pos, names, data, clone >>

Block == 1..Size
Name  == { "archive", "tmp" }
Whole == names["archive"] # None /\ data[names["archive"]] = Block

Sites == (IF conf.primary = "none" THEN <<>> ELSE << conf.primary >>)
         \o (IF conf.only THEN <<>>
             ELSE << conf.upstream >> \o (IF conf.backup THEN << "wget" >> ELSE <<>>))
WgetOnly == \A i \in DOMAIN Sites : Sites[i] \in Wget
Using(b) == Sites[site[b]]

TypeOK ==
    /\ conf \in Config
    /\ pc \in [Builds -> { "idle", "site", "checkout", "open", "write", "rename",
                           "cleanup", "tidy", "ok", "failed" }]
    /\ site \in [Builds -> 1..4]
    /\ fd \in [Builds -> Inode \cup {None}]
    /\ pos \in [Builds -> 0..Size]
    /\ names \in [Name -> Inode \cup {None}]
    /\ data \in [Inode -> SUBSET Block]
    /\ clone \in BOOLEAN

Init ==
    /\ conf \in Configs
    /\ pc = [b \in Builds |-> "idle"]
    /\ site = [b \in Builds |-> 1]
    /\ fd = [b \in Builds |-> None]
    /\ pos = [b \in Builds |-> 0]
    /\ names = [n \in Name |-> None]
    /\ data = [i \in Inode |-> {}]
    /\ clone = FALSE

-----------------------------------------------------------------------------
disk == << names, data, clone >>

Goto(b, label) == pc' = [pc EXCEPT ![b] = label]
Release(b) == fd' = [fd EXCEPT ![b] = None] /\ pos' = [pos EXCEPT ![b] = 0]
NextSite(b) == Goto(b, "site") /\ site' = [site EXCEPT ![b] = @ + 1]

(* make runs the recipe of .stamp_downloaded, for the first time or again. *)
Start(b) ==
    /\ pc[b] \in { "idle", "failed" }
    /\ Goto(b, "site")
    /\ site' = [site EXCEPT ![b] = 1]
    /\ UNCHANGED << conf, fd, pos, disk >>

(* Every method begins with `test -e' of the archive. *)
AlreadyThere(b) ==
    /\ pc[b] = "site" /\ site[b] \in DOMAIN Sites
    /\ names["archive"] # None
    /\ Goto(b, "ok")
    /\ UNCHANGED << conf, site, fd, pos, disk >>

TrySite(b) ==
    /\ pc[b] = "site" /\ site[b] \in DOMAIN Sites
    /\ names["archive"] = None
    /\ Goto(b, IF Using(b) \in Vcs THEN "checkout" ELSE "open")
    /\ UNCHANGED << conf, site, fd, pos, disk >>

OutOfSites(b) ==
    /\ pc[b] = "site" /\ site[b] \notin DOMAIN Sites
    /\ Goto(b, "failed")
    /\ UNCHANGED << conf, site, fd, pos, disk >>

(* git clone, svn export and hg clone refuse a directory that is there. *)
Checkout(b) ==
    /\ pc[b] = "checkout" /\ ~clone
    /\ clone' = TRUE /\ Goto(b, "open")
    /\ UNCHANGED << conf, site, fd, pos, names, data >>

RefusalIsFatal(b) ==     \* mutant
    /\ pc[b] = "checkout" /\ clone
    /\ Goto(b, "failed") /\ UNCHANGED << conf, site, fd, pos, disk >>

CheckoutRefused(b) ==
    /\ pc[b] = "checkout" /\ clone
    /\ NextSite(b) /\ UNCHANGED << conf, fd, pos, disk >>

(* The file is created, or truncated whoever else is writing it. *)
NoTmp(b) == "archive"     \* mutant
Output(b) == IF Using(b) \in Wget THEN "tmp" ELSE "archive"
InUse == { names[n] : n \in Name } \cup { fd[b] : b \in Builds }
OpenOutput(b) ==
    /\ pc[b] = "open"
    /\ LET i == IF names[Output(b)] # None THEN names[Output(b)]
                                           ELSE CHOOSE x \in Inode : x \notin InUse
       IN  /\ names' = [names EXCEPT ![Output(b)] = i]
           /\ data' = [data EXCEPT ![i] = {}]
           /\ fd' = [fd EXCEPT ![b] = i]
    /\ Goto(b, "write")
    /\ UNCHANGED << conf, site, pos, clone >>

WriteBlock(b) ==
    /\ pc[b] = "write" /\ pos[b] < Size
    /\ pos' = [pos EXCEPT ![b] = @ + 1]
    /\ data' = [data EXCEPT ![fd[b]] = @ \cup {pos[b] + 1}]
    /\ UNCHANGED << conf, pc, site, fd, names, clone >>

AfterWrite(b) == CASE Using(b) \in Wget    -> "rename"
                   [] Using(b) \in InPlace -> "ok"
                   [] Using(b) \in Vcs     -> "tidy"
Written(b) ==
    /\ pc[b] = "write" /\ pos[b] = Size
    /\ Goto(b, AfterWrite(b)) /\ Release(b)
    /\ UNCHANGED << conf, site, disk >>

(* mv, which fails when another build has moved or removed the file. *)
Rename(b) ==
    /\ pc[b] = "rename"
    /\ IF names["tmp"] = None
       THEN Goto(b, "cleanup") /\ UNCHANGED names
       ELSE /\ Goto(b, "ok")
            /\ names' = [archive |-> names["tmp"], tmp |-> None]
    /\ UNCHANGED << conf, site, fd, pos, data, clone >>

Cleanup(b) ==
    /\ pc[b] = "cleanup"
    /\ names' = [names EXCEPT !["tmp"] = None]
    /\ NextSite(b)
    /\ UNCHANGED << conf, fd, pos, data, clone >>

RemoveCheckout(b) ==
    /\ pc[b] = "tidy"
    /\ clone' = FALSE /\ Goto(b, "ok")
    /\ UNCHANGED << conf, site, fd, pos, names, data >>

-----------------------------------------------------------------------------
(* What goes wrong: the site does, or somebody presses ^C. *)

SiteRefuses(b) ==
    /\ \/ pc[b] = "open" /\ Using(b) \in InPlace
       \/ pc[b] = "checkout" /\ ~clone
    /\ clone' = (clone \/ Using(b) = "svn")     \* svn leaves what it has got
    /\ NextSite(b) /\ UNCHANGED << conf, fd, pos, names, data >>

(* The exit status of `git archive | gzip' is that of gzip. *)
TransferFails(b) ==
    /\ pc[b] = "write" /\ Release(b)
    /\ \/ Using(b) \in Wget /\ Goto(b, "cleanup") /\ UNCHANGED site
       \/ Using(b) = "git" /\ Goto(b, "tidy") /\ UNCHANGED site
       \/ Using(b) \in Method \ (Wget \cup {"git"}) /\ NextSite(b)
    /\ UNCHANGED << conf, disk >>

Interrupt(b) ==
    /\ pc[b] \notin { "idle", "ok", "failed" }
    /\ Goto(b, "idle") /\ Release(b)
    /\ UNCHANGED << conf, site, disk >>

Shell(b) == \/ Start(b) \/ AlreadyThere(b) \/ TrySite(b) \/ OutOfSites(b)
            \/ Checkout(b) \/ CheckoutRefused(b) \/ OpenOutput(b) \/ WriteBlock(b)
            \/ Written(b) \/ Rename(b) \/ Cleanup(b) \/ RemoveCheckout(b)

Fault(b) == SiteRefuses(b) \/ TransferFails(b) \/ Interrupt(b)
AnyFault == \E b \in Unlucky : Fault(b)

Next == (\E b \in Builds : Shell(b)) \/ AnyFault

Spec == Init /\ [][Next]_vars
(* Every build runs on, and is started again when it failed. *)
FairSpec == Spec /\ \A b \in Builds : WF_vars(Shell(b))

-----------------------------------------------------------------------------
(* pkg-download.mk:171-176: wget writes to a temporary file "to handle an  *)
(* interrupted download": whatever fails or is interrupted, a file with    *)
(* the archive's name is complete, as every later build takes it to be.    *)
ArchiveWhole == WgetOnly => (names["archive"] # None => Whole)

(* Once sites answer and nobody interrupts, running make again gets the    *)
(* package past its download: nothing left in the download directory       *)
(* stands in the way for good, not even a working copy, if there is a site *)
(* that does not need one.                                                 *)
GetsThere ==
    (\E i \in DOMAIN Sites : Sites[i] \notin Vcs) /\ <>[][~AnyFault]_vars
        => \A b \in Builds : <>(pc[b] = "ok")
=============================================================================
