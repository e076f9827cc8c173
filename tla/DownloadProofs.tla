--------------------------- MODULE DownloadProofs ---------------------------
(***************************************************************************)
(* What wget's temporary file is good for: with one build, an archive in   *)
(* the download directory is a whole one, for every size, wherever the     *)
(* transfers break off and however often the build is run again.           *)
(***************************************************************************)
EXTENDS Download, SequenceTheorems, FiniteSetTheorems, TLAPS

OneBuild == \E b : Builds = {b}

LEMMA Joined ==
  ASSUME NEW s \in Seq(Method), NEW t \in Seq(Method), NEW m \in Nat, NEW n \in Nat,
         Len(s) <= m, Len(t) <= n
  PROVE  s \o t \in Seq(Method) /\ Len(s \o t) <= m + n
BY ConcatProperties, LenProperties

LEMMA SitesFacts ==
  ASSUME conf \in Config
  PROVE  Sites \in Seq(Method) /\ Len(Sites) <= 3
<1> DEFINE up == << conf.upstream >>
           first == IF conf.primary = "none" THEN <<>> ELSE << conf.primary >>
           last == IF conf.backup THEN << "wget" >> ELSE <<>>
           rest == IF conf.only THEN <<>> ELSE up \o last
<1>1. /\ conf.primary # "none" => conf.primary \in Method
      /\ conf.upstream \in Method /\ "wget" \in Method
      /\ conf.only \in BOOLEAN /\ conf.backup \in BOOLEAN
  BY DEF Config, Method, Wget, InPlace
<1>2. <<>> \in Seq(Method) /\ Len(<<>>) = 0
  BY EmptySeq
<1>3. first \in Seq(Method) /\ Len(first) <= 1
  BY <1>1, <1>2
<1>4. last \in Seq(Method) /\ Len(last) <= 1
  BY <1>1, <1>2
<1>5. up \in Seq(Method) /\ Len(up) <= 1
  BY <1>1
<1>6. Sites = first \o rest
  BY DEF Sites
<1> HIDE DEF up, last, first
<1>7. up \o last \in Seq(Method) /\ Len(up \o last) <= 1 + 1
  BY <1>4, <1>5, Joined
<1>8. rest \in Seq(Method) /\ Len(rest) <= 2
  BY <1>1, <1>2, <1>7
<1> HIDE DEF rest
<1>9. first \o rest \in Seq(Method) /\ Len(first \o rest) <= 1 + 2
  BY <1>3, <1>8, Joined
<1> QED
  BY <1>6, <1>9

Label == { "idle", "site", "checkout", "open", "write", "rename", "cleanup", "tidy", "ok", "failed" }
AtSite == { "checkout", "open", "write", "rename", "cleanup", "tidy" }

\* The build b has a file open while it writes and never else, and whenever it
\* has to do with a site it is at one.
ShellInv(b) ==
  /\ TypeOK
  /\ pc[b] \in AtSite => site[b] \in DOMAIN Sites
  /\ IF pc[b] = "write" THEN fd[b] # None ELSE fd[b] = None /\ pos[b] = 0

\* With wget only: what is written is the temporary file, from its beginning
\* up to where the build has come, and it is whole before it is renamed.
WgetInv(b) ==
  WgetOnly =>
    /\ names["archive"] # None => Whole /\ names["archive"] # names["tmp"]
    /\ pc[b] \notin { "checkout", "tidy" }
    /\ pc[b] = "write" => fd[b] = names["tmp"] /\ data[fd[b]] = 1 .. pos[b]
    /\ pc[b] = "rename" => names["tmp"] # None /\ data[names["tmp"]] = Block

LEMMA InitInv == ASSUME Init, NEW b \in Builds PROVE ShellInv(b) /\ WgetInv(b)
<1>1. conf \in Config
  BY DownloadAssumption DEF Init
<1>2. 0 \in 0 .. Size
  BY DownloadAssumption
<1>3. TypeOK
  <2>1. pc \in [Builds -> Label]
    BY DEF Init, Label
  <2>2. /\ site \in [Builds -> 1..4] /\ fd \in [Builds -> Inode \cup {None}]
        /\ pos \in [Builds -> 0..Size]
    BY <1>2 DEF Init
  <2>3. names \in [Name -> Inode \cup {None}] /\ data \in [Inode -> SUBSET Block] /\ clone \in BOOLEAN
    BY DEF Init
  <2> QED
    BY <1>1, <2>1, <2>2, <2>3 DEF TypeOK, Label
<1> QED
  BY <1>3 DEF Init, ShellInv, WgetInv, AtSite, Name

\* With one build there is a file that nobody uses.
LEMMA FreshInode ==
  ASSUME NEW b, Builds = {b}, fd[b] = None, names["tmp"] = None \/ names["archive"] = None
  PROVE  (CHOOSE x \in Inode : x \notin InUse) \in Inode \ InUse
<1> DEFINE other == IF names["tmp"] = None THEN names["archive"] ELSE names["tmp"]
<1>1. InUse = { other } \cup { None }
  BY DEF InUse, Name
<1>2. Cardinality(Builds) = 1 /\ IsFiniteSet(Inode) /\ Cardinality(Inode) > 2
  BY FS_Singleton, FS_CardinalityType, DownloadAssumption
<1>3. IsFiniteSet({ other }) /\ Cardinality({ other }) = 1
  BY FS_Singleton
<1>4. IsFiniteSet({ other } \cup { None }) /\ Cardinality({ other } \cup { None }) <= 2
  BY <1>3, FS_AddElement
<1>5. ASSUME Inode \subseteq { other } \cup { None } PROVE FALSE
  BY <1>2, <1>4, <1>5, FS_Subset, FS_CardinalityType
<1> QED
  BY <1>1, <1>5

LEMMA NextSiteFacts ==
  ASSUME TypeOK, NEW b \in Builds, site[b] \in DOMAIN Sites
  PROVE  site[b] \in 1 .. 3 /\ site[b] + 1 \in 1 .. 4
BY SitesFacts, LenProperties DEF TypeOK

\* Steps that leave the disk as it is and no file open.
LEMMA ControlStep ==
  ASSUME NEW b, Builds = {b}, ShellInv(b), WgetInv(b),
         UNCHANGED << conf, fd, pos, names, data >>, clone' \in BOOLEAN, pc[b] # "write",
         NEW l \in Label \ { "write", "rename" }, Goto(b, l), site' \in [Builds -> 1 .. 4],
         l \in AtSite => site' = site /\ site[b] \in DOMAIN Sites,
         WgetOnly => l \notin { "checkout", "tidy" }
  PROVE  ShellInv(b)' /\ WgetInv(b)'
<1>1. pc'[b] = l /\ pc' \in [Builds -> Label]
  BY DEF Goto, ShellInv, TypeOK, Label
<1>2. Sites' = Sites /\ WgetOnly' = WgetOnly
  BY DEF Sites, WgetOnly
<1>3. TypeOK'
  BY <1>1 DEF ShellInv, TypeOK, Label, Block, Name
<1>4. ShellInv(b)'
  BY <1>1, <1>2, <1>3 DEF ShellInv
<1>5. WgetInv(b)'
  BY <1>1, <1>2 DEF WgetInv, Whole, Block
<1> QED
  BY <1>4, <1>5

LEMMA ControlSteps ==
  ASSUME NEW b, Builds = {b}, ShellInv(b), WgetInv(b),
         \/ Start(b) \/ AlreadyThere(b) \/ TrySite(b) \/ OutOfSites(b) \/ Checkout(b)
         \/ CheckoutRefused(b) \/ RemoveCheckout(b) \/ SiteRefuses(b)
  PROVE  ShellInv(b)' /\ WgetInv(b)'
<1>1. /\ TypeOK /\ b \in Builds /\ clone \in BOOLEAN /\ site \in [Builds -> 1 .. 4]
      /\ pc[b] \in AtSite => site[b] \in DOMAIN Sites
  BY DEF ShellInv, TypeOK
<1>2. CASE Start(b)
  BY <1>1, <1>2, ControlStep DEF Start, disk, Label, AtSite
<1>3. CASE AlreadyThere(b)
  BY <1>1, <1>3, ControlStep DEF AlreadyThere, disk, Label, AtSite
<1>4. CASE TrySite(b)
  <2>1. WgetOnly => Using(b) \notin Vcs
    BY <1>4 DEF TrySite, WgetOnly, Using, Wget, Vcs
  <2>2. CASE Using(b) \in Vcs
    BY <1>1, <1>4, <2>1, <2>2, ControlStep DEF TrySite, disk, Label, AtSite
  <2>3. CASE Using(b) \notin Vcs
    BY <1>1, <1>4, <2>3, ControlStep DEF TrySite, disk, Label, AtSite
  <2> QED
    BY <2>2, <2>3
<1>5. CASE OutOfSites(b)
  BY <1>1, <1>5, ControlStep DEF OutOfSites, disk, Label, AtSite
<1>6. CASE Checkout(b)
  <2>1. ~WgetOnly
    BY <1>6 DEF Checkout, WgetInv
  <2> QED
    BY <1>1, <1>6, <2>1, ControlStep DEF Checkout, Label, AtSite
<1>7. CASE CheckoutRefused(b)
  <2>1. site' \in [Builds -> 1 .. 4]
    BY <1>1, <1>7, NextSiteFacts DEF CheckoutRefused, NextSite, AtSite
  <2> QED
    BY <1>1, <1>7, <2>1, ControlStep DEF CheckoutRefused, NextSite, disk, Label, AtSite
<1>8. CASE RemoveCheckout(b)
  BY <1>1, <1>8, ControlStep DEF RemoveCheckout, Label, AtSite
<1>9. CASE SiteRefuses(b)
  <2>1. site' \in [Builds -> 1 .. 4]
    BY <1>1, <1>9, NextSiteFacts DEF SiteRefuses, NextSite, AtSite
  <2>2. clone' \in BOOLEAN
    BY <1>9 DEF SiteRefuses
  <2> QED
    BY <1>1, <1>9, <2>1, <2>2, ControlStep DEF SiteRefuses, NextSite, Label, AtSite
<1> QED
  BY <1>2, <1>3, <1>4, <1>5, <1>6, <1>7, <1>8, <1>9

LEMMA OpenStep ==
  ASSUME NEW b, Builds = {b}, ShellInv(b), WgetInv(b), OpenOutput(b)
  PROVE  ShellInv(b)' /\ WgetInv(b)'
<1>1. /\ TypeOK /\ b \in Builds /\ pc[b] = "open" /\ fd[b] = None /\ pos[b] = 0
      /\ site[b] \in DOMAIN Sites /\ Output(b) \in Name /\ None \notin Inode
  BY DownloadAssumption DEF ShellInv, OpenOutput, AtSite, Output, Name
<1> DEFINE k == IF names[Output(b)] # None THEN names[Output(b)] ELSE CHOOSE x \in Inode : x \notin InUse
<1>2. /\ names' = [names EXCEPT ![Output(b)] = k]
      /\ data' = [data EXCEPT ![k] = {}]
      /\ fd' = [fd EXCEPT ![b] = k]
  BY DEF OpenOutput
<1>3. k \in Inode /\ (names[Output(b)] = None => k \notin InUse)
                 /\ (names[Output(b)] # None => k = names[Output(b)])
  <2>1. CASE names[Output(b)] # None
    BY <1>1, <2>1 DEF TypeOK
  <2>2. CASE names[Output(b)] = None
    BY <1>1, <2>2, FreshInode DEF Output
  <2> QED
    BY <2>1, <2>2
<1> HIDE DEF k
<1>4. UNCHANGED << conf, site, pos, clone >> /\ pc' = [pc EXCEPT ![b] = "write"]
  BY DEF OpenOutput, Goto
<1>5. TypeOK'
  BY <1>1, <1>2, <1>3, <1>4 DEF TypeOK, Block
<1>6. ShellInv(b)'
  BY <1>1, <1>2, <1>3, <1>4, <1>5 DEF ShellInv, TypeOK, Sites
<1>7. ASSUME WgetOnly
      PROVE  /\ names' = [names EXCEPT !["tmp"] = k] /\ k # names["archive"]
             /\ names["archive"] # None => data[names["archive"]] = Block
  <2>1. Output(b) = "tmp"
    BY <1>1, <1>7 DEF Output, WgetOnly, Using
  <2>2. k # names["archive"]
    BY <1>1, <1>3, <1>7, <2>1 DEF WgetInv, InUse, Name
  <2> QED
    BY <1>2, <1>7, <2>1, <2>2 DEF WgetInv, Whole
<1>8. WgetInv(b)'
  <2> SUFFICES ASSUME WgetOnly
               PROVE  /\ names'["archive"] # None => Whole' /\ names'["archive"] # names'["tmp"]
                      /\ pc'[b] = "write" /\ fd'[b] = names'["tmp"] /\ data'[fd'[b]] = 1 .. pos'[b]
    BY <1>4 DEF WgetInv, WgetOnly, Sites
  <2>1. names'["archive"] = names["archive"] /\ names'["tmp"] = k
    BY <1>1, <1>7 DEF TypeOK, Name
  <2>2. fd'[b] = k /\ data'[k] = {} /\ pc'[b] = "write" /\ 1 .. pos'[b] = {}
    BY <1>1, <1>2, <1>3, <1>4 DEF TypeOK
  <2>3. names["archive"] # None => data'[names["archive"]] = Block
    BY <1>1, <1>2, <1>7 DEF TypeOK, Name
  <2> QED
    BY <1>7, <2>1, <2>2, <2>3 DEF Whole, Block
<1> QED
  BY <1>6, <1>8

LEMMA WriteStep ==
  ASSUME NEW b, Builds = {b}, ShellInv(b), WgetInv(b), WriteBlock(b)
  PROVE  ShellInv(b)' /\ WgetInv(b)'
<1>1. /\ TypeOK /\ b \in Builds /\ pc[b] = "write" /\ fd[b] # None /\ fd[b] \in Inode
      /\ pos[b] \in 0 .. Size /\ pos[b] < Size /\ Size \in Nat
      /\ pos' = [pos EXCEPT ![b] = @ + 1] /\ pos'[b] = pos[b] + 1
      /\ UNCHANGED << conf, pc, site, fd, names, clone >>
  BY DownloadAssumption DEF ShellInv, WriteBlock, TypeOK
<1>2. data' = [data EXCEPT ![fd[b]] = @ \cup {pos[b] + 1}]
  BY DEF WriteBlock
<1>3. /\ data' \in [Inode -> SUBSET Block] /\ data'[fd[b]] = data[fd[b]] \cup {pos[b] + 1}
      /\ \A i \in Inode \ {fd[b]} : data'[i] = data[i]
  BY <1>1, <1>2 DEF TypeOK, Block
<1>4. TypeOK'
  BY <1>1, <1>3 DEF TypeOK
<1>5. ShellInv(b)'
  BY <1>1, <1>4 DEF ShellInv, Sites
<1>6. WgetInv(b)'
  <2> SUFFICES ASSUME WgetOnly
               PROVE  /\ names["archive"] # None => data'[names["archive"]] = Block
                                                    /\ names["archive"] # names["tmp"]
                      /\ fd[b] = names["tmp"] /\ data'[fd[b]] = 1 .. pos[b] + 1
    BY <1>1 DEF WgetInv, WgetOnly, Sites, Whole, Block
  <2>1. fd[b] = names["tmp"] /\ data[fd[b]] = 1 .. pos[b]
    BY <1>1 DEF WgetInv
  <2>2. names["archive"] # None => names["archive"] \in Inode \ {fd[b]} /\ data[names["archive"]] = Block
    BY <1>1, <2>1 DEF WgetInv, Whole, TypeOK, Name
  <2> QED
    BY <1>1, <1>3, <2>1, <2>2
<1> QED
  BY <1>5, <1>6

LEMMA WrittenStep ==
  ASSUME NEW b, Builds = {b}, ShellInv(b), WgetInv(b), Written(b)
  PROVE  ShellInv(b)' /\ WgetInv(b)'
<1>1. /\ TypeOK /\ b \in Builds /\ pc[b] = "write" /\ pos[b] = Size /\ Size \in Nat
      /\ site[b] \in DOMAIN Sites
      /\ UNCHANGED << conf, site, names, data, clone >>
  BY DownloadAssumption DEF ShellInv, Written, AtSite, disk
<1>2. Using(b) \in Method
  BY <1>1, SitesFacts, ElementOfSeq, LenProperties DEF TypeOK, Using
<1>3. /\ AfterWrite(b) \in { "rename", "ok", "tidy" }
      /\ Using(b) \in Wget => AfterWrite(b) = "rename"
  BY <1>2 DEF AfterWrite, Method, Wget, InPlace, Vcs
<1>4. /\ pc' = [pc EXCEPT ![b] = AfterWrite(b)] /\ pc'[b] = AfterWrite(b)
      /\ fd' = [fd EXCEPT ![b] = None] /\ fd'[b] = None
      /\ pos' = [pos EXCEPT ![b] = 0] /\ pos'[b] = 0
  BY <1>1 DEF Written, Goto, Release, TypeOK
<1>5. TypeOK'
  BY <1>1, <1>3, <1>4 DEF TypeOK, Block, Name
<1>6. ShellInv(b)'
  BY <1>1, <1>3, <1>4, <1>5 DEF ShellInv, Sites
<1>7. WgetInv(b)'
  <2> SUFFICES ASSUME WgetOnly
               PROVE  /\ names["archive"] # None => Whole /\ names["archive"] # names["tmp"]
                      /\ pc'[b] = "rename"
                      /\ names["tmp"] # None /\ data[names["tmp"]] = Block
    BY <1>1, <1>4 DEF WgetInv, WgetOnly, Sites, Whole, Block
  <2>1. pc'[b] = "rename"
    BY <1>1, <1>3, <1>4 DEF WgetOnly, Using
  <2> QED
    BY <1>1, <2>1 DEF WgetInv, Block, ShellInv
<1> QED
  BY <1>6, <1>7

LEMMA RenameStep ==
  ASSUME NEW b, Builds = {b}, ShellInv(b), WgetInv(b), Rename(b)
  PROVE  ShellInv(b)' /\ WgetInv(b)'
<1>1. /\ TypeOK /\ b \in Builds /\ pc[b] = "rename"
      /\ site[b] \in DOMAIN Sites /\ fd[b] = None /\ pos[b] = 0
      /\ UNCHANGED << conf, site, fd, pos, data, clone >>
  BY DEF ShellInv, Rename, AtSite
<1>2. CASE names["tmp"] = None
  <2>1. names' = names /\ pc' = [pc EXCEPT ![b] = "cleanup"]
    BY <1>2 DEF Rename, Goto
  <2>2. TypeOK' /\ pc'[b] = "cleanup"
    BY <1>1, <2>1 DEF TypeOK, Block, Name
  <2> QED
    BY <1>1, <1>2, <2>1, <2>2 DEF ShellInv, WgetInv, WgetOnly, Sites, Whole, Block
<1>3. CASE names["tmp"] # None
  <2>1. names' = [archive |-> names["tmp"], tmp |-> None] /\ pc' = [pc EXCEPT ![b] = "ok"]
    BY <1>3 DEF Rename, Goto
  <2>2. pc' \in [Builds -> Label] /\ pc'[b] = "ok"
    BY <1>1, <2>1 DEF TypeOK, Label
  <2>3. names' \in [Name -> Inode \cup {None}] /\ names'["archive"] = names["tmp"] /\ names'["tmp"] = None
    BY <1>1, <2>1 DEF TypeOK, Name
  <2>4. ShellInv(b)'
    BY <1>1, <2>2, <2>3 DEF ShellInv, TypeOK, Block, Label, AtSite
  <2>5. WgetInv(b)'
    BY <1>1, <1>3, <2>2, <2>3 DEF WgetInv, WgetOnly, Sites, Whole, Block
  <2> QED
    BY <2>4, <2>5
<1> QED
  BY <1>2, <1>3

LEMMA CleanupStep ==
  ASSUME NEW b, Builds = {b}, ShellInv(b), WgetInv(b), Cleanup(b)
  PROVE  ShellInv(b)' /\ WgetInv(b)'
<1>1. /\ TypeOK /\ b \in Builds /\ pc[b] = "cleanup"
      /\ site[b] \in DOMAIN Sites /\ fd[b] = None /\ pos[b] = 0
      /\ UNCHANGED << conf, fd, pos, data, clone >>
      /\ names' = [names EXCEPT !["tmp"] = None]
      /\ pc' = [pc EXCEPT ![b] = "site"]
      /\ site' = [site EXCEPT ![b] = @ + 1]
  BY DEF ShellInv, Cleanup, AtSite, NextSite, Goto
<1>2. site' \in [Builds -> 1 .. 4]
  BY <1>1, NextSiteFacts DEF TypeOK
<1>3. /\ names' \in [Name -> Inode \cup {None}]
      /\ names'["archive"] = names["archive"] /\ names'["tmp"] = None
  BY <1>1 DEF TypeOK, Name
<1>4. pc' \in [Builds -> Label] /\ pc'[b] = "site"
  BY <1>1 DEF TypeOK, Label
<1>5. ShellInv(b)'
  BY <1>1, <1>2, <1>3, <1>4 DEF ShellInv, TypeOK, Block, Label, AtSite
<1>6. WgetInv(b)'
  BY <1>1, <1>3, <1>4 DEF WgetInv, WgetOnly, Sites, Whole, Block
<1> QED
  BY <1>5, <1>6

\* Whatever was written so far stays in the temporary file, or under another
\* name where the method does not use one.
LEMMA BreakStep ==
  ASSUME NEW b, Builds = {b}, ShellInv(b), WgetInv(b), TransferFails(b) \/ Interrupt(b)
  PROVE  ShellInv(b)' /\ WgetInv(b)'
<1>1. /\ TypeOK /\ b \in Builds /\ pc[b] # "ok"
      /\ UNCHANGED << conf, names, data, clone >>
      /\ fd' = [fd EXCEPT ![b] = None] /\ pos' = [pos EXCEPT ![b] = 0]
  BY DEF ShellInv, TransferFails, Interrupt, Release, disk
<1>2. /\ fd' \in [Builds -> Inode \cup {None}] /\ fd'[b] = None
      /\ pos' \in [Builds -> 0 .. Size] /\ pos'[b] = 0
  <2>1. 0 \in 0 .. Size
    BY DownloadAssumption
  <2> QED
    BY <1>1, <2>1 DEF TypeOK
<1>3. \E l \in { "cleanup", "tidy", "site", "idle" } :
         /\ pc' = [pc EXCEPT ![b] = l]
         /\ l \in { "cleanup", "tidy" } => site[b] \in DOMAIN Sites /\ site' = site
         /\ l = "tidy" => Using(b) = "git"
         /\ site' \in [Builds -> 1 .. 4]
  <2>1. CASE Interrupt(b)
    BY <1>1, <2>1 DEF Interrupt, Goto, TypeOK
  <2>2. CASE TransferFails(b)
    <3>1. site[b] \in DOMAIN Sites
      BY <2>2 DEF TransferFails, ShellInv, AtSite
    <3>2. [site EXCEPT ![b] = @ + 1] \in [Builds -> 1 .. 4]
      BY <1>1, <3>1, NextSiteFacts DEF TypeOK
    <3>3. CASE Goto(b, "cleanup") /\ UNCHANGED site
      BY <1>1, <3>1, <3>3 DEF Goto, TypeOK
    <3>4. CASE Using(b) = "git" /\ Goto(b, "tidy") /\ UNCHANGED site
      BY <1>1, <3>1, <3>4 DEF Goto, TypeOK
    <3>5. CASE NextSite(b)
      BY <3>2, <3>5 DEF NextSite, Goto
    <3> QED
      BY <2>2, <3>3, <3>4, <3>5 DEF TransferFails
  <2> QED
    BY <2>1, <2>2
<1>4. PICK l \in { "cleanup", "tidy", "site", "idle" } :
         /\ pc' = [pc EXCEPT ![b] = l]
         /\ l \in { "cleanup", "tidy" } => site[b] \in DOMAIN Sites /\ site' = site
         /\ l = "tidy" => Using(b) = "git"
         /\ site' \in [Builds -> 1 .. 4]
  BY <1>3
<1>5. pc' \in [Builds -> Label] /\ pc'[b] = l /\ Sites' = Sites
  BY <1>1, <1>4 DEF TypeOK, Label, Sites
<1>6. ShellInv(b)'
  BY <1>1, <1>2, <1>4, <1>5 DEF ShellInv, TypeOK, Block, Label, AtSite, Name
<1>7. WgetOnly => pc'[b] # "tidy"
  BY <1>4, <1>5 DEF WgetOnly, Using, Wget
<1>8. WgetInv(b)'
  BY <1>1, <1>4, <1>5, <1>7 DEF WgetInv, WgetOnly, Whole, Block
<1> QED
  BY <1>6, <1>8

LEMMA Step ==
  ASSUME NEW b, Builds = {b}, ShellInv(b), WgetInv(b), [Next]_vars
  PROVE  ShellInv(b)' /\ WgetInv(b)'
<1>1. CASE Shell(b)
  BY <1>1, ControlSteps, OpenStep, WriteStep, WrittenStep, RenameStep, CleanupStep DEF Shell
<1>2. CASE Fault(b)
  BY <1>2, ControlSteps, BreakStep DEF Fault
<1>3. CASE UNCHANGED vars
  BY <1>3 DEF vars, ShellInv, WgetInv, TypeOK, WgetOnly, Sites, Whole, Block, Name
<1>4. Next => Shell(b) \/ Fault(b)
  BY DownloadAssumption DEF Next, AnyFault
<1> QED
  BY <1>1, <1>2, <1>3, <1>4

\* With one build, a file with the archive's name is a whole archive when every
\* site is asked with wget: for any number of blocks, wherever a transfer breaks
\* off or is interrupted, and however often the build is run again
\* (pkg-download.mk:171-176).
THEOREM AloneArchiveWhole == OneBuild => (Spec => []ArchiveWhole)
<1> SUFFICES ASSUME OneBuild PROVE Spec => []ArchiveWhole
  OBVIOUS
<1> PICK b : Builds = {b}
  BY DEF OneBuild
<1> DEFINE Inv == ShellInv(b) /\ WgetInv(b)
<1>1. Init => Inv
  BY InitInv
<1>2. Inv /\ [Next]_vars => Inv'
  BY Step
<1>3. Inv => ArchiveWhole
  BY DEF WgetInv, ArchiveWhole
<1> HIDE DEF Inv
<1> QED
  BY <1>1, <1>2, <1>3, PTL DEF Spec
=============================================================================
