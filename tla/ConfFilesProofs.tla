--------------------------- MODULE ConfFilesProofs ---------------------------
(* The files of conf keep what ConfFiles promises, for all symbols, all     *)
(* contents of the files and any number of runs, wherever they are killed.  *)
EXTENDS ConfFiles, TLAPS

LEMMA FilesStart == FilesInit => FilesInv
BY DEF FilesInit, FilesInv, KeptAside, AutoMatches, TmpSound

\* No step of conf, and not its end at any point, breaks the invariant.
LEMMA FilesInductive == FilesInv /\ [FilesNext]_filesVars => FilesInv'
<1> SUFFICES ASSUME FilesInv, [FilesNext]_filesVars PROVE FilesInv'
  OBVIOUS
<1> USE DEF FilesInv, KeptAside, AutoMatches, TmpSound, confFiles, autoFiles
<1>1. CASE Prepares
  BY <1>1 DEF Prepares, Agree
<1>2. CASE WritesTmp
  BY <1>2 DEF WritesTmp, Agree
<1>3. CASE PutsAside
  BY <1>3 DEF PutsAside
<1>4. CASE PutsInPlace
  BY <1>4 DEF PutsInPlace
<1>5. CASE SkipsWriting
  BY <1>5 DEF SkipsWriting, Agree
<1>6. CASE TouchesHeader
  BY <1>6 DEF TouchesHeader, Agree
<1>7. CASE WritesAutoTmp
  BY <1>7 DEF WritesAutoTmp, Agree
<1>8. CASE PutsHeader
  BY <1>8 DEF PutsHeader, Agree
<1>9. CASE PutsAuto
  BY <1>9 DEF PutsAuto, Agree
<1>10. CASE Stops
  BY <1>10 DEF Stops, Agree
<1>11. CASE UNCHANGED filesVars
  BY <1>11 DEF filesVars, Agree
<1> QED
  BY <1>1, <1>2, <1>3, <1>4, <1>5, <1>6, <1>7, <1>8, <1>9, <1>10, <1>11 DEF FilesNext

LEMMA FilesAlways == FilesSpec => []FilesInv
BY FilesStart, FilesInductive, PTL DEF FilesSpec

(* Whenever there is no .config, because conf_write was killed between its  *)
(* two renames or a later run found it so, .config.old is the one there was *)
(* (conf_write in confdata.c:644-658).                                      *)
THEOREM OldOneIsKept == FilesSpec => []KeptAside
BY FilesAlways, PTL DEF FilesInv

(* An auto.conf that make takes as up to date says what .config says, and   *)
(* autoconf.h is the same, wherever earlier runs were killed                *)
(* (conf_write_autoconf in confdata.c:900-922).                             *)
THEOREM AutoIsOfConfig == FilesSpec => []AutoMatches
BY FilesAlways, PTL DEF FilesInv

(* auto.conf is replaced only when the header of every symbol that changes  *)
(* with it has been touched since the last one, over any number of runs     *)
(* that were killed in between (conf_split_config in confdata.c:661-786).   *)
THEOREM NoHeaderMissed == FilesSpec => HeadersTouched
<1>1. FilesInv /\ [FilesNext]_filesVars => [auto' # auto => Differing(Content(auto), auto') \subseteq touched]_filesVars
  <2> SUFFICES ASSUME FilesInv, FilesNext, auto' # auto
               PROVE  Differing(Content(auto), auto') \subseteq touched
    OBVIOUS
  <2>1. PutsAuto
    BY DEF FilesNext, Prepares, WritesTmp, PutsAside, PutsInPlace, SkipsWriting, TouchesHeader, WritesAutoTmp,
           PutsHeader, Stops, autoFiles
  <2> QED
    BY <2>1 DEF PutsAuto, FilesInv, TmpSound
<1> QED
  BY <1>1, FilesAlways, PTL DEF FilesSpec, HeadersTouched
=============================================================================
