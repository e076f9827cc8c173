----------------------------- MODULE ConfFiles -----------------------------
(* What conf promises about its files, whatever the lines are and wherever  *)
(* it is killed: how .config and .config.old, auto.conf and autoconf.h and  *)
(* the headers of the symbols follow each other.  The questions, the values *)
(* and the number of runs are left out.  KConf implements it.               *)
EXTENDS ConfText

VARIABLES
  config, old,   \* .config and .config.old
  tmp,           \* .tmpconfig, while it is written
  auto, header,  \* auto.conf and autoconf.h
  touched,       \* the symbols whose header was touched since auto.conf was written
  current,       \* auto.conf is newer than .config, as make sees it
  phase

confFiles == <<config, old>>
autoFiles == <<auto, header, touched>>
filesVars == <<confFiles, tmp, autoFiles, current, phase>>

\* The lines of auto.conf or autoconf.h say what .config says: what is not
\* set is not there.
Agree(lines, file) ==
  \A s \in HeaderSyms \ AutoSyms :
    TextIn(lines, s) = IF TextIn(file, s) = "unset" THEN "none" ELSE TextIn(file, s)

FilesInit ==
  /\ config # Absent
  /\ old = Absent /\ tmp = Absent
  /\ header = auto
  /\ touched = {} /\ current = FALSE
  /\ phase = "idle"

\* conf starts, reads, asks and gives up without a write.
Prepares ==
  /\ phase \in {"idle", "ask", "set"}
  /\ phase' \in {"idle", "ask", "set", "write"}
  /\ UNCHANGED <<confFiles, tmp, autoFiles, current>>

\* conf_write: the temporary file, the old one put aside, the new one put in
\* its place.  silentoldconfig goes on with auto.conf, also when there is
\* nothing to write.
WritesTmp ==
  /\ phase = "write" /\ phase' = "rename old"
  /\ tmp' # Absent
  /\ UNCHANGED <<confFiles, autoFiles, current>>
PutsAside ==
  /\ phase = "rename old" /\ phase' = "rename new"
  /\ config' = Absent /\ current' = FALSE
  /\ old' = IF config = Absent THEN old ELSE config
  /\ UNCHANGED <<tmp, autoFiles>>
PutsInPlace ==
  /\ phase = "rename new" /\ phase' \in {"idle", "write auto"}
  /\ config' = tmp /\ tmp' = Absent /\ current' = FALSE
  /\ UNCHANGED <<old, autoFiles>>
SkipsWriting ==
  /\ phase = "write" /\ phase' = "write auto"
  /\ UNCHANGED <<confFiles, tmp, autoFiles, current>>

\* conf_write_autoconf: one header after the other; only then the temporary
\* file, with what .config says, and with what auto.conf has already when
\* that was newer than .config; autoconf.h, and auto.conf last.
TouchesHeader ==
  /\ phase = "write auto" /\ phase' = phase
  /\ \E s \in HeaderSyms \ touched : touched' = touched \cup {s}
  /\ UNCHANGED <<confFiles, tmp, auto, header, current>>
WritesAutoTmp ==
  /\ phase = "write auto" /\ phase' = "rename header"
  /\ tmp' # Absent
  /\ Differing(Content(auto), tmp') \subseteq touched
  /\ Agree(tmp', config)
  /\ current => tmp' = auto
  /\ UNCHANGED <<confFiles, autoFiles, current>>
PutsHeader ==
  /\ phase = "rename header" /\ phase' = "rename auto"
  /\ header' = tmp
  /\ UNCHANGED <<confFiles, tmp, auto, touched, current>>
PutsAuto ==
  /\ phase = "rename auto" /\ phase' = "idle"
  /\ auto' = tmp /\ tmp' = Absent
  /\ touched' = {} /\ current' = TRUE
  /\ UNCHANGED <<confFiles, header>>

\* conf ends without a write, or is killed.
Stops ==
  /\ phase' = "idle"
  /\ UNCHANGED <<confFiles, tmp, autoFiles, current>>

FilesNext ==
  \/ Prepares
  \/ WritesTmp \/ PutsAside \/ PutsInPlace \/ SkipsWriting
  \/ TouchesHeader \/ WritesAutoTmp \/ PutsHeader \/ PutsAuto
  \/ Stops

\* The steps of conf on its files, for which KConf is the implementation:
\* nothing is put in the place of .config or of auto.conf but a complete
\* file, each after the one it depends on.
FilesSpec == FilesInit /\ [][FilesNext]_filesVars

(* ------------------------------ properties ------------------------------ *)

\* While there is no .config, the one there was is kept as .config.old.
KeptAside == config = Absent => old # Absent

\* When auto.conf is newer than .config it has the same values as .config,
\* and autoconf.h has the same as auto.conf: make may go on.
AutoMatches == current => header = auto /\ Agree(auto, config)

\* Every symbol that differs between two auto.conf in a row has had its
\* header touched in between, also when runs were interrupted.
HeadersTouched == [][auto' # auto => Differing(Content(auto), auto') \subseteq touched]_filesVars

\* What the three rest on: what the temporary file is in each phase.
TmpSound ==
  /\ phase \in {"rename old", "rename new", "rename header", "rename auto"} => tmp # Absent
  /\ phase \in {"rename header", "rename auto"} =>
       /\ Differing(Content(auto), tmp) \subseteq touched
       /\ Agree(tmp, config)
       /\ current => tmp = auto
  /\ phase = "rename auto" => header = tmp
FilesInv == KeptAside /\ AutoMatches /\ TmpSound
=============================================================================
