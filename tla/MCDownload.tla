----------------------------- MODULE MCDownload -----------------------------
(***************************************************************************)
(* Instances of Download for TLC: every configuration for one build, the   *)
(* default one for two.                                                    *)
(***************************************************************************)
EXTENDS Download

(* pkg-download.mk:32-34: by default one directory per source tree. *)
Default == [ primary |-> "none", only |-> FALSE, upstream |-> "wget", backup |-> TRUE ]

AllConfigs == Config
DefaultConfig == { Default }

=============================================================================
