------------------------------ MODULE Dialogs ------------------------------
(* The dialogs of the two front ends: those of menuconfig in a terminal     *)
(* that is resized, or those of nconfig.                                    *)
EXTENDS Lxdialog, NconfGui

VARIABLE program   \* the program that was started

DialogsInit == program \in {"mconf", "nconf"} /\ Init /\ GuiInit
DialogsNext ==
  /\ \/ program = "mconf" /\ Next /\ UNCHANGED gvars
     \/ program = "nconf" /\ GuiNext /\ UNCHANGED vars
  /\ UNCHANGED program

DialogsSpec == DialogsInit /\ [][DialogsNext]_<<vars, gvars, program>>
=============================================================================
