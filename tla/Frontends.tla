----------------------------- MODULE Frontends -----------------------------
(* One session of "make menuconfig" or of "make nconfig".                   *)
EXTENDS Mconf, Nconf

VARIABLE program   \* the program that was started

Start == program \in {"mconf", "nconf"} /\ Init
Next ==
  /\ \/ program = "mconf" /\ MconfNext
     \/ program = "nconf" /\ NconfNext
     \/ Common
  /\ UNCHANGED program

Spec == Start /\ [][Next]_<<vars, program>>

(* The menu shows the entries and the values that follow from the answers   *)
(* of the user and nothing else, however it was reached: no value is left   *)
(* over from before a change, and nothing that was entered is passed over   *)
(* (build_conf in mconf.c:338-514 and nconf.c:732-916 reads values without  *)
(* calculating them).  In nconf it does not hold while it shows all.        *)
Built(u) == IF program = "mconf" THEN build_conf(u) ELSE nbuild_conf(u)
ShownIsCurrent ==
  phase = "menu" /\ (program = "nconf" => ~show_all) => \E r \in {Built(Fresh(t))} : items = r.v

(* Exactly one of the values of a choice that is set is shown as chosen.    *)
ChoiceHasOne ==
  phase = "menu" =>
    \A c \in ChoiceSyms :
      t.sym[c].valid /\ t.sym[c].tri = "y" /\ (\E s \in AllSyms : ChoiceOf(s) = c /\ t.sym[s].visible # "n") =>
        Cardinality({s \in AllSyms : ChoiceOf(s) = c /\ Tri(Fresh(t), s) = "y"}) = 1

(* Whoever leaves a session without being told that the changes were not    *)
(* saved finds the configuration in the file that was named last, as it was *)
(* shown (main in mconf.c:826-860, do_exit in nconf.c:651-691, conf_save    *)
(* and conf_load).                                                          *)
Kept == \E u \in {ReadNow(filename)} : Values(Fresh(u)) = Values(Fresh(t))
NothingLost == outcome \in {"saved", "end"} => Kept

(* The same of the sessions in which every file to load was found.          *)
NothingLostIfFound == ~misnamed => NothingLost
=============================================================================
