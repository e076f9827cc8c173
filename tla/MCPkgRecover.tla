---------------------------- MODULE MCPkgRecover ----------------------------
(***************************************************************************)
(* The instance of PkgBuild in which everything goes wrong, and what the   *)
(* theorems assume of command lines.                                       *)
(***************************************************************************)
EXTENDS MCPkgBuild

(* One failure or interruption after the other, in the recipes of both     *)
(* packages, clean-ups of the application included, stamps removed by hand *)
(* and the application started over from time to time.                     *)
RestartGoals == { << All >>, << <<"clean", app>> >>, << <<"rebuild", app>> >>,
                  << <<"dirclean", app>>, All >> }
Mess == (Careful \X { tool })
        \cup ((Careless \cup { ".stamp_extracted", ".stamp_patched", ".stamp_built",
                               ".stamp_uninstalled" }) \X { app })

(* The stamps that docs/manual/rebuilding-packages.txt says may be removed. *)
DocumentedStamps == { ".stamp_configured", ".stamp_built" } \X { app }

(* Every goal by itself, and every command line of this instance.          *)
ASSUME GoalsAreOrderly ==
    /\ Orderly
    /\ \A line \in Single(Phony) : OrderlyScript(PlanFor(line))

(* And every rebuild of the application, and a reconfiguration.            *)
ASSUME RebuildsAreComplete ==
    \A verb \in { "rebuild", "reconfigure" } :
       RebuildsInFull(PlanFor(<< <<verb, app>> >>))

(* And of the dirclean, with the tool in careful hands.                    *)
ASSUME DircleansAreComplete == RestoresComplete /\ Guarded({tool})
=============================================================================
