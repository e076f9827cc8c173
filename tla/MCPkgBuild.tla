----------------------------- MODULE MCPkgBuild -----------------------------
(***************************************************************************)
(* Instances of PkgBuild for TLC: an application that depends on a library *)
(* and on a host tool, the library on the tool.  The application is built  *)
(* from a patched archive, the library from an override directory.         *)
(***************************************************************************)
EXTENDS PkgBuild, MakePlan, TLC

CONSTANTS app, lib, tool

Present(s) == SelectSeq(s, LAMBDA p : p \in Pkg)
MCDependencies ==
    [p \in Pkg |-> Present(CASE p = app  -> << tool, lib >>
                             [] p = lib  -> << tool >>
                             [] p = tool -> << >>)]
MCSelected == Present(<< app, lib >>)
MCRootfsDeps == Present(<< tool >>)

Single(verbs) == { << <<v, p>> >> : v \in verbs, p \in Pkg }

AnyRecipe == Stamp \cup Ephemeral \cup { "clean-for-rebuild" }
(* The recipes that lose track of their work when they are interrupted. *)
Careless == { ".stamp_cleaned", ".stamp_dircleaned", "clean-for-rebuild" }
Careful == AnyRecipe \ Careless

(* Daily work: the whole build or one package's goals, one per command.    *)
(* Anything that happens to the library may be cut short.                  *)
DailyGoals == { << All >>, << <<"source", lib>> >> } \cup Single({ "pkg", "rebuild", "reconfigure", "dirclean" })
LibCareful == Careful \X { lib }

(* The end of the walk from a state of it.                                 *)
RECURSIVE Walked(_)
Walked(s) == IF Ended(s) THEN s ELSE Walked(Consider(s))

PlanFor(line) == Walked(Start(line)).order
MCPlan == [line \in CommandLines |-> PlanFor(line)]

(* What the theorems of MakePlanProofs ask of packages and command lines.  *)
ASSUME LinesAreOrdinary ==
    /\ \E rank \in [Pkg -> 0..Cardinality(Pkg)] : Ranks(rank)
    /\ \A line \in CommandLines : DircleansFirst(line) /\ RebuildsBuilt(line) /\ RestoresBuilt(line)
=============================================================================
