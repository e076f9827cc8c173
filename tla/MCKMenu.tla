------------------------------ MODULE MCKMenu ------------------------------
(* A boolean, a tristate and MODULES, with one choice.                      *)
EXTENDS KMenu

TypesHere == [s \in {"A", "T", "MODULES", "CH"} |-> IF s = "T" THEN "tristate" ELSE "bool"]
DepsHere == {Comp("ne", "T", "n"), Or(Sym("A"), Sym("m"))}
DeclarationsHere == [s \in {"A", "T", "CH", NoSym} |-> 1]
DefaultsHere == {Comp("eq", "T", "y"), Sym("A")}
ConditionsHere == {None, And(Sym("A"), Not(Sym("T")))}
=============================================================================
