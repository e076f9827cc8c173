------------------------------ MODULE MCFrontends ----------------------------
(* A choice that a range depends on, a package that selects a library with  *)
(* a number below it, and a comment.                                        *)
EXTENDS Frontends

TypesHere == [s \in {"V1", "V2", "A", "L", "N", "CH", "modules_sym", "MODULES"} |-> IF s = "N" THEN "int" ELSE "bool"]
OrderHere == <<"CH", "modules_sym", "A", "V2", "V1", "N", "L">>

EntryAt(s, parent, kids, dep, prompt) == [sym |-> s, parent |-> parent, kids |-> kids, dep |-> dep, prompt |-> prompt]
Prop(kind, id, vis) == [kind |-> kind, menu |-> id, vis |-> vis, target |-> NoSym]
Default(id, vis, value) == [kind |-> "default", menu |-> id, vis |-> vis, target |-> NoSym, value |-> value]

RawMenu == <<
  EntryAt(NoSym, 0, <<2, 5>>, None, 1),
  EntryAt("CH", 1, <<3, 4>>, None, 2),
  EntryAt("V1", 2, <<>>, None, 3),
  EntryAt("V2", 2, <<>>, None, 4),
  EntryAt(NoSym, 1, <<6, 7, 8, 9>>, None, 5),
  EntryAt("A", 5, <<>>, None, 6),
  EntryAt(NoSym, 5, <<>>, Sym("A"), 7),
  EntryAt("L", 5, <<>>, None, 8),
  EntryAt("N", 5, <<>>, Sym("L"), 9)>>
RawProps == <<
  Prop("menu", 1, None), Prop("prompt", 2, None), Prop("prompt", 3, None), Prop("prompt", 4, None),
  Prop("menu", 5, None), Prop("menu", 6, None), Prop("comment", 7, None), Prop("prompt", 8, Sym("V1")),
  Prop("prompt", 9, None),
  [Prop("select", 6, None) EXCEPT !.target = "L"],
  Default(9, None, Sym("2")),
  [kind |-> "range", menu |-> 9, vis |-> Sym("V1"), target |-> NoSym, lo |-> "1", hi |-> "3"],
  Default(0, None, Sym("MODULES"))>>

\* The finished menu: the comment is under A, and N under L.
ParsedHere == [
  menu |-> [RawMenu EXCEPT
    ![3].dep = Sym("CH"), ![4].dep = Sym("CH"),
    ![5].kids = <<6, 8>>, ![6].kids = <<7>>, ![8].kids = <<9>>, ![7].parent = 6, ![9].parent = 8],
  prop |-> [RawProps EXCEPT
    ![3].vis = Sym("CH"), ![4].vis = Sym("CH"), ![7].vis = Sym("A"), ![9].vis = Sym("L"), ![11].vis = Sym("L"),
    ![12].vis = [t |-> "and", es |-> <<Sym("L"), Sym("V1")>>]],
  symbol |-> [NoDeps EXCEPT
    !["CH"].values = <<"V1", "V2">>, !["CH"].rev_dep = Sym("m"),
    !["V1"].choice = "CH", !["V2"].choice = "CH", !["V1"].dir_dep = Sym("CH"), !["V2"].dir_dep = Sym("CH"),
    !["L"].rev_dep = Sym("A"), !["N"].dir_dep = Sym("L")]]
ASSUME ParsedAsFinalized == ParsedHere = Finalize([menu |-> RawMenu, prop |-> RawProps, symbol |-> NoDeps], 1)

ValueOf(x) == CASE x = "" -> 0 [] x = "1" -> 1 [] x = "2" -> 2 [] x = "3" -> 3 [] x = "9" -> 9
NumberHere == [type \in {"int"} |-> [x \in {"", "1", "2", "3", "9"} |-> ValueOf(x)]]

Clean == <<<<"V2", "y">>, <<"A", "y">>, <<"L", "y">>, <<"N", "3">>>>
With(config) == [name \in {".config", "other"} |-> IF name = ".config" THEN config ELSE Clean]
FilesHere == {With(Absent), With(Clean)}
=============================================================================
