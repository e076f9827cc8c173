------------------------------ MODULE MCKConf ------------------------------
(* A choice, a menu with a menu of a package, a package that selects a      *)
(* library, a number with a range, and a choice that depends on a value of  *)
(* the first one and comes before it in the hash table.                     *)
EXTENDS KConf

TypesHere == [s \in {"V1", "V2", "W1", "W2", "A", "B", "L", "N", "CH1", "CH2", "modules_sym", "MODULES"} |->
                IF s = "N" THEN "hex" ELSE "bool"]
SymbolsHere == {"V1", "V2", "W1", "W2", "A", "B", "L", "N", "modules_sym"}
OrderHere == <<"CH2", "CH1", "modules_sym", "B", "A", "V2", "V1", "N", "W1", "W2", "L">>

\* An entry has a symbol, a parent, children, dependencies and a prompt; a
\* property has an entry, a condition and what its kind adds.
EntriesIn(rows) ==
  [i \in DOMAIN rows |->
    LET row == rows[i] IN [sym |-> row[1], parent |-> row[2], kids |-> row[3], dep |-> row[4], prompt |-> row[5]]]
Added(row) ==
  CASE row[1] = "default" -> [target |-> NoSym, value |-> row[4]]
    [] row[1] = "range" -> [target |-> NoSym, lo |-> row[4], hi |-> row[5]]
    [] row[1] = "select" -> [target |-> row[4]]
    [] OTHER -> [target |-> NoSym]
PropertiesIn(rows) ==
  [i \in DOMAIN rows |-> [kind |-> rows[i][1], menu |-> rows[i][2], vis |-> rows[i][3]] @@ Added(rows[i])]

Conj(a, b) == [t |-> "and", es |-> <<Sym(a), Sym(b)>>]
\* The finished menu.  L and its number are under the menu they are in, B
\* has become the submenu of A, and N of L.
Entries == <<
  <<NoSym, 0, <<2, 5, 10>>, None, 1>>,
  <<"CH1", 1, <<3, 4>>, None, 2>>,
  <<"V1", 2, <<>>, Sym("CH1"), 3>>,
  <<"V2", 2, <<>>, Sym("CH1"), 4>>,
  <<NoSym, 1, <<6, 8>>, None, 5>>,
  <<"A", 5, <<7>>, None, 6>>,
  <<"B", 6, <<>>, Sym("A"), 7>>,
  <<"L", 5, <<9>>, None, 8>>,
  <<"N", 8, <<>>, Sym("L"), 9>>,
  <<"CH2", 1, <<11, 12>>, Sym("V1"), 10>>,
  <<"W1", 10, <<>>, Sym("CH2"), 11>>,
  <<"W2", 10, <<>>, Conj("CH2", "L"), 12>>>>
Properties == <<
  <<"menu", 1, None>>, <<"prompt", 2, None>>, <<"prompt", 3, Sym("CH1")>>, <<"prompt", 4, Sym("CH1")>>,
  <<"menu", 5, None>>, <<"menu", 6, None>>, <<"prompt", 7, Sym("A")>>, <<"prompt", 8, Sym("V1")>>,
  <<"prompt", 9, Sym("L")>>, <<"prompt", 10, Sym("V1")>>, <<"prompt", 11, Sym("CH2")>>,
  <<"prompt", 12, Conj("CH2", "L")>>, <<"default", 6, Sym("V1"), Sym("y")>>, <<"select", 7, Sym("A"), "L">>,
  <<"default", 9, Sym("L"), Sym("2")>>, <<"range", 9, Conj("L", "V1"), "1", "3">>,
  <<"default", 10, Conj("V1", "A"), Sym("W2")>>, <<"default", 0, None, Sym("MODULES")>>>>
Values1 == {"V1", "V2"}
Values2 == {"W1", "W2"}
DirDep(s) ==
  CASE s \in Values1 -> Sym("CH1") [] s = "W1" -> Sym("CH2") [] s = "W2" -> Conj("CH2", "L")
    [] s = "B" -> Sym("A") [] s = "N" -> Sym("L") [] OTHER -> None
RevDep(s) ==
  CASE s = "CH1" -> Sym("m") [] s = "CH2" -> Conj("V1", "m") [] s = "L" -> Conj("B", "A") [] OTHER -> None
DepsFinished(s) ==
  [rev_dep |-> RevDep(s), dir_dep |-> DirDep(s),
   values |-> CASE s = "CH1" -> <<"V1", "V2">> [] s = "CH2" -> <<"W1", "W2">> [] OTHER -> <<>>,
   choice |-> IF s \in Values1 THEN "CH1" ELSE IF s \in Values2 THEN "CH2" ELSE NoSym]
ParsedHere == [
  menu |-> EntriesIn(Entries),
  prop |-> PropertiesIn(Properties),
  symbol |-> [s \in AllSyms |-> DepsFinished(s)]]

\* It is what menu_finalize makes of the menu that was parsed.
RawMenu == [ParsedHere.menu EXCEPT
  ![3].dep = None, ![4].dep = None, ![11].dep = None, ![12].dep = Sym("L"),
  ![5].kids = <<6, 7, 8, 9>>, ![6].kids = <<>>, ![8].kids = <<>>, ![7].parent = 5, ![9].parent = 5]
RawProps == [ParsedHere.prop EXCEPT
  ![3].vis = None, ![4].vis = None, ![7].vis = None, ![9].vis = None, ![10].vis = None, ![11].vis = None,
  ![12].vis = None, ![14].vis = None, ![15].vis = None, ![16].vis = Sym("V1"), ![17].vis = Sym("A")]
ASSUME ParsedAsFinalized == ParsedHere = Finalize([menu |-> RawMenu, prop |-> RawProps, symbol |-> NoDeps], 1)

ValueOf(x) ==
  CASE x = "" -> 0 [] x \in {"1", "0x1"} -> 1 [] x \in {"2", "0x2"} -> 2 [] x \in {"3", "0x3"} -> 3 [] x \in {"9", "0x9"} -> 9
NumberHere == [type \in {"hex"} |-> [x \in {"", "1", "2", "3", "9", "0x1", "0x2", "0x3", "0x9"} |-> ValueOf(x)]]
DrawsHere == {[yes |-> {"B"}, mod |-> {"L"}]}
\* Two values of a choice, a number out of range, an unknown symbol.
FilesHere == {<<<<"V2", "y">>, <<"V1", "y">>, <<"A", "y">>, <<"N", "9">>, <<"GONE", "y">>>>}
AutosHere == {<<<<"W1", "y">>, <<"V1", "y">>, <<"L", "y">>>>}
=============================================================================
