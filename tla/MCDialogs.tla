----------------------------- MODULE MCDialogs -----------------------------
(* A menu of five entries in windows of two and four lines, a radio list of *)
(* two lines for four values, a field of four columns for six characters,   *)
(* and texts shorter and longer than the window.  In nconfig: menus of up   *)
(* to three items, patterns of two letters, a buffer of five bytes, opened  *)
(* empty or with two letters, in a field of two columns, and a text of      *)
(* several pages.                                                           *)
EXTENDS Dialogs

MenuListsHere == {SetToSortSeq(visible, <) : visible \in SUBSET Entries}
ValueListsHere == {SetToSortSeq(visible, <) : visible \in SUBSET Values \ {{}}}
LetterHere == <<"a", "s", "a", "b", "s">>
InitialHere == <<"s", "t", "s", "u">>
TextsHere ==
  {[lines |-> n, newline |-> TRUE, height |-> 0] : n \in {3, 13}}
    \cup {[lines |-> n, newline |-> FALSE, height |-> 4 + n] : n \in {1, 2}}
OpeningsHere == {<<>>, <<"a", "b">>}
MenusHere == {<<>>, <<<<"b">>>>, <<<<"a", "b">>, <<"b">>, <<"b", "a">>>>, <<<<"b">>, <<"a">>, <<"a", "b">>>>}
=============================================================================
