------------------------------ MODULE KVisible -----------------------------
(* Which entries of the menu are shown, menu_is_visible in menu.c.  It      *)
(* calculates what it looks at, and takes a symbol that is only shown for   *)
(* the sake of its submenu as known.                                        *)
EXTENDS KConfData

Menu(id) == Parsed.menu[id]

\* Every symbol calculated from nothing but the values of the user.
Fresh(u) == CASE Ready(u) -> CalcSyms(Invalid(u), <<Modules>> \o Order)
Values(u) == [s \in AllSyms |-> Text(u, s)]

RECURSIVE menu_is_visible(_, _), AnyVisible(_, _, _), ThisVisible(_, _, _)
ThisVisible(r, s, ks) ==
  IF r.v THEN Pair([r.t EXCEPT !.sym[s].user = TRUE], TRUE) ELSE AnyVisible(r.t, s, Tail(ks))
AnyVisible(u, s, ks) == IF ks = <<>> THEN Pair(u, FALSE) ELSE ThisVisible(menu_is_visible(u, ks[1]), s, ks)
PromptShown(u, id) == Pair(u, u.prompt[Menu(id).prompt])
OwnPrompt(u, id) ==
  IF Menu(id).sym # NoSym THEN PromptShown(sym_calc_value(u, Menu(id).sym), id)
  ELSE CalcExpr(u, Cond(Menu(id).prompt))
ShownBelow(r, id) ==
  IF r.v # "n" THEN Pair(r.t, TRUE)
  ELSE IF Menu(id).sym = NoSym THEN Pair(r.t, FALSE)
  ELSE IF Tri(r.t, Menu(id).sym) = "n" THEN Pair(r.t, FALSE)
  ELSE AnyVisible(r.t, Menu(id).sym, Menu(id).kids)
menu_is_visible(u, id) == IF Menu(id).prompt = 0 THEN Pair(u, FALSE) ELSE ShownBelow(OwnPrompt(u, id), id)
=============================================================================
