------------------------------- MODULE Mconf -------------------------------
(* The program mconf of "make menuconfig", support/kconfig/mconf.c: how it  *)
(* builds a menu and what its keys do there.  The rest of a session is in   *)
(* ConfSession.                                                             *)
EXTENDS ConfSession

(* ------------------------------- build_conf ----------------------------- *)

RECURSIVE Build(_, _, _, _), BuildBelow(_, _, _, _), BuildEntry(_, _, _, _, _)

BuildBelow(r, below, top, o) ==
  IF below = <<>> THEN r ELSE BuildBelow(Build(r, below[1], top, o), Tail(below), top, o)

Add(v, id, e) == IF e.tag = "none" THEN v ELSE Append(v, [id |-> id, tag |-> e.tag, shows |-> e.shows])
BuildEntry(e, v, id, top, o) == BuildBelow(Pair(e.t, Add(v, id, e)), e.below, top, o)

BuildSeen(c, v, id, top, o) ==
  IF IF o.all THEN PromptOf(id) # "none" ELSE c.v
  THEN BuildEntry(EntryOf(c.t, id, top, o), v, id, top, o) ELSE Pair(c.t, v)
Build(r, id, top, o) == BuildSeen(menu_is_visible(r.t, id), r.v, id, top, o)

build_conf(u) == Build(Pair(u, <<>>), Last(menus), Last(menus), Options)

(* --------------------------------- conf --------------------------------- *)

\* The menu is built again and shown; the main menu also offers to load and
\* to save a file.
Show ==
  /\ phase = "build"
  /\ \E r \in {build_conf(t)} : t' = r.t /\ items' = r.v
  /\ phase' = "menu"
  /\ UNCHANGED <<files, filename, menus, subject, settings, messages, changes>>

\* Enter on a menu calls conf for it, or unrolls it; the space bar calls conf
\* in either mode.
EnterMenu == \E id \in OnItem("m") : Enter(id, t)
Unroll == \E id \in OnItem("m") : Unrolled(id, t)

OpenChoice == \E id \in OnItem("t") : IsOpenChoice(t, id) /\ OpenDialog("choice", id, t)
EnterSymbol == \E id \in OnItem("t") : ~IsOpenChoice(t, id) /\ Kind(id) = "menu" /\ Enter(id, t)
OpenString == \E id \in OnItem("s") : OpenDialog("string", id, t)
OpenFile == phase = "menu" /\ Last(menus) = 1 /\ \E dialog \in {"load", "save"} : OpenDialog(dialog, 0, t)

SetSymbol == \E id \in OnItem("t"), v \in Consts : SetFrom(t, Menu(id).sym, v)
Toggle == \E id \in OnItem("t") : Set(sym_toggle_tristate_value(t, Menu(id).sym))

MconfNext ==
  \/ Show
  \/ EnterMenu \/ Unroll \/ OpenChoice \/ EnterSymbol \/ OpenString \/ OpenFile
  \/ SetSymbol \/ Toggle
=============================================================================
