------------------------------- MODULE Nconf -------------------------------
(* The program nconf of "make nconfig", support/kconfig/nconf.c: how it     *)
(* builds a menu, and what its keys do in a menu and in the list of a       *)
(* choice.  The rest of a session is in ConfSession.                        *)
EXTENDS ConfSession

(* ------------------------------- build_conf ----------------------------- *)

RECURSIVE nBuild(_, _, _, _), nBuildBelow(_, _, _, _), nBuildEntry(_, _, _, _, _)

nBuildBelow(r, below, top, o) ==
  IF below = <<>> THEN r ELSE nBuildBelow(nBuild(r, below[1], top, o), Tail(below), top, o)

\* item_make asks whether the entry is visible, and so calculates it, after
\* the values it is given to show have been read.
Made(c, v, id, e) ==
  Pair(c.t, Append(v, [id |-> id, tag |-> e.tag, shows |-> e.shows, is_visible |-> c.v]))
item_make(e, v, id) == IF e.tag = "none" THEN Pair(e.t, v) ELSE Made(menu_is_visible(e.t, id), v, id, e)
nBuildEntry(e, v, id, top, o) == nBuildBelow(item_make(e, v, id), e.below, top, o)

\* With all entries shown nobody asks for the visibility before the values.
nBuildSeen(c, v, id, top, o) ==
  IF c.v THEN nBuildEntry(EntryOf(c.t, id, top, o), v, id, top, o) ELSE Pair(c.t, v)
nBuild(r, id, top, o) ==
  nBuildSeen(IF o.all THEN Pair(r.t, TRUE) ELSE menu_is_visible(r.t, id), r.v, id, top, o)

nbuild_conf(u) == nBuild(Pair(u, <<>>), Last(menus), Last(menus), Options)

(* --------------------------------- conf --------------------------------- *)

nShow ==
  /\ phase = "build"
  /\ \E r \in {nbuild_conf(t)} : t' = r.t /\ items' = r.v
  /\ phase' = "menu"
  /\ UNCHANGED <<files, filename, menus, subject, settings, messages, changes>>

\* The highlighted entry, with the symbols as they are once its visibility has
\* been asked for: no key acts on an invisible entry.
Visit(item, c) == [id |-> item.id, tag |-> item.tag, visible |-> c.v, t |-> c.t]
Highlighted == {Visit(items[i], menu_is_visible(t, items[i].id)) : i \in {i \in DOMAIN items : phase = "menu"}}

Nothing(u) ==
  /\ t' = u
  /\ Again
  /\ UNCHANGED <<files, filename, menus, settings, messages, changes>>
nEnterMenu(c) == c.tag = "m" /\ Enter(c.id, c.t)
nUnroll(c) == c.tag = "m" /\ Unrolled(c.id, c.t)
nOpenChoice(c) == c.tag = "t" /\ IsOpenChoice(c.t, c.id) /\ OpenDialog("choice", c.id, c.t)
nEnterSymbol(c) ==
  c.tag = "t" /\ ~IsOpenChoice(c.t, c.id) /\ PromptOf(c.id) = "menu" /\ Enter(c.id, c.t)
nOpenString(c) == c.tag = "s" /\ OpenDialog("string", c.id, c.t)
nSetSymbol(c) == c.tag = "t" /\ \E v \in Consts : SetFrom(c.t, Menu(c.id).sym, v)
nToggle(c) == c.tag = "t" /\ Set(sym_toggle_tristate_value(c.t, Menu(c.id).sym))

Key ==
  \E c \in Highlighted :
    \/ Nothing(c.t)
    \/ c.visible /\ (\/ nEnterMenu(c) \/ nUnroll(c) \/ nOpenChoice(c) \/ nEnterSymbol(c)
                     \/ nOpenString(c) \/ nSetSymbol(c) \/ nToggle(c))

(* The function keys work in every menu and in the list of a choice, which  *)
(* is made again after them.                                                *)
nOpenFile ==
  /\ phase \in {"menu", "choice"}
  /\ \E dialog \in {"load", "save"} : OpenDialog(dialog, subject, t)
nSearchInChoice ==
  /\ phase = "choice"
  /\ \E ss \in Found : Returns(CalcSyms(t, ss))
  /\ UNCHANGED <<files, filename, messages, changes>>
nShowAllInChoice ==
  /\ phase = "choice"
  /\ show_all' = ~show_all
  /\ t' = Shown(t).t
  /\ UNCHANGED <<files, filename, phase, menus, items, subject, unrolled, single_menu_mode, messages, changes>>
do_exit == phase \in {"menu", "choice"} /\ Exit

NconfNext == nShow \/ Key \/ nOpenFile \/ nSearchInChoice \/ nShowAllInChoice \/ do_exit
=============================================================================
