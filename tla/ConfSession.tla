---------------------------- MODULE ConfSession ----------------------------
(* What the two full-screen programs, mconf of "make menuconfig" and nconf  *)
(* of "make nconfig", have in common: one session on the configuration      *)
(* files.  A dialog is open in every phase but "build"; what it returns is  *)
(* any result it can give.  Help texts, search results, the highlighted     *)
(* entry and the looks of the items are left out.  A step is written for    *)
(* both where their code is the same, and mapped to that of one of them.    *)
EXTENDS KVisible

CONSTANTS
  InitialFiles,  \* the files there may be at first, by name
  Texts,         \* what is typed for a number or a string
  MaxChanges     \* bound on what is set, loaded or saved in a session

VARIABLES
  files,            \* the configuration files by name, .config among them
  filename,         \* the file the configuration is written to
  t,                \* the symbols
  phase,            \* "build" or the dialog that is open, "done" at the end
  menus,            \* the menus conf has been called for, the innermost last
  items,            \* what build_conf made of the innermost one
  subject,          \* the entry conf_choice or conf_string was called for
  show_all,         \* show_all_options of mconf, show_all_items of nconf
  unrolled,         \* the menus with data set, in the single menu mode
  single_menu_mode,
  outcome,          \* what the last message says of the configuration
  changes,
  misnamed          \* a file to load has not been found (of the model, not the code)

messages == <<outcome, misnamed>>
settings == <<show_all, unrolled, single_menu_mode>>
vars == <<files, filename, t, phase, menus, items, subject, settings, messages, changes>>

ReadNow(name) == conf_read(NewTable, files[name])

Init ==
  /\ files \in InitialFiles
  /\ filename = ".config"
  /\ t = ReadNow(".config")
  /\ phase = "build"
  /\ menus = <<1>> /\ items = <<>> /\ subject = 0
  /\ show_all = FALSE /\ unrolled = {}
  /\ single_menu_mode \in BOOLEAN
  /\ outcome = "none"
  /\ changes = 0
  /\ misnamed = FALSE

Counts == changes < MaxChanges /\ changes' = changes + 1

(* ------------------------- the entries of a menu ------------------------ *)

Kind(id) == Parsed.prop[Menu(id).prompt].kind
PromptOf(id) == IF Menu(id).prompt = 0 THEN "none" ELSE Kind(id)

\* The entry of the value that the choice has, if it is shown.
DefMenuIn(c, d, s, k) == Pair(c.t, IF c.v /\ Menu(k).sym = s THEN k ELSE d)
DefMenu(u, id, s) ==
  FoldLeft(LAMBDA r, k : DefMenuIn(menu_is_visible(r.t, k), r.v, s, k), Pair(u, 0), Menu(id).kids)

ChoiceTag(u, s, def) == IF sym_is_changable(u, s) \/ def # 0 THEN "t" ELSE ":"
SymbolTag(u, s) == IF ~Logical(s) THEN "s" ELSE IF IsValue(s) /\ Tri(u, s) = "y" THEN ":" ELSE "t"

(* What build_conf does with an entry: the item it makes, or none, the      *)
(* value it shows, and the entries it goes on with below it.                *)
Entry(u, tag, shows, below) == [t |-> u, tag |-> tag, shows |-> shows, below |-> below]

ChoiceEntry(d, id, val) ==
  Entry(d.t, ChoiceTag(d.t, Menu(id).sym, d.v), <<val, IF val = "y" THEN d.v ELSE 0>>,
        IF val # "y" THEN Menu(id).kids ELSE IF d.v # 0 /\ Menu(d.v).kids # <<>> THEN <<d.v>> ELSE <<>>)
ChoiceValue(d, id) == ChoiceEntry(d, id, Tri(d.t, Menu(id).sym))

\* o holds the settings, and top is current_menu.
EntryOf(u, id, top, o) ==
  LET s == Menu(id).sym  kids == Menu(id).kids
  IN  IF s = NoSym
      THEN IF id = top \/ PromptOf(id) = "none" THEN Entry(u, "none", "", kids)
           ELSE IF Kind(id) = "menu"
           THEN Entry(u, "m", "", IF o.single /\ id \in o.unrolled THEN kids ELSE <<>>)
           ELSE Entry(u, ":", "", kids)
      ELSE IF IsChoice(s) THEN ChoiceValue(DefMenu(u, id, u.sym[s].val), id)
      ELSE IF id = top THEN Entry(u, ":", "", kids)
      ELSE Entry(u, SymbolTag(u, s), Text(u, s),
                 IF PromptOf(id) = "menu" /\ Logical(s) THEN <<>> ELSE kids)

Options == [all |-> show_all, single |-> single_menu_mode, unrolled |-> unrolled]

OnItem(tag) == {items[i].id : i \in {i \in DOMAIN items : phase = "menu" /\ items[i].tag = tag}}

(* -------------------------- what an entry does -------------------------- *)

\* What was chosen has been done, and the menu is shown again.
Again == phase' = "build" /\ items' = <<>> /\ UNCHANGED subject

OpenDialog(dialog, id, u) ==
  /\ phase' = dialog /\ subject' = id /\ items' = <<>>
  /\ t' = u
  /\ UNCHANGED <<files, filename, menus, settings, messages, changes>>
Enter(id, u) ==
  /\ menus' = Append(menus, id)
  /\ t' = u
  /\ Again
  /\ UNCHANGED <<files, filename, settings, messages, changes>>
Unrolled(id, u) ==
  /\ single_menu_mode
  /\ unrolled' = IF id \in unrolled THEN unrolled \ {id} ELSE unrolled \cup {id}
  /\ t' = u
  /\ Again
  /\ UNCHANGED <<files, filename, menus, show_all, single_menu_mode, messages, changes>>
Set(u) ==
  /\ Counts
  /\ t' = u
  /\ Again
  /\ UNCHANGED <<files, filename, menus, settings, messages>>

IsOpenChoice(u, id) == IsChoice(Menu(id).sym) /\ Tri(u, Menu(id).sym) = "y"

\* y falls back on m, and a value out of range changes nothing.
Meant(u, s, v) == IF v = "y" /\ ~MaySetTristate(u, s, "y") THEN "m" ELSE v
SetFrom(u, s, v) ==
  \E w \in {Meant(u, s, v)} : MaySetTristate(u, s, w) /\ Set(sym_set_tristate_value(u, s, w))

ShowAll ==
  /\ phase = "menu"
  /\ show_all' = ~show_all
  /\ Again
  /\ UNCHANGED <<files, filename, t, menus, unrolled, single_menu_mode, messages, changes>>

\* search_conf calculates the symbols it finds: one, or all that have a name.
Found == {SelectSeq(Order, LAMBDA s : s \notin ChoiceSyms)} \cup {<<s>> : s \in ToSet(Order) \ ChoiceSyms}
Search ==
  /\ phase = "menu"
  /\ \E ss \in Found : t' = CalcSyms(t, ss)
  /\ Again
  /\ UNCHANGED <<files, filename, menus, settings, messages, changes>>

(* ------------------------- conf_choice, conf_string --------------------- *)

Closes(u) ==
  /\ Counts
  /\ t' = u
  /\ phase' = "build" /\ subject' = 0
  /\ UNCHANGED <<files, filename, menus, items, settings, messages>>

\* The values of the choice that can be chosen.
IfShown(c, ks, k) == Pair(c.t, IF c.v /\ Menu(k).sym # NoSym THEN Append(ks, k) ELSE ks)
Shown(u) ==
  FoldLeft(LAMBDA r, k : IfShown(menu_is_visible(r.t, k), r.v, k), Pair(u, <<>>), Menu(subject).kids)
conf_choice ==
  /\ phase = "choice"
  /\ \E r \in {Shown(t)} :
       \E k \in ToSet(r.v) :
         Closes(IF MaySetTristate(r.t, Menu(k).sym, "y")
                THEN sym_set_tristate_value(r.t, Menu(k).sym, "y") ELSE r.t)

StringSet(r, x) == r.v /\ Closes(sym_set_string_value(r.t, Menu(subject).sym, x))
conf_string ==
  /\ phase = "string"
  /\ \E x \in Texts : \E r \in {sym_string_within_range(t, Menu(subject).sym, x)} : StringSet(r, x)

\* Escape leaves the list, the field and the names to the menu below.
Back ==
  /\ phase \in {"choice", "string"}
  /\ phase' = "build" /\ subject' = 0
  /\ UNCHANGED <<files, filename, t, menus, items, settings, messages, changes>>

(* -------------------------- conf_load, conf_save ------------------------ *)

\* Back to the menu, or to the list of the choice that is still open.
Returns(u) ==
  /\ phase' = IF subject = 0 THEN "build" ELSE "choice"
  /\ t' = IF subject = 0 THEN u ELSE Shown(u).t
  /\ UNCHANGED <<menus, items, subject, settings>>

NoFile ==
  /\ phase \in {"load", "save"}
  /\ Returns(t)
  /\ UNCHANGED <<files, filename, messages, changes>>

\* A file that is read becomes the one to write, and counts as changed.
conf_load ==
  /\ phase = "load"
  /\ Counts
  /\ \E name \in DOMAIN files :
       /\ files[name] # Absent
       /\ filename' = name
       /\ Returns([conf_read(t, files[name]) EXCEPT !.changed = TRUE])
  /\ UNCHANGED <<files, messages>>

\* conf_read clears the mark of a change before it looks for the file.
LoadFails ==
  /\ phase = "load"
  /\ Counts
  /\ t' = [t EXCEPT !.changed = FALSE]
  /\ misnamed' = TRUE
  /\ UNCHANGED <<files, filename, phase, menus, items, subject, settings, outcome>>

WrittenTo(name, r) == files' = [files EXCEPT ![name] = r.v]

KeepsName ==     \* mutant
  /\ phase = "save"
  /\ Counts
  /\ \E name \in DOMAIN files, r \in {conf_write(t)} : WrittenTo(name, r) /\ Returns(r.t)
  /\ UNCHANGED <<filename, messages>>
\* A name that cannot be written is asked for again.
conf_save ==
  /\ phase = "save"
  /\ Counts
  /\ \E name \in DOMAIN files, r \in {conf_write(t)} : filename' = name /\ WrittenTo(name, r) /\ Returns(r.t)
  /\ UNCHANGED messages

(* ------------------------------- the exit ------------------------------- *)

LeaveMenu ==
  /\ phase = "menu"
  /\ Len(menus) > 1
  /\ menus' = Front(menus)
  /\ Again
  /\ UNCHANGED <<files, filename, t, settings, messages, changes>>

Finish(message) == phase' = "done" /\ outcome' = message /\ UNCHANGED misnamed
Exit ==
  /\ IF t.changed THEN phase' = "ask" /\ UNCHANGED messages ELSE Finish("end")
  /\ items' = <<>>
  /\ UNCHANGED <<files, filename, t, changes, menus, subject, settings>>
LeaveMain == phase = "menu" /\ Len(menus) = 1 /\ Exit

AnswerYes ==
  /\ phase = "ask"
  /\ \E r \in {conf_write(t)} : WrittenTo(filename, r) /\ t' = r.t
  /\ Finish("saved")
  /\ UNCHANGED <<filename, menus, items, subject, settings, changes>>
AnswerNo ==
  /\ phase = "ask"
  /\ Finish("not saved")
  /\ UNCHANGED <<files, filename, t, menus, items, subject, settings, changes>>
Continue ==
  /\ phase = "ask"
  /\ Returns(t)
  /\ UNCHANGED <<files, filename, messages, changes>>

Common ==
  \/ ShowAll \/ Search
  \/ conf_choice \/ conf_string \/ Back
  \/ conf_load \/ LoadFails \/ conf_save \/ NoFile
  \/ LeaveMenu \/ LeaveMain
  \/ AnswerYes \/ AnswerNo \/ Continue
=============================================================================
