------------------------------ MODULE MenuBox ------------------------------
(* The menu of menuconfig, dialog_menu in lxdialog/menubox.c.  The caller   *)
(* keeps the item list, the selected data and the saved scroll between two  *)
(* calls; the window is what the user sees, and a key acts on scroll and    *)
(* choice.  Widths, colours, arrows and the text of the items are left out. *)
EXTENDS ListWindow

CONSTANTS
  Entries,   \* the entries of menus
  MenuLists, \* the lists of those that may be visible together
  Letter     \* the letter of each entry that a key looks for (first_alpha)

ASSUME MenuAssumption == MenuLists \subseteq Seq(Entries)

VARIABLES
  mb,        \* the open menu, or NoMenu
  s_scroll   \* the scroll the caller keeps from one call to the next

NoMenu == [open |-> FALSE]

max_choice(m) == Min({m.menu_height, item_count(m.item)})

(* ------------------------- drawing the whole menu ----------------------- *)

Fits(m, scroll, choice) ==
  /\ scroll \in 0 .. choice
  /\ scroll + max_choice(m) > choice
  /\ scroll + max_choice(m) <= item_count(m.item)

SavedPlace(m) ==
  LET choice == item_n(m.item, m.selected, m.choice) IN
    IF Fits(m, m.saved, choice)
    THEN [m EXCEPT !.scroll = m.saved, !.first_item = m.saved, !.choice = choice - m.saved]
    ELSE [m EXCEPT !.scroll = 0, !.choice = choice]

IntoWindow(m) ==
  LET count == item_count(m.item)
      half == max_choice(m) \div 2
      scroll == IF m.choice >= count - half THEN count - max_choice(m) ELSE m.choice - half
  IN  IF m.choice < max_choice(m) THEN m
      ELSE [m EXCEPT !.scroll = scroll, !.first_item = scroll, !.choice = @ - scroll]

Painted(m) ==
  [m EXCEPT !.win = [y \in 0 .. m.menu_height - 1 |->
    IF y < max_choice(m) THEN Line(item_set(m.item, m.first_item + y), y = m.choice) ELSE BlankLine]]

\* Drawn in a terminal of this height, or given up because it is too small.
Drawn(m, height) ==
  IF height < 15 THEN NoMenu
  ELSE Painted(IntoWindow(SavedPlace([m EXCEPT !.menu_height = height - 14])))

(* dialog_menu is called: the entries that are visible now are its items.   *)
MenuOpen ==
  \E item \in MenuLists :
    \E selected \in ToSet(item) \cup {NoItem}, scroll \in {0, s_scroll} :
      /\ s_scroll' = scroll
      /\ mb' = Drawn([open |-> TRUE, item |-> item, selected |-> selected,
                      saved |-> scroll, scroll |-> 0, choice |-> 0, first_item |-> 0, button |-> 0,
                      menu_height |-> 0, redrawn |-> FALSE, win |-> <<>>], rows)
      /\ UNCHANGED rows

(* ------------------------------- moving --------------------------------- *)

Put(m, y, lit) == [m EXCEPT !.win = print_item(@, item_set(m.item, m.scroll + y), y, lit)]
do_scroll(m, n) == [m EXCEPT !.win = wscrl(@, n), !.scroll = @ + n]
LastLine(m) == max_choice(m) - 1
Below(m) == m.scroll + max_choice(m) < item_count(m.item)

ScrolledUp(m) == Put(do_scroll(m, -1), 0, FALSE)
ScrolledOnly(m) == do_scroll(m, 1)     \* mutant: the new line is not printed
ScrolledDown(m) == Put(do_scroll(m, 1), LastLine(m), FALSE)

Up(m) ==
  IF m.choice < 2 /\ m.scroll # 0 THEN ScrolledUp(m)
  ELSE [m EXCEPT !.choice = Max({@ - 1, 0})]

Down(m) ==
  IF m.choice > max_choice(m) - 3 /\ Below(m) THEN ScrolledDown(m)
  ELSE [m EXCEPT !.choice = Min({@ + 1, LastLine(m)})]

PageUp(m) ==
  LET One(a, i) == IF a.scroll > 0 THEN ScrolledUp(a) ELSE [a EXCEPT !.choice = Max({@ - 1, 0})]
  IN  Repeat(One, m, max_choice(m))

PageDown(m) ==
  LET One(a, i) == IF Below(a) THEN ScrolledDown(a) ELSE [a EXCEPT !.choice = Min({@ + 1, LastLine(a)})]
  IN  Repeat(One, m, max_choice(m))

\* The line of the next item below the choice with this letter, or else of
\* the first one; max_choice if no line has it.
HotLine(m, key) ==
  LET lines == {y \in 0 .. LastLine(m) : Letter[item_set(m.item, m.scroll + y)] = key}
      below == {y \in lines : y > m.choice}
  IN  IF below # {} THEN Min(below) ELSE IF lines # {} THEN Min(lines) ELSE max_choice(m)

Moved(m, key) ==
  CASE key = "up" -> Up(m)
    [] key = "down" -> Down(m)
    [] key = "page up" -> PageUp(m)
    [] key = "page down" -> PageDown(m)
    [] OTHER -> [m EXCEPT !.choice = HotLine(m, key)]

Refreshed(m) == Put(m, m.choice, TRUE)

MenuMove(key) ==
  /\ mb.open
  /\ key \in {"up", "down", "page up", "page down"} \/ HotLine(mb, key) < max_choice(mb)
  /\ mb' = Refreshed(Moved(Put(mb, mb.choice, FALSE), key))
  /\ UNCHANGED <<rows, s_scroll>>

MenuButton(key) ==
  /\ mb.open
  /\ mb' = [mb EXCEPT !.button = Turned(@, key, 3)]
  /\ UNCHANGED <<rows, s_scroll>>

(* A key that acts on the highlighted item saves the scroll and returns; a  *)
(* letter that some line has as its own only moves.                         *)
MenuReturn(key) ==
  /\ mb.open
  /\ HotLine(mb, key) = max_choice(mb)
  /\ s_scroll' = mb.scroll
  /\ mb' = NoMenu
  /\ UNCHANGED rows

MenuEscape(next) ==
  /\ mb.open
  /\ mb' = IF on_key_esc(next) = "escape" THEN NoMenu ELSE mb
  /\ UNCHANGED <<rows, s_scroll>>

MenuResize ==
  /\ mb.open
  /\ rows' \in Rows
  /\ mb' = Drawn([mb EXCEPT !.redrawn = TRUE], rows')
  /\ UNCHANGED s_scroll
=============================================================================
