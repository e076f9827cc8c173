----------------------------- MODULE CheckList -----------------------------
(* The radio list of menuconfig, dialog_checklist in lxdialog/checklist.c:  *)
(* its height is the caller's and does not follow the terminal.             *)
EXTENDS ListWindow

CONSTANTS
  Values,       \* the values of choices
  ValueLists,   \* the lists of those that may be visible together
  Initial,      \* the character each one begins with
  list_height   \* lines of the list

ASSUME ListAssumption ==
  /\ ValueLists \subseteq Seq(Values) \ {<<>>}
  /\ list_height \in Nat \ {0}

VARIABLE
  cl            \* the open list, or NoList

NoList == [open |-> FALSE]

Lines(c) == Min({list_height, item_count(c.item)})

\* The dialog's height is list_height + 9: title, prompt, frame and buttons.
TooSmall(height) == height < list_height + 15

ListDrawn(c, height) ==
  LET scroll == IF c.choice >= list_height THEN c.choice - list_height + 1 ELSE c.scroll
      choice == IF c.choice >= list_height THEN list_height - 1 ELSE c.choice
      win == [y \in 0 .. list_height - 1 |->
                IF y < Lines(c) THEN Line(item_set(c.item, scroll + y), y = choice) ELSE BlankLine]
  IN  IF TooSmall(height) THEN NoList
      ELSE [c EXCEPT !.scroll = scroll, !.choice = choice, !.win = win]

(* dialog_checklist is called: X marks the value that is set, and the       *)
(* caller has selected the one it left.                                     *)
ListOpen ==
  \E item \in ValueLists :
    \E set, selected \in ToSet(item) \cup {NoItem} :
      /\ cl' = ListDrawn([open |-> TRUE, item |-> item, scroll |-> 0, button |-> 0,
                          choice |-> item_n(item, selected, item_n(item, set, 0)), win |-> <<>>], rows)
      /\ UNCHANGED rows

SetLine(c, y, lit) == [c EXCEPT !.win = print_item(@, item_set(c.item, c.scroll + y), y, lit)]

Chosen(c, y) == SetLine([SetLine(c, c.choice, FALSE) EXCEPT !.choice = y], y, TRUE)

StaysLit(c, n, y) ==     \* mutant
  SetLine([c EXCEPT !.win = IF list_height > 1 THEN wscrl(@, n) ELSE @, !.scroll = @ + n], y, TRUE)
\* With one line there is nothing to move: it is printed over.
ScrolledTo(c, n, y) ==
  LET moved == IF list_height > 1 THEN [SetLine(c, y, FALSE) EXCEPT !.win = wscrl(@, n)] ELSE c
  IN  SetLine([moved EXCEPT !.scroll = @ + n], y, TRUE)

ListUp(c) ==
  IF c.choice > 0 THEN Chosen(c, c.choice - 1)
  ELSE IF c.scroll > 0 THEN ScrolledTo(c, -1, 0) ELSE c

ListDown(c) ==
  IF c.choice < Lines(c) - 1 THEN Chosen(c, c.choice + 1)
  ELSE IF c.scroll + c.choice < item_count(c.item) - 1 THEN ScrolledTo(c, 1, Lines(c) - 1) ELSE c

WithInitial(c, key) == {y \in 0 .. Lines(c) - 1 : Initial[item_set(c.item, c.scroll + y)] = key}

ListMove(key) ==
  /\ cl.open
  /\ key \in {"up", "down"} \/ WithInitial(cl, key) # {}
  /\ cl' = CASE key = "up" -> ListUp(cl)
             [] key = "down" -> ListDown(cl)
             [] OTHER -> Chosen(cl, Min(WithInitial(cl, key)))
  /\ UNCHANGED rows

ListButton(key) ==
  /\ cl.open
  /\ cl' = [cl EXCEPT !.button = Turned(@, key, 2)]
  /\ UNCHANGED rows

(* Enter and help return with the highlighted value as the only selected.   *)
ListReturn(key) ==
  /\ cl.open
  /\ WithInitial(cl, key) = {}
  /\ cl' = NoList
  /\ UNCHANGED rows

ListEscape(next) ==
  /\ cl.open
  /\ cl' = IF on_key_esc(next) = "escape" THEN NoList ELSE cl
  /\ UNCHANGED rows

ListResize ==
  /\ cl.open
  /\ rows' \in Rows
  /\ cl' = ListDrawn(cl, rows')
=============================================================================
