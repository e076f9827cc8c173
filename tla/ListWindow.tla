---------------------------- MODULE ListWindow ----------------------------
(* What the dialogs of support/kconfig/lxdialog share: the terminal, the    *)
(* windows that show items line by line, and the escape key.                *)
EXTENDS Integers, Sequences, SequencesExt

CONSTANTS
  Rows,    \* the heights the terminal may have
  NoItem   \* no item: what a blank line shows, and what item_set past the end gives

ASSUME RowsAssumption == Rows \subseteq Nat

VARIABLE
  rows     \* the height of the terminal

(* The list of items: item_make appends to it, item_count measures it, and  *)
(* item_set walks to the n-th, counted from 0, or off its end.              *)
item_count(item) == Len(item)
item_set(item, n) == IF n \in 0 .. Len(item) - 1 THEN item[n + 1] ELSE NoItem

\* The position of the last item with these data, or the given one.
item_n(item, data, otherwise) ==
  IF data \in ToSet(item) THEN SelectLastInSeq(item, LAMBDA x : x = data) - 1 ELSE otherwise

Line(it, lit) == [shows |-> it, lit |-> lit]
BlankLine == Line(NoItem, FALSE)

\* What n passes through a loop make of a; Step knows the number of its pass.
Repeat(Step(_, _), a, n) ==
  LET after[i \in Nat] == IF i = 0 THEN a ELSE Step(after[i - 1], i) IN after[n]

\* A line outside the window, of an empty list, is not printed.
print_item(win, it, y, lit) == IF y \in DOMAIN win THEN [win EXCEPT ![y] = Line(it, lit)] ELSE win

\* Curses moves the lines and leaves the new ones blank.
wscrl(win, n) == [y \in DOMAIN win |-> IF y + n \in DOMAIN win THEN win[y + n] ELSE BlankLine]

\* Escape closes a dialog when a second one and nothing else follows it; a
\* single other key is put back, and is then a key like any other.
on_key_esc(next) == IF next = <<"escape">> THEN "escape" ELSE "none"
AfterEscape == {<<>>, <<"escape">>, <<"other">>, <<"escape", "other">>}

\* TAB and the arrows go round the buttons.
Turned(button, key, n) == (button + (IF key = "left" THEN n - 1 ELSE 1)) % n

\* The window shows the items from the first one on, and highlights the one
\* the dialog acts on, which is one of them.
Shows(win, item, scroll, choice, lines) ==
  /\ \A y \in 0 .. lines - 1 : win[y] = Line(item_set(item, scroll + y), y = choice)
  /\ lines > 0 => choice \in 0 .. lines - 1
  /\ \A y \in 0 .. lines - 1 : scroll + y < Len(item)
=============================================================================
