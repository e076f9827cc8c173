------------------------------ MODULE TextBox ------------------------------
(* The text window of menuconfig, dialog_textbox in lxdialog/textbox.c.  It *)
(* has no index of the lines: page points behind the last line printed, and *)
(* going back counts newlines from there.                                   *)
(*                                                                          *)
(* A text has lines 0 .. lines - 1; the last one ends with the zero of the  *)
(* string and not with a newline.  The pointer is at the start of a line,   *)
(* given by its number, or at the zero, which is the start of the last line *)
(* when that is empty and lies behind it when it is not.                    *)
EXTENDS ListWindow

CONSTANTS
  Texts,      \* the texts: how many lines, whether the last newline ends the
              \* text, and the height the caller asks for, 0 for the terminal's
  MaxHscroll  \* bound on the columns scrolled to the side

\* A window of no lines would take the rest of the screen; the frame and a
\* line fit into a height the callers ask for.
ASSUME NoEmptyBox == 8 \notin Rows
ASSUME TextAssumption ==
  \A text \in Texts :
    text.lines \in Nat \ {0} /\ text.newline \in BOOLEAN /\ text.height \in {0} \cup (Nat \ 0 .. 4)

VARIABLE
  tb          \* the open text, or NoText

NoText == [open |-> FALSE]
EmptyLine == -1

End(t) == IF t.text.newline THEN t.text.lines - 1 ELSE t.text.lines
Flag(b) == IF b THEN 1 ELSE 0

\* What the window shows of line k: nothing of an empty one.
Content(text, k) == IF k < text.lines - Flag(text.newline) THEN k ELSE EmptyLine

\* get_line stops at the zero and says so, or goes behind the newline.
get_line(t) ==
  LET last == t.page >= t.text.lines - 1 IN
    [t EXCEPT !.end_reached = last, !.page = IF last THEN End(t) ELSE @ + 1]

print_line(t, y) == [get_line(t) EXCEPT !.box[y] = Content(t.text, t.page)]

\* The lines of a page, printed or only read: page_length counts those up to
\* the end of the text.
Counted(t, ended) == [t EXCEPT !.page_length = IF ended THEN @ ELSE @ + 1]

Read(t, y, printed) ==
  LET ended == t.page_length > 0 /\ t.end_reached
  IN  Counted(IF printed THEN print_line(t, y) ELSE get_line(t), ended)

ReadPage(t, shown) ==
  LET One(a, i) == Read(a, i - 1, i - 1 \in shown)
  IN  Repeat(One, [t EXCEPT !.page_length = 0], t.boxh)

print_page(t) == ReadPage(t, 0 .. t.boxh - 1)

BackAnyway(t) ==     \* mutant
  IF t.begin_reached THEN t
  ELSE [t EXCEPT !.begin_reached = (t.page <= 1), !.page = Max({0, @ - 1})]
\* One step back: at the end of the text the first step only takes the flag.
Back(t) ==
  IF t.begin_reached THEN t
  ELSE IF t.page = End(t) /\ t.end_reached THEN [t EXCEPT !.end_reached = FALSE]
  ELSE [t EXCEPT !.begin_reached = (t.page <= 1), !.page = Max({0, @ - 1})]

back_lines(t, n) ==
  LET One(a, i) == Back(a)
  IN  Repeat(One, [t EXCEPT !.begin_reached = FALSE], n)

\* A dialog without a height of its own leaves four lines of the terminal
\* free, and four lines of a dialog are its frame.
TextDrawn(t, height) ==
  LET boxh == (IF t.text.height # 0 THEN t.text.height ELSE height - 4) - 4
  IN  IF height < 8 THEN NoText
      ELSE print_page([t EXCEPT !.boxh = boxh, !.box = [y \in 0 .. boxh - 1 |-> EmptyLine]])

TextOpen ==
  \E text \in Texts :
    /\ tb' = TextDrawn([open |-> TRUE, text |-> text, begin_reached |-> TRUE, end_reached |-> FALSE,
                        page_length |-> 0, hscroll |-> 0, page |-> 0, boxh |-> 0, box |-> <<>>], rows)
    /\ UNCHANGED rows

wscrl_box(t, n) ==
  [t EXCEPT !.box = [y \in DOMAIN t.box |-> IF y + n \in DOMAIN t.box THEN t.box[y + n] ELSE EmptyLine]]

FirstPage(t) == print_page([t EXCEPT !.begin_reached = TRUE, !.page = 0])
LastPage(t) == print_page(back_lines([t EXCEPT !.end_reached = TRUE, !.page = End(t)], t.boxh))
PreviousLine(t) == ReadPage(wscrl_box(back_lines(t, t.page_length + 1), -1), {0})
PreviousPage(t) == print_page(back_lines(t, t.page_length + t.boxh))
NextLine(t) == print_line(wscrl_box([t EXCEPT !.begin_reached = FALSE], 1), t.boxh - 1)
NextPage(t) == print_page([t EXCEPT !.begin_reached = FALSE])
Aside(t, to) == print_page(back_lines([t EXCEPT !.hscroll = to], t.page_length))

Keeps == UNCHANGED rows

GoBack ==
  /\ tb.open /\ ~tb.begin_reached
  /\ tb' \in {FirstPage(tb), PreviousLine(tb), PreviousPage(tb)}
  /\ Keeps

GoOn ==
  /\ tb.open /\ ~tb.end_reached
  /\ tb' \in {NextLine(tb), NextPage(tb)}
  /\ Keeps

GoToEnd ==
  /\ tb.open
  /\ tb' = LastPage(tb)
  /\ Keeps

GoAside ==
  /\ tb.open
  /\ \E to \in {0, tb.hscroll - 1, tb.hscroll + 1} \cap 0 .. MaxHscroll :
       /\ to <= tb.hscroll => tb.hscroll > 0
       /\ tb' = Aside(tb, to)
  /\ Keeps

TextReturn ==
  /\ tb.open
  /\ tb' = NoText
  /\ Keeps

TextEscape(next) ==
  /\ tb.open
  /\ tb' = IF on_key_esc(next) = "escape" THEN NoText ELSE tb
  /\ Keeps

\* It goes back by the height of the dialog, which is more than its page.
TextResize ==
  /\ tb.open
  /\ rows' \in Rows
  /\ tb' = TextDrawn(back_lines(tb, tb.boxh + 4), rows')
=============================================================================
