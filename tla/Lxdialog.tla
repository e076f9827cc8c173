------------------------------ MODULE Lxdialog -----------------------------
(* The dialogs of menuconfig, one open at a time, in a terminal the user    *)
(* may resize while one is open.  What the caller does between two dialogs, *)
(* and what it makes of their results, is not part of this module.          *)
EXTENDS MenuBox, CheckList, InputBox, TextBox

CONSTANT Letters   \* keys that are letters

vars == <<rows, mb, s_scroll, cl, ib, yn, tb>>

Init ==
  /\ rows \in Rows
  /\ mb = NoMenu /\ s_scroll = 0
  /\ cl = NoList
  /\ ib = NoField /\ yn = NoQuestion
  /\ tb = NoText

AllClosed == ~mb.open /\ ~cl.open /\ ~ib.open /\ ~yn.open /\ ~tb.open

dialog_menu ==
  /\ UNCHANGED <<cl, ib, yn, tb>>
  /\ \/ AllClosed /\ MenuOpen
     \/ \E key \in {"up", "down", "page up", "page down"} \cup Letters : MenuMove(key)
     \/ \E key \in {"left", "right"} : MenuButton(key)
     \/ \E key \in {"enter"} \cup Letters : MenuReturn(key)
     \/ \E next \in AfterEscape : MenuEscape(next)
     \/ MenuResize

dialog_checklist ==
  /\ UNCHANGED <<mb, s_scroll, ib, yn, tb>>
  /\ \/ AllClosed /\ ListOpen
     \/ \E key \in {"up", "down"} \cup Letters : ListMove(key)
     \/ \E key \in {"left", "right"} : ListButton(key)
     \/ \E key \in {"enter"} \cup Letters : ListReturn(key)
     \/ \E next \in AfterEscape : ListEscape(next)
     \/ ListResize

dialog_inputbox ==
  /\ UNCHANGED <<mb, s_scroll, cl, tb>>
  /\ \/ AllClosed /\ FieldOpen
     \/ Backspace
     \/ Type
     \/ \E key \in {"up", "down", "left", "right"} : FieldButton(key)
     \/ \E key \in {"enter", "o", "h", "x", " "} : FieldReturn(key)
     \/ \E next \in AfterEscape : FieldEscape(next)
     \/ FieldResize

dialog_yesno ==
  /\ UNCHANGED <<mb, s_scroll, cl, tb>>
  /\ \/ AllClosed /\ YesNoOpen
     \/ \E key \in {"left", "right"} : YesNoButton(key)
     \/ YesNoReturn
     \/ \E next \in AfterEscape : YesNoEscape(next)
     \/ YesNoResize

dialog_textbox ==
  /\ UNCHANGED <<mb, s_scroll, cl, ib, yn>>
  /\ \/ AllClosed /\ TextOpen
     \/ GoBack
     \/ GoOn
     \/ GoToEnd
     \/ GoAside
     \/ TextReturn
     \/ \E next \in AfterEscape : TextEscape(next)
     \/ TextResize

Next == dialog_menu \/ dialog_checklist \/ dialog_inputbox \/ dialog_yesno \/ dialog_textbox

Spec == Init /\ [][Next]_vars

(* ------------------------------ properties ------------------------------ *)

(* The lines of the menu show the items they stand for and the highlighted  *)
(* one is the one Enter acts on (menubox.c:253-268 and the incremental      *)
(* scrolling of 329-381): whatever the list, the scroll saved by the last   *)
(* call and the keys, as long as a menu that was opened with a saved scroll *)
(* is not redrawn by a resize.                                              *)
MenuShowsItems ==
  mb.open /\ (mb.redrawn => mb.saved = 0) =>
    Shows(mb.win, mb.item, mb.scroll, mb.choice, max_choice(mb))

(* The radio list shows the values it stands for, always: it keeps its own  *)
(* scroll over a resize (checklist.c:190-202, 228-289).                     *)
ListShowsItems == cl.open => Shows(cl.win, cl.item, cl.scroll, cl.choice, Lines(cl))

(* The field shows the end of the text and the cursor is behind its last    *)
(* character, so that what is typed is appended and what is deleted is the  *)
(* last one, within the buffer (inputbox.c:97-110, 132-180).  It holds      *)
(* until the terminal is resized while a text that fits is still scrolled.  *)
FieldShowsText ==
  ib.open /\ ~ib.stale =>
    /\ ib.scroll + ib.input_x = ib.strlen
    /\ ib.input_x \in 0 .. box_width - 1
    /\ ib.strlen <= MAX_LEN
    /\ \A i \in 0 .. box_width - 1 : ib.field[i] = Column(ib, i, ib.scroll)

(* The text window shows consecutive lines, and page, from which the next   *)
(* move counts, is where the line under the window starts; the two flags    *)
(* say that the first and the last line are shown (textbox.c:271-377).      *)
TextInSequence(text) ==
  tb.open /\ tb.text = text =>
    \E top \in 0 .. text.lines - 1 :
      /\ \A y \in DOMAIN tb.box : tb.box[y] = Content(text, top + y)
      /\ tb.page = Min({End(tb), top + tb.boxh})
      /\ tb.begin_reached => top = 0
      /\ tb.end_reached <=> top + tb.boxh >= text.lines

(* Every text that ends with a newline, like all the help texts.            *)
TextStaysInSequence == \A text \in Texts : text.newline => TextInSequence(text)
=============================================================================
