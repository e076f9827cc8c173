------------------------------ MODULE InputBox -----------------------------
(* The input field of menuconfig, dialog_inputbox in lxdialog/inputbox.c,   *)
(* and the question with two buttons, dialog_yesno in yesno.c.  The text is *)
(* a buffer ended by a zero: what matters of it is where it ends, and which *)
(* of its characters each column of the field shows.                        *)
EXTENDS ListWindow

CONSTANTS
  box_width,   \* columns of the field
  MAX_LEN,     \* characters the buffer holds
  YesNoHeight  \* lines of the dialog of a question

ASSUME FieldAssumption == box_width \in Nat \ {0, 1} /\ MAX_LEN \in Nat

VARIABLES
  ib,          \* the open field, or NoField
  yn           \* the open question, or NoQuestion

NoField == [open |-> FALSE]
NoQuestion == [open |-> FALSE]
NoChar == -1

Column(f, i, scroll) == IF scroll + i < f.strlen THEN scroll + i ELSE NoChar

\* The text as it is first shown; scroll is only set when it does not fit.
FieldDrawn(f, height) ==
  LET long == f.strlen >= box_width
      scroll == IF long THEN f.strlen - box_width + 1 ELSE f.scroll
      first == IF long THEN scroll ELSE 0
  IN  IF height <= 8 THEN NoField
      ELSE [f EXCEPT !.scroll = scroll,
                     !.input_x = IF long THEN box_width - 1 ELSE f.strlen,
                     !.field = [i \in 0 .. box_width - 1 |-> Column(f, i, first)]]

FieldOpen ==
  \E n \in 0 .. MAX_LEN :
    /\ ib' = FieldDrawn([open |-> TRUE, strlen |-> n, scroll |-> 0, input_x |-> 0,
                         button |-> -1, stale |-> FALSE, field |-> <<>>], rows)
    /\ UNCHANGED <<rows, yn>>

\* A zero at position n, and a character with a zero behind it.
Ended(f, n) == [f EXCEPT !.strlen = Min({@, n})]
Stored(f, n) == [f EXCEPT !.strlen = IF n <= @ THEN n + 1 ELSE @]

CursorFromOldScroll(f) ==     \* mutant
  LET scroll == IF f.scroll < box_width - 1 THEN 0 ELSE f.scroll - (box_width - 1)
  IN  [f EXCEPT !.scroll = scroll, !.input_x = f.strlen - f.scroll,
                !.field = [i \in 0 .. box_width - 1 |-> Column(f, i, scroll)]]
PagedBack(f) ==
  LET scroll == IF f.scroll < box_width - 1 THEN 0 ELSE f.scroll - (box_width - 1)
  IN  [f EXCEPT !.scroll = scroll, !.input_x = f.strlen - scroll,
                !.field = [i \in 0 .. box_width - 1 |-> Column(f, i, scroll)]]

Backspaced(f) ==
  LET g == IF f.input_x = 0 THEN PagedBack(f) ELSE [f EXCEPT !.input_x = @ - 1]
  IN  [Ended(g, g.scroll + g.input_x) EXCEPT !.field[g.input_x] = NoChar]

Backspace ==
  /\ ib.open /\ ib.button = -1
  /\ ib.input_x # 0 \/ ib.scroll # 0
  /\ ib' = Backspaced(ib)
  /\ UNCHANGED <<rows, yn>>

Typed(f) ==
  LET n == f.scroll + f.input_x
      g == Stored(f, n)
  IN  IF n >= MAX_LEN THEN f
      ELSE IF f.input_x = box_width - 1
      THEN [g EXCEPT !.scroll = @ + 1,
                     !.field = [i \in 0 .. box_width - 1 |->
                                  IF i < box_width - 1 THEN f.scroll + 1 + i ELSE f.field[i]]]
      ELSE [g EXCEPT !.input_x = @ + 1, !.field[f.input_x] = n]

Type ==
  /\ ib.open /\ ib.button = -1
  /\ ib' = Typed(ib)
  /\ UNCHANGED <<rows, yn>>

\* From the field to OK, to Help and back, or the other way round; left and
\* right stay in the field.
FieldButton(key) ==
  /\ ib.open
  /\ key \in {"left", "right"} => ib.button # -1
  /\ ib' = [ib EXCEPT !.button = ((@ + 1 + IF key \in {"up", "left"} THEN 2 ELSE 1) % 3) - 1]
  /\ UNCHANGED <<rows, yn>>

(* Enter returns from everywhere; the letters of the buttons only outside   *)
(* the field, where they are typed.                                         *)
FieldReturn(key) ==
  /\ ib.open
  /\ key \in {"o", "h", "x", " "} => ib.button # -1
  /\ ib' = NoField
  /\ UNCHANGED <<rows, yn>>

FieldEscape(next) ==
  /\ ib.open
  /\ ib' = IF on_key_esc(next) = "escape" THEN NoField ELSE ib
  /\ UNCHANGED <<rows, yn>>

FieldResize ==
  /\ ib.open
  /\ rows' \in Rows
  /\ ib' = FieldDrawn([ib EXCEPT !.stale = @ \/ (ib.scroll > 0 /\ ib.strlen < box_width)], rows')
  /\ UNCHANGED yn

(* ------------------------------ dialog_yesno ---------------------------- *)

Asked(q, height) == IF height < YesNoHeight + 4 THEN NoQuestion ELSE q

YesNoOpen ==
  /\ yn' = Asked([open |-> TRUE, button |-> 0], rows)
  /\ UNCHANGED <<rows, ib>>

YesNoButton(key) ==
  /\ yn.open
  /\ yn' = [yn EXCEPT !.button = Turned(@, key, 2)]
  /\ UNCHANGED <<rows, ib>>

YesNoReturn ==
  /\ yn.open
  /\ yn' = NoQuestion
  /\ UNCHANGED <<rows, ib>>

YesNoEscape(next) ==
  /\ yn.open
  /\ yn' = IF on_key_esc(next) = "escape" THEN NoQuestion ELSE yn
  /\ UNCHANGED <<rows, ib>>

YesNoResize ==
  /\ yn.open
  /\ rows' \in Rows
  /\ yn' = Asked(yn, rows')
  /\ UNCHANGED ib
=============================================================================
