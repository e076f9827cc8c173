------------------------------ MODULE NconfGui -----------------------------
(* The windows of nconf: the search in a menu (do_match in nconf.c), and    *)
(* the buttons, the input field and the text of nconf.gui.c.  One of them   *)
(* is in use at a time.  Curses moves the highlight of a menu where it is   *)
(* asked to.                                                                *)
EXTENDS Integers, Sequences, FiniteSetsExt

CONSTANTS
  Menus,         \* lists of items, each a sequence of letters
  Keys,          \* the letters, each of which can be typed
  MaxPattern,    \* bound on the letters of a pattern
  result_len,    \* bytes of the buffer of an input field
  Openings,      \* what a field is opened with
  prompt_width,  \* columns of the field
  LINES,         \* lines of the terminal
  TextLines      \* the numbers of lines a text may have

ASSUME ItemsAssumption == \A items \in Menus : items \in Seq(Seq(Keys))
\* A letter is neither the zero that ends a text nor what lies beyond the
\* buffer, and a field is opened with a text that fits: of a longer one
\* strncpy would copy no end.
ASSUME BufferAssumption ==
  /\ Keys \cap {"0", "other"} = {} /\ result_len \in Nat \ {0}
  /\ \A init \in Openings : init \in Seq(Keys) /\ Len(init) < result_len
\* On a lower terminal nconf does not start (nconf.c:1513).
ASSUME ScreenAssumption == LINES \in Nat /\ LINES >= 20 /\ TextLines \subseteq Nat

VARIABLES
  use,           \* what the user is in: "none", "list", "buttons", "field", "text"; or "crashed"
  list,          \* the menu: its items, the current one and the search
  buttons,       \* the buttons of a question and the current one
  field,         \* the input field
  win            \* the window of a text

gvars == <<use, list, buttons, field, win>>

NoUse == [on |-> FALSE]
GuiInit == use = "none" /\ list = NoUse /\ buttons = NoUse /\ field = NoUse /\ win = NoUse

(* ------------------------- the search in a menu ------------------------- *)

Includes(text, pattern) ==
  \E i \in 0 .. Len(text) - Len(pattern) : SubSeq(text, i + 1, i + Len(pattern)) = pattern
Matching(l, pattern) == {i \in 0 .. Len(l.items) - 1 : Includes(l.items[i + 1], pattern)}

\* The items are made, and the one that was current is so again if it is
\* still there.
Listed(items, index) ==
  [items |-> items, current |-> IF index < Len(items) THEN index ELSE 0,
   in_search |-> FALSE, direction |-> "tinker_down", pattern |-> <<>>, stuck |-> "no"]
Remake(items, index) ==
  /\ use' = "list"
  /\ list' = Listed(items, index)
  /\ UNCHANGED <<buttons, field, win>>
OpenList == use = "none" /\ \E items \in Menus : Remake(items, 0)
MakeList == use = "list" /\ list.stuck = "no" /\ ~list.in_search /\ \E items \in Menus : Remake(items, list.current)

\* Where the loop starts, and how far from there in its direction i is.
StartOf(l, flag) == l.current + (CASE flag = "next_down" -> 1 [] flag = "next_up" -> -1 [] OTHER -> 0)
Distance(l, flag, i) ==
  (IF flag \in {"next_up", "tinker_up"} THEN StartOf(l, flag) - i ELSE i - StartOf(l, flag)) % Len(l.items)

SearchForever(l, flag) ==     \* mutant
  IF l.items = <<>> THEN [l EXCEPT !.stuck = "division_by_zero"]
  ELSE IF Matching(l, l.pattern) # {}
  THEN [l EXCEPT !.current = CHOOSE i \in Matching(l, l.pattern) :
                   \A j \in Matching(l, l.pattern) : Distance(l, flag, i) <= Distance(l, flag, j)]
  ELSE [l EXCEPT !.stuck = "endless_loop"]
(* It goes round to the first match, or until it is back where it started.  *)
(* A start before the first or after the last item is never reached again.  *)
get_mext_match(l, flag) ==
  IF l.items = <<>> THEN [l EXCEPT !.stuck = "division_by_zero"]
  ELSE IF Matching(l, l.pattern) # {}
  THEN [l EXCEPT !.current = CHOOSE i \in Matching(l, l.pattern) :
                   \A j \in Matching(l, l.pattern) : Distance(l, flag, i) <= Distance(l, flag, j)]
  ELSE IF StartOf(l, flag) \in 0 .. Len(l.items) - 1 THEN l ELSE [l EXCEPT !.stuck = "endless_loop"]

adj_match_dir(flag) ==
  CASE flag = "next_down" -> "tinker_down" [] flag = "next_up" -> "tinker_up" [] OTHER -> flag

Searches == use = "list" /\ list.stuck = "no" /\ list.in_search
Found(l, flag) == get_mext_match([l EXCEPT !.direction = flag], flag)
ListStep(l) == list' = l /\ UNCHANGED <<use, buttons, field, win>>

SlashKey ==
  /\ use = "list" /\ list.stuck = "no"
  /\ ListStep([list EXCEPT !.in_search = ~@, !.pattern = <<>>, !.direction = "tinker_down"])
EscapeSearch == Searches /\ ListStep([list EXCEPT !.in_search = FALSE, !.pattern = <<>>, !.direction = "tinker_down"])

FromFirst(c) ==     \* mutant
  /\ Searches
  /\ Len(list.pattern) < MaxPattern
  /\ ListStep(Found([list EXCEPT !.pattern = Append(@, c), !.current = 0], adj_match_dir(list.direction)))
TypePattern(c) ==
  /\ Searches
  /\ Len(list.pattern) < MaxPattern
  /\ ListStep(Found([list EXCEPT !.pattern = Append(@, c)], adj_match_dir(list.direction)))
FindNext(flag) == Searches /\ ListStep(Found(list, flag))

(* In an empty pattern the byte before it is cleared: the highest of        *)
(* match_direction, or on a big-endian machine the lowest.                  *)
ErasePattern ==
  /\ Searches
  /\ \E flag \in IF list.pattern = <<>> THEN {list.direction, "tinker_up"} ELSE {list.direction} :
       ListStep([list EXCEPT !.pattern = IF @ = <<>> THEN @ ELSE SubSeq(@, 1, Len(@) - 1),
                             !.direction = adj_match_dir(flag)])
\* Every other key ends the search, and then does what it does without one.
EndSearch == Searches /\ ListStep([list EXCEPT !.in_search = FALSE, !.pattern = <<>>])
MoveInList ==
  /\ use = "list" /\ list.stuck = "no" /\ ~list.in_search
  /\ \E i \in 0 .. Len(list.items) - 1 : ListStep([list EXCEPT !.current = i])
LeaveList ==
  /\ use = "list" /\ list.stuck = "no" /\ ~list.in_search
  /\ use' = "none" /\ list' = NoUse
  /\ UNCHANGED <<buttons, field, win>>

(* ------------------------------ btn_dialog ------------------------------ *)

OpenButtons ==
  /\ use = "none" /\ use' = "buttons"
  /\ \E n \in 0 .. 2 : buttons' = [on |-> TRUE, n |-> n, current |-> 0]
  /\ UNCHANGED <<list, field, win>>
MoveButton(n) ==
  /\ use = "buttons"
  /\ buttons.current + n \in 0 .. buttons.n - 1
  /\ buttons' = [buttons EXCEPT !.current = @ + n]
  /\ UNCHANGED <<use, list, field, win>>
CloseButtons ==
  /\ use = "buttons" /\ use' = "none" /\ buttons' = NoUse
  /\ UNCHANGED <<list, field, win>>

(* ---------------------------- dialog_inputbox --------------------------- *)

\* mem is the memory from the first byte of the buffer on, as far as a move
\* can reach: "0" is the zero that ends a text, and "other" a byte of the
\* callers, which lie behind the buffer.  typed is the text as it was entered,
\* longest how long it has been, and appended says that the field was empty
\* and every character was put at the end.
Memory == 0 .. 2 * result_len + 3
Bytes == Keys \cup {"0", "other"}
CString(mem) ==
  LET len == Min({i \in DOMAIN mem : mem[i] = "0"}) IN [i \in 1 .. len |-> mem[i - 1]]
memmove(mem, to, from, n) ==
  [i \in DOMAIN mem |-> IF i \in to .. to + n - 1 THEN mem[i - to + from] ELSE mem[i]]
strncpy(init) ==
  [i \in Memory |-> IF i >= result_len THEN "other" ELSE IF i < Len(init) THEN init[i + 1] ELSE "0"]

OpenField ==
  /\ use = "none" /\ use' = "field"
  /\ \E init \in Openings :
       field' = [on |-> TRUE, cursor |-> Len(init), typed |-> init, mem |-> strncpy(init),
                 longest |-> Len(init), appended |-> init = <<>>]
  /\ UNCHANGED <<list, buttons, win>>

FieldStep(f) == field' = f /\ UNCHANGED <<use, list, buttons, win>>
length == Len(CString(field.mem))

\* As many bytes are moved as the whole text has, from the cursor on.
Insert(c) ==
  /\ use = "field"
  /\ length - 2 < result_len
  /\ FieldStep([field EXCEPT
       !.mem = [memmove(@, field.cursor + 1, field.cursor, length + 1) EXCEPT ![field.cursor] = c],
       !.cursor = @ + 1,
       !.typed = SubSeq(@, 1, field.cursor) \o <<c>> \o SubSeq(@, field.cursor + 1, Len(@)),
       !.longest = Max({@, length + 1})])
EraseBefore ==
  /\ use = "field"
  /\ field.cursor > 0
  /\ FieldStep([field EXCEPT
       !.mem = memmove(@, field.cursor - 1, field.cursor, length - field.cursor + 1),
       !.cursor = @ - 1,
       !.typed = SubSeq(@, 1, field.cursor - 1) \o SubSeq(@, field.cursor + 1, Len(@)),
       !.appended = FALSE])
KeepsTheEnd ==     \* mutant
  /\ use = "field"
  /\ field.cursor < length
  /\ FieldStep([field EXCEPT
       !.mem = memmove(@, field.cursor, field.cursor + 1, length - field.cursor - 1),
       !.typed = SubSeq(@, 1, field.cursor) \o SubSeq(@, field.cursor + 2, Len(@)),
       !.appended = FALSE])
\* The byte behind the terminating zero is moved, too.
EraseUnder ==
  /\ use = "field"
  /\ field.cursor < length
  /\ FieldStep([field EXCEPT
       !.mem = memmove(@, field.cursor, field.cursor + 1, length - field.cursor + 1),
       !.typed = SubSeq(@, 1, field.cursor) \o SubSeq(@, field.cursor + 2, Len(@)),
       !.appended = FALSE])
CursorRight ==
  /\ use = "field"
  /\ field.cursor < length /\ field.cursor < Min({result_len, prompt_width})
  /\ FieldStep([field EXCEPT !.cursor = @ + 1])
CursorLeft == use = "field" /\ field.cursor > 0 /\ FieldStep([field EXCEPT !.cursor = @ - 1, !.appended = FALSE])

\* The callers whose bytes were overwritten may not come back.
Overrun == \E i \in Memory : i >= result_len /\ field.mem[i] # "other"
CloseField ==
  /\ use = "field" /\ field' = NoUse
  /\ use' = "none" \/ (Overrun /\ use' = "crashed")
  /\ UNCHANGED <<list, buttons, win>>

(* ---------------------------- show_scroll_win --------------------------- *)

\* The last line counts even if nothing follows its newline.  In the model,
\* upto is how many lines have been shown one after the other from the first
\* one on, and jumped says that End was pressed.
text_lines(w) == Max({Min({w.total_lines + 4, LINES - 2}) - 4, 0})
LastShown(w) == w.start_y + text_lines(w) - 2
WinDrawn(w) == [w EXCEPT !.upto = IF w.start_y <= @ THEN Max({@, LastShown(w) + 1}) ELSE @]
Clamped(w, y) == Min({Max({y, 0}), w.total_lines - text_lines(w)})

OpenText ==
  /\ use = "none" /\ use' = "text"
  /\ \E n \in TextLines :
       win' = WinDrawn([on |-> TRUE, total_lines |-> n + 1, start_y |-> 0, upto |-> 0, jumped |-> FALSE])
  /\ UNCHANGED <<list, buttons, field>>

PagePast(key, w) ==     \* mutant
  CASE key = "page_down" -> w.start_y + text_lines(w) + 2
    [] key = "page_up" -> w.start_y - (text_lines(w) + 2)
    [] key = "home" -> 0
    [] key = "end" -> w.total_lines - text_lines(w)
    [] key = "down" -> w.start_y + 1
    [] key = "up" -> w.start_y - 1
TextMoved(key, w) ==
  CASE key = "page_down" -> w.start_y + text_lines(w) - 2
    [] key = "page_up" -> w.start_y - (text_lines(w) + 2)
    [] key = "home" -> 0
    [] key = "end" -> w.total_lines - text_lines(w)
    [] key = "down" -> w.start_y + 1
    [] key = "up" -> w.start_y - 1
Scroll(key) ==
  /\ use = "text"
  /\ win' = WinDrawn([win EXCEPT !.start_y = Clamped(win, TextMoved(key, win)), !.jumped = @ \/ key = "end"])
  /\ UNCHANGED <<use, list, buttons, field>>
CloseText ==
  /\ use = "text" /\ use' = "none" /\ win' = NoUse
  /\ UNCHANGED <<list, buttons, field>>

GuiNext ==
  \/ OpenList \/ MakeList \/ SlashKey \/ EscapeSearch \/ ErasePattern \/ EndSearch \/ MoveInList \/ LeaveList
  \/ \E c \in Keys : TypePattern(c) \/ Insert(c)
  \/ \E flag \in {"next_down", "next_up"} : FindNext(flag)
  \/ OpenButtons \/ CloseButtons \/ \E n \in {1, -1} : MoveButton(n)
  \/ OpenField \/ EraseBefore \/ EraseUnder \/ CursorRight \/ CursorLeft \/ CloseField
  \/ OpenText \/ CloseText \/ \E key \in {"page_down", "page_up", "home", "end", "down", "up"} : Scroll(key)

(* ------------------------------ properties ------------------------------ *)

(* While a pattern is typed, erased and searched on, the current item is    *)
(* one that matches the pattern, or as much of its beginning as any item    *)
(* matches (do_match in nconf.c:1018-1063, which does not search again when *)
(* a letter is erased and stays where it is when nothing matches).          *)
StaysOnMatch ==
  use = "list" /\ list.in_search /\ list.stuck = "no" =>
    \A n \in 0 .. Len(list.pattern) :
      Matching(list, SubSeq(list.pattern, 1, n)) # {} =>
        list.current \in Matching(list, SubSeq(list.pattern, 1, n))

(* The search comes to an end unless the menu is empty, or nothing matches  *)
(* and the search goes on from the first item upwards or from the last one  *)
(* downwards (get_mext_match in nconf.c:500-525, whose comment promises an  *)
(* index "or -1 if no such item exists").                                   *)
StuckAtAnEnd ==
  use = "list" =>
    CASE list.stuck = "no" -> TRUE
      [] list.stuck = "division_by_zero" -> list.items = <<>>
      [] list.stuck = "endless_loop" ->
           Matching(list, list.pattern) = {} /\ list.current \in {0, Len(list.items) - 1}

(* The memory from the buffer on holds the text as it was edited, and the   *)
(* cursor is in it.  What lies beyond the buffer is left alone while the    *)
(* text has had at most half as many characters as the buffer has bytes,    *)
(* and no longer: typed into an empty field, one more overwrites it         *)
(* (nconf.gui.c:430-466, where the test of the length is len-2 < result_len *)
(* and len+1 bytes are moved, not those behind the cursor).                 *)
EditsText ==
  use = "field" =>
    /\ CString(field.mem) = field.typed /\ field.cursor \in 0 .. Len(field.typed)
    /\ Overrun => 2 * field.longest > result_len
    /\ field.appended /\ 2 * field.longest > result_len => Overrun

(* Whoever comes to the end of a text without End, by lines and by pages,   *)
(* back and forth, has been shown all its lines (nconf.gui.c:534-610: what  *)
(* is copied to the window is one line less than text_lines, and back goes  *)
(* further than on).                                                        *)
ShowsEveryLine ==
  use = "text" /\ ~win.jumped /\ win.start_y = win.total_lines - text_lines(win) =>
    win.upto = win.total_lines - 1
=============================================================================
