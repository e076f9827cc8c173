---------------------------- MODULE DialogsProofs ---------------------------
(***************************************************************************)
(* The invariants of the dialogs of menuconfig and of the windows of       *)
(* nconfig, for every list, menu, pattern, text and buffer, and every      *)
(* terminal on which the programs start.                                   *)
(***************************************************************************)
EXTENDS Dialogs, Induction

-----------------------------------------------------------------------------
(* The menu.  One that is open has a window of menu_height lines; between  *)
(* two keys the line of the choice is lit, while a key is handled none is. *)

ScreenLine == [shows : Entries \cup {NoItem}, lit : BOOLEAN]

MenuStates(item, height, windows) ==
  [open : {TRUE}, item : {item}, selected : Entries \cup {NoItem}, saved : Int, scroll : Int,
   choice : Int, first_item : Int, button : 0 .. 2, menu_height : {height}, redrawn : BOOLEAN,
   win : windows]

MenuOf(m, windows) ==
  /\ m.item \in Seq(Entries) /\ m.menu_height \in Nat \ {0}
  /\ m \in MenuStates(m.item, m.menu_height, windows)

MenuTyped(m) == MenuOf(m, [0 .. m.menu_height - 1 -> ScreenLine])

Placed(m) ==
  /\ m.scroll \in 0 .. Len(m.item) - max_choice(m)
  /\ m.item # <<>> => m.choice \in 0 .. LastLine(m)

Plain(m) ==
  \A y \in 0 .. LastLine(m) : m.win[y] = Line(item_set(m.item, m.scroll + y), FALSE)

SameMenu(m, n) ==
  n.item = m.item /\ n.menu_height = m.menu_height /\ n.saved = m.saved /\ n.redrawn = m.redrawn

(* What a move starts from and leaves.                                     *)
Movable(m) == MenuTyped(m) /\ (m.redrawn => m.saved = 0) /\ Placed(m) /\ Plain(m)

LEMMA MaxChoiceOf ==
  ASSUME NEW m, NEW windows, MenuOf(m, windows)
  PROVE  /\ max_choice(m) = IF m.menu_height <= Len(m.item) THEN m.menu_height ELSE Len(m.item)
         /\ max_choice(m) \in Nat
         /\ max_choice(m) <= Len(m.item)
         /\ max_choice(m) <= m.menu_height
         /\ m.item # <<>> => max_choice(m) > 0
         /\ Len(m.item) \in Nat /\ m.menu_height \in Nat /\ m.scroll \in Int /\ m.choice \in Int
<1>1. Len(m.item) \in Nat /\ (m.item # <<>> => Len(m.item) > 0)
  BY DEF MenuOf
<1>2. m.menu_height \in Nat \ {0}
  BY DEF MenuOf
<1>3. max_choice(m) = IF m.menu_height <= Len(m.item) THEN m.menu_height ELSE Len(m.item)
  BY <1>1, <1>2, MinOfTwo DEF max_choice, item_count
<1>4. m.scroll \in Int /\ m.choice \in Int
  BY DEF MenuOf, MenuStates
<1> QED
  BY <1>1, <1>2, <1>3, <1>4

LEMMA MaxChoice ==
  ASSUME NEW m, MenuTyped(m)
  PROVE  /\ max_choice(m) = IF m.menu_height <= Len(m.item) THEN m.menu_height ELSE Len(m.item)
         /\ max_choice(m) \in Nat
         /\ max_choice(m) <= Len(m.item)
         /\ max_choice(m) <= m.menu_height
         /\ m.item # <<>> => max_choice(m) > 0
         /\ Len(m.item) \in Nat /\ m.menu_height \in Nat /\ m.scroll \in Int /\ m.choice \in Int
BY MaxChoiceOf DEF MenuTyped

LEMMA ItemSet ==
  ASSUME NEW item \in Seq(Entries), NEW n \in Int
  PROVE  item_set(item, n) \in Entries \cup {NoItem}
BY DEF item_set

LEMMA PutLine ==
  ASSUME NEW m, MenuTyped(m), NEW y \in Int, NEW lit \in BOOLEAN
  PROVE  /\ MenuTyped(Put(m, y, lit))
         /\ SameMenu(m, Put(m, y, lit))
         /\ Put(m, y, lit).scroll = m.scroll
         /\ Put(m, y, lit).choice = m.choice
         /\ max_choice(Put(m, y, lit)) = max_choice(m)
         /\ \A z \in 0 .. m.menu_height - 1 :
               Put(m, y, lit).win[z] = IF z = y THEN Line(item_set(m.item, m.scroll + y), lit) ELSE m.win[z]
<1> DEFINE it == item_set(m.item, m.scroll + y)
           n == Put(m, y, lit)
<1>1. m.scroll + y \in Int /\ m.item \in Seq(Entries)
  BY DEF MenuTyped, MenuOf, MenuStates
<1>2. it \in Entries \cup {NoItem}
  BY <1>1, ItemSet
<1> HIDE DEF it
<1>3. Line(it, lit) \in ScreenLine
  BY <1>2 DEF Line, ScreenLine
<1>4. m.win \in [0 .. m.menu_height - 1 -> ScreenLine]
  BY DEF MenuTyped, MenuOf, MenuStates
<1>5. print_item(m.win, it, y, lit) \in [0 .. m.menu_height - 1 -> ScreenLine]
  BY <1>3, <1>4 DEF print_item
<1>6. n = [m EXCEPT !.win = print_item(m.win, it, y, lit)]
  BY DEF Put, it
<1>7. MenuTyped(n)
  BY <1>5, <1>6 DEF MenuTyped, MenuOf, MenuStates
<1>8. SameMenu(m, n) /\ n.scroll = m.scroll /\ n.choice = m.choice
  BY <1>6 DEF SameMenu, MenuTyped, MenuOf, MenuStates
<1>9. n.win = print_item(m.win, it, y, lit)
  BY <1>6 DEF MenuTyped, MenuOf, MenuStates
<1>10. max_choice(n) = max_choice(m)
  BY <1>8 DEF SameMenu, max_choice
<1> QED
  BY <1>4, <1>7, <1>8, <1>9, <1>10 DEF print_item, it

LEMMA Scrolling ==
  ASSUME NEW m, MenuTyped(m), NEW n \in Int
  PROVE  /\ MenuTyped(do_scroll(m, n))
         /\ SameMenu(m, do_scroll(m, n))
         /\ do_scroll(m, n).scroll = m.scroll + n
         /\ do_scroll(m, n).choice = m.choice
         /\ max_choice(do_scroll(m, n)) = max_choice(m)
         /\ \A z \in 0 .. m.menu_height - 1 :
               do_scroll(m, n).win[z] =
                  IF z + n \in 0 .. m.menu_height - 1 THEN m.win[z + n] ELSE BlankLine
<1> DEFINE d == do_scroll(m, n)
<1>1. m.win \in [0 .. m.menu_height - 1 -> ScreenLine] /\ m.scroll \in Int
  BY DEF MenuTyped, MenuOf, MenuStates
<1>2. BlankLine \in ScreenLine
  BY DEF BlankLine, Line, ScreenLine
<1>3. wscrl(m.win, n) \in [0 .. m.menu_height - 1 -> ScreenLine]
  BY <1>1, <1>2 DEF wscrl
<1>4. d = [m EXCEPT !.win = wscrl(m.win, n), !.scroll = m.scroll + n]
  BY DEF do_scroll
<1>5. MenuTyped(d)
  <2> DEFINE w == wscrl(m.win, n)
             s == m.scroll + n
  <2>1. w \in [0 .. m.menu_height - 1 -> ScreenLine] /\ s \in Int
    BY <1>1, <1>3
  <2> HIDE DEF w, s
  <2>2. d = [m EXCEPT !.win = w, !.scroll = s]
    BY <1>4 DEF w, s
  <2> HIDE DEF d
  <2> QED
    BY <2>1, <2>2 DEF MenuTyped, MenuOf, MenuStates
<1>6. SameMenu(m, d) /\ d.scroll = m.scroll + n /\ d.choice = m.choice /\ d.win = wscrl(m.win, n)
  BY <1>4 DEF SameMenu, MenuTyped, MenuOf, MenuStates
<1>7. max_choice(d) = max_choice(m)
  BY <1>6 DEF SameMenu, max_choice
<1> QED
  BY <1>1, <1>5, <1>6, <1>7 DEF wscrl
LEMMA ScrolledUpMovable ==
  ASSUME NEW m, Movable(m), m.scroll > 0
  PROVE  Movable(ScrolledUp(m)) /\ SameMenu(m, ScrolledUp(m))
<1> DEFINE d == do_scroll(m, -1)
           u == Put(d, 0, FALSE)
<1>1. MenuTyped(m) /\ m.scroll \in Int
  BY DEF Movable, MenuTyped, MenuOf, MenuStates
<1>2. /\ MenuTyped(d) /\ SameMenu(m, d)
      /\ d.scroll = m.scroll - 1 /\ d.choice = m.choice /\ max_choice(d) = max_choice(m)
      /\ \A z \in 0 .. m.menu_height - 1 :
            d.win[z] = IF z - 1 \in 0 .. m.menu_height - 1 THEN m.win[z - 1] ELSE BlankLine
  <2>1. -1 \in Int /\ m.scroll + (-1) = m.scroll - 1
    BY <1>1
  <2>2. \A z \in 0 .. m.menu_height - 1 : z + (-1) = z - 1
    BY <1>1 DEF MenuTyped, MenuOf
  <2> QED
    BY <1>1, <2>1, <2>2, Scrolling
<1> HIDE DEF d
<1>3. /\ MenuTyped(u) /\ SameMenu(d, u)
      /\ u.scroll = d.scroll /\ u.choice = d.choice /\ max_choice(u) = max_choice(d)
      /\ \A z \in 0 .. d.menu_height - 1 :
            u.win[z] = IF z = 0 THEN Line(item_set(d.item, d.scroll), FALSE) ELSE d.win[z]
  <2>1. d.scroll + 0 = d.scroll /\ 0 \in Int /\ FALSE \in BOOLEAN
    BY <1>1, <1>2
  <2>2. /\ MenuTyped(u) /\ SameMenu(d, u)
        /\ u.scroll = d.scroll /\ u.choice = d.choice /\ max_choice(u) = max_choice(d)
        /\ \A z \in 0 .. d.menu_height - 1 :
              u.win[z] = IF z = 0 THEN Line(item_set(d.item, d.scroll + 0), FALSE) ELSE d.win[z]
    <3> DEFINE first == 0
               e == Put(d, first, FALSE)
    <3>1. first \in Int
      OBVIOUS
    <3> HIDE DEF first
    <3>2. /\ MenuTyped(e) /\ SameMenu(d, e)
          /\ e.scroll = d.scroll /\ e.choice = d.choice /\ max_choice(e) = max_choice(d)
          /\ \A z \in 0 .. d.menu_height - 1 :
                e.win[z] = IF z = first THEN Line(item_set(d.item, d.scroll + first), FALSE) ELSE d.win[z]
      BY <1>2, <3>1, PutLine
    <3> QED
      BY <3>2 DEF first
  <2> HIDE DEF u
  <2> QED
    BY <2>1, <2>2
<1> HIDE DEF u
<1>4. SameMenu(m, u)
  BY <1>2, <1>3 DEF SameMenu
<1>5. max_choice(m) \in Nat /\ max_choice(m) <= m.menu_height /\ m.menu_height \in Nat
  BY <1>1, MaxChoice DEF MenuTyped, MenuOf
<1>6. Placed(u)
  BY <1>1, <1>2, <1>3, <1>4, <1>5 DEF Placed, Movable, SameMenu, LastLine
<1>7. Plain(u)
  <2> SUFFICES ASSUME NEW y \in 0 .. max_choice(m) - 1
               PROVE  u.win[y] = Line(item_set(u.item, u.scroll + y), FALSE)
    BY <1>2, <1>3 DEF Plain, LastLine
  <2>1. y \in 0 .. m.menu_height - 1 /\ y \in 0 .. d.menu_height - 1
    BY <1>2, <1>5 DEF SameMenu
  <2>2. CASE y = 0
    <3>1. u.scroll + y = d.scroll
      BY <1>1, <1>2, <1>3, <2>2
    <3> QED
      BY <1>2, <1>3, <2>1, <2>2, <3>1 DEF SameMenu
  <2>3. CASE y # 0
    <3>1. y - 1 \in 0 .. m.menu_height - 1 /\ y - 1 \in 0 .. LastLine(m)
      BY <1>5, <2>3, <2>1 DEF LastLine
    <3>2. u.win[y] = m.win[y - 1]
      BY <1>2, <1>3, <2>1, <2>3, <3>1
    <3>3. m.scroll + (y - 1) = u.scroll + y
      BY <1>1, <1>2, <1>3
    <3> QED
      BY <3>1, <3>2, <3>3, <1>4 DEF Movable, Plain, SameMenu
  <2> QED
    BY <2>2, <2>3
<1> QED
  BY <1>3, <1>4, <1>6, <1>7 DEF ScrolledUp, Movable, SameMenu, d, u

LEMMA ScrolledDownMovable ==
  ASSUME NEW m, Movable(m), Below(m)
  PROVE  Movable(ScrolledDown(m)) /\ SameMenu(m, ScrolledDown(m))
<1> DEFINE d == do_scroll(m, 1)
           u == Put(d, LastLine(m), FALSE)
<1>1. MenuTyped(m) /\ m.scroll \in Int /\ Len(m.item) \in Nat
  BY DEF Movable, MenuTyped, MenuOf, MenuStates
<1>2. /\ MenuTyped(d) /\ SameMenu(m, d)
      /\ d.scroll = m.scroll + 1 /\ d.choice = m.choice /\ max_choice(d) = max_choice(m)
      /\ \A z \in 0 .. m.menu_height - 1 :
            d.win[z] = IF z + 1 \in 0 .. m.menu_height - 1 THEN m.win[z + 1] ELSE BlankLine
  <2>1. 1 \in Int
    OBVIOUS
  <2> HIDE DEF d
  <2> QED
    BY <1>1, <2>1, Scrolling DEF d
<1>3. max_choice(m) \in Nat /\ max_choice(m) <= m.menu_height /\ m.menu_height \in Nat
  BY <1>1, MaxChoice DEF MenuTyped, MenuOf
<1>4. LastLine(m) \in Int
  BY <1>3 DEF LastLine
<1> HIDE DEF d
<1>5. /\ MenuTyped(u) /\ SameMenu(d, u)
      /\ u.scroll = d.scroll /\ u.choice = d.choice /\ max_choice(u) = max_choice(d)
      /\ \A z \in 0 .. d.menu_height - 1 :
            u.win[z] = IF z = LastLine(m) THEN Line(item_set(d.item, d.scroll + LastLine(m)), FALSE)
                       ELSE d.win[z]
  BY <1>2, <1>4, PutLine
<1> HIDE DEF u
<1>6. SameMenu(m, u)
  BY <1>2, <1>5 DEF SameMenu
<1>7. Placed(u)
  BY <1>1, <1>2, <1>3, <1>5, <1>6 DEF Placed, Movable, SameMenu, LastLine, Below, item_count
<1>8. Plain(u)
  <2> SUFFICES ASSUME NEW y \in 0 .. max_choice(m) - 1
               PROVE  u.win[y] = Line(item_set(u.item, u.scroll + y), FALSE)
    BY <1>2, <1>5 DEF Plain, LastLine
  <2>1. y \in 0 .. m.menu_height - 1 /\ y \in 0 .. d.menu_height - 1
    BY <1>2, <1>3 DEF SameMenu
  <2>2. CASE y = LastLine(m)
    BY <1>2, <1>5, <2>1, <2>2 DEF SameMenu
  <2>3. CASE y # LastLine(m)
    <3>1. y + 1 \in 0 .. m.menu_height - 1 /\ y + 1 \in 0 .. LastLine(m)
      BY <1>3, <2>3 DEF LastLine
    <3>2. u.win[y] = d.win[y] /\ d.win[y] = m.win[y + 1]
      BY <1>2, <1>5, <2>1, <2>3, <3>1
    <3>3. m.scroll + (y + 1) = u.scroll + y
      BY <1>1, <1>2, <1>5
    <3> QED
      BY <3>1, <3>2, <3>3, <1>6 DEF Movable, Plain, SameMenu
  <2> QED
    BY <2>2, <2>3
<1>9. u = ScrolledDown(m)
  BY <1>2 DEF ScrolledDown, LastLine, d, u
<1> QED
  BY <1>5, <1>6, <1>7, <1>8, <1>9 DEF Movable, SameMenu

(* What a step of a move makes of m.                                       *)
Leads(m, n) == MenuTyped(n) /\ SameMenu(m, n) /\ (Movable(m) => Movable(n))

LEMMA ScrolledLeads ==
  ASSUME NEW m, MenuTyped(m)
  PROVE  /\ (Movable(m) => m.scroll > 0) => Leads(m, ScrolledUp(m))
         /\ (Movable(m) => Below(m)) => Leads(m, ScrolledDown(m))
<1>1. ASSUME NEW n \in Int, NEW y \in Int
      PROVE  LET u == Put(do_scroll(m, n), y, FALSE) IN MenuTyped(u) /\ SameMenu(m, u)
  <2> DEFINE d == do_scroll(m, n)
  <2>1. MenuTyped(d) /\ SameMenu(m, d)
    BY Scrolling
  <2> HIDE DEF d
  <2>2. MenuTyped(Put(d, y, FALSE)) /\ SameMenu(d, Put(d, y, FALSE))
    BY <2>1, PutLine
  <2> QED
    BY <2>1, <2>2 DEF SameMenu, d
<1>2. MenuTyped(ScrolledUp(m)) /\ SameMenu(m, ScrolledUp(m))
  <2> DEFINE up == -1
             first == 0
  <2>1. up \in Int /\ first \in Int
    OBVIOUS
  <2>2. ScrolledUp(m) = Put(do_scroll(m, up), first, FALSE)
    BY DEF ScrolledUp
  <2> HIDE DEF up, first
  <2> QED
    BY <1>1, <2>1, <2>2
<1>3. MenuTyped(ScrolledDown(m)) /\ SameMenu(m, ScrolledDown(m))
  <2> DEFINE one == 1
  <2>1. one \in Int /\ LastLine(m) \in Int
    BY MaxChoice DEF LastLine
  <2>2. max_choice(do_scroll(m, one)) = max_choice(m)
    BY <2>1, Scrolling
  <2>3. ScrolledDown(m) = Put(do_scroll(m, one), LastLine(m), FALSE)
    BY <2>2 DEF ScrolledDown, LastLine
  <2> HIDE DEF one
  <2> QED
    BY <1>1, <2>1, <2>3
<1> QED
  BY <1>2, <1>3, ScrolledUpMovable, ScrolledDownMovable DEF Leads

(* A choice on another line of the window.                                 *)
LEMMA ChoiceLeads ==
  ASSUME NEW m, MenuTyped(m), NEW c \in Int,
         Movable(m) /\ m.item # <<>> => c \in 0 .. LastLine(m)
  PROVE  Leads(m, [m EXCEPT !.choice = c])
<1> DEFINE n == [m EXCEPT !.choice = c]
<1>1. MenuTyped(n) /\ SameMenu(m, n) /\ n.win = m.win /\ n.scroll = m.scroll /\ n.choice = c
  BY DEF MenuTyped, MenuOf, MenuStates, SameMenu
<1> HIDE DEF n
<1>2. max_choice(n) = max_choice(m)
  BY <1>1 DEF SameMenu, max_choice
<1>3. Movable(m) => Placed(n) /\ Plain(n)
  BY <1>1, <1>2 DEF Placed, Plain, Movable, SameMenu, LastLine
<1> QED
  BY <1>1, <1>3 DEF Movable, SameMenu, Leads, n

LEMMA ChoiceUp ==
  ASSUME NEW m, MenuTyped(m)
  PROVE  Leads(m, [m EXCEPT !.choice = Max({@ - 1, 0})])
<1>1. m.choice \in Int /\ max_choice(m) \in Nat /\ (m.item # <<>> => max_choice(m) > 0)
  BY MaxChoice
<1>2. Max({m.choice - 1, 0}) = IF m.choice - 1 >= 0 THEN m.choice - 1 ELSE 0
  BY <1>1, MaxOfTwo
<1>3. Movable(m) /\ m.item # <<>> => Max({m.choice - 1, 0}) \in 0 .. LastLine(m)
  BY <1>1, <1>2 DEF Movable, Placed, LastLine
<1>4. Max({m.choice - 1, 0}) \in Int
  BY <1>1, <1>2
<1> QED
  BY <1>3, <1>4, ChoiceLeads

LEMMA ChoiceDown ==
  ASSUME NEW m, MenuTyped(m)
  PROVE  Leads(m, [m EXCEPT !.choice = Min({@ + 1, LastLine(m)})])
<1>1. m.choice \in Int /\ max_choice(m) \in Nat /\ (m.item # <<>> => max_choice(m) > 0)
  BY MaxChoice
<1>2. LastLine(m) \in Int
  BY <1>1 DEF LastLine
<1>3. Min({m.choice + 1, LastLine(m)}) = IF m.choice + 1 <= LastLine(m) THEN m.choice + 1 ELSE LastLine(m)
  BY <1>1, <1>2, MinOfTwo
<1>4. Movable(m) /\ m.item # <<>> => Min({m.choice + 1, LastLine(m)}) \in 0 .. LastLine(m)
  BY <1>1, <1>3 DEF Movable, Placed, LastLine
<1>5. Min({m.choice + 1, LastLine(m)}) \in Int
  BY <1>1, <1>2, <1>3
<1> QED
  BY <1>4, <1>5, ChoiceLeads

(* The menus that moves may make of m.                                     *)
From(m) ==
  {n \in MenuStates(m.item, m.menu_height, [0 .. m.menu_height - 1 -> ScreenLine]) : Leads(m, n)}

LEMMA InFrom ==
  ASSUME NEW m, NEW n, Leads(m, n)
  PROVE  n \in From(m)
BY DEF From, Leads, MenuTyped, MenuOf, SameMenu

LEMMA FromFrom ==
  ASSUME NEW m, NEW n \in From(m), NEW k, Leads(n, k)
  PROVE  k \in From(m)
<1>1. Leads(m, k)
  BY DEF From, Leads, SameMenu
<1> QED
  BY <1>1, InFrom

(* A page is as many single steps as the window has lines.                 *)
LEMMA PageUpLeads ==
  ASSUME NEW m, MenuTyped(m)
  PROVE  PageUp(m) \in From(m)
<1> DEFINE One(a) == IF a.scroll > 0 THEN ScrolledUp(a) ELSE [a EXCEPT !.choice = Max({@ - 1, 0})]
           S == From(m)
           F == [i \in Nat |-> [a \in S |-> One(a)]]
<1>1. m \in S
  BY InFrom DEF Leads, SameMenu
<1>2. ASSUME NEW a \in S PROVE One(a) \in S
  <2>1. MenuTyped(a)
    BY DEF From, Leads
  <2>2. CASE a.scroll > 0
    <3>1. Leads(a, ScrolledUp(a))
      BY <2>1, <2>2, ScrolledLeads
    <3> QED
      BY <2>2, <3>1, FromFrom
  <2>3. CASE ~(a.scroll > 0)
    <3> DEFINE c == [a EXCEPT !.choice = Max({@ - 1, 0})]
    <3>1. Leads(a, c)
      BY <2>1, ChoiceUp
    <3> HIDE DEF c
    <3>2. c \in S
      BY <3>1, FromFrom
    <3> QED
      BY <2>3, <3>2 DEF c
  <2> QED
    BY <2>2, <2>3
<1>3. \A i \in Nat : \A a \in S : F[i][a] \in S
  BY <1>2
<1>4. PICK f : IsRun(f, S, m, F)
  <2> HIDE DEF S, F
  <2> QED
    BY <1>1, <1>3, RunExists
<1>5. f = [i \in Nat |-> IF i = 0 THEN m ELSE One(f[i - 1])]
  <2>1. ASSUME NEW i \in Nat, i # 0 PROVE f[i] = One(f[i - 1])
    <3>1. i - 1 \in Nat /\ (i - 1) + 1 = i
      BY <2>1
    <3>2. f[(i - 1) + 1] = F[(i - 1) + 1][f[i - 1]] /\ f[i - 1] \in S
      BY <1>4, <3>1 DEF IsRun
    <3> HIDE DEF S
    <3> QED
      BY <3>1, <3>2
  <2> HIDE DEF One
  <2> QED
    BY <1>4, <2>1 DEF IsRun
<1> DEFINE after == CHOOSE g : g = [i \in Nat |-> IF i = 0 THEN m ELSE One(g[i - 1])]
<1>6. after = [i \in Nat |-> IF i = 0 THEN m ELSE One(after[i - 1])]
  <2> HIDE DEF One
  <2> QED
    BY <1>5
<1>7. PageUp(m) = after[max_choice(m)]
  BY DEF PageUp, Repeat
<1> HIDE DEF after, One, S
<1> DEFINE G == {n \in Nat : after[n] \in S}
<1>8. 0 \in G
  BY <1>1, <1>6
<1>9. ASSUME NEW n \in G PROVE n + 1 \in G
  <2>1. n + 1 \in Nat /\ n + 1 # 0 /\ (n + 1) - 1 = n
    OBVIOUS
  <2>2. after[n + 1] = One(after[n])
    BY <1>6, <2>1
  <2> QED
    BY <1>2, <2>1, <2>2
<1>10. G = Nat
  <2>1. G \subseteq Nat
    OBVIOUS
  <2> HIDE DEF G
  <2> QED
    BY <1>8, <1>9, <2>1, SetInduction
<1>11. max_choice(m) \in Nat
  BY MaxChoice
<1> QED
  BY <1>7, <1>10, <1>11 DEF S

LEMMA PageDownLeads ==
  ASSUME NEW m, MenuTyped(m)
  PROVE  PageDown(m) \in From(m)
<1> DEFINE One(a) == IF Below(a) THEN ScrolledDown(a) ELSE [a EXCEPT !.choice = Min({@ + 1, LastLine(a)})]
           S == From(m)
           F == [i \in Nat |-> [a \in S |-> One(a)]]
<1>1. m \in S
  BY InFrom DEF Leads, SameMenu
<1>2. ASSUME NEW a \in S PROVE One(a) \in S
  <2>1. MenuTyped(a)
    BY DEF From, Leads
  <2>2. CASE Below(a)
    <3>1. Leads(a, ScrolledDown(a))
      BY <2>1, <2>2, ScrolledLeads
    <3> QED
      BY <2>2, <3>1, FromFrom
  <2>3. CASE ~(Below(a))
    <3> DEFINE c == [a EXCEPT !.choice = Min({@ + 1, LastLine(a)})]
    <3>1. Leads(a, c)
      BY <2>1, ChoiceDown
    <3> HIDE DEF c
    <3>2. c \in S
      BY <3>1, FromFrom
    <3> QED
      BY <2>3, <3>2 DEF c
  <2> QED
    BY <2>2, <2>3
<1>3. \A i \in Nat : \A a \in S : F[i][a] \in S
  BY <1>2
<1>4. PICK f : IsRun(f, S, m, F)
  <2> HIDE DEF S, F
  <2> QED
    BY <1>1, <1>3, RunExists
<1>5. f = [i \in Nat |-> IF i = 0 THEN m ELSE One(f[i - 1])]
  <2>1. ASSUME NEW i \in Nat, i # 0 PROVE f[i] = One(f[i - 1])
    <3>1. i - 1 \in Nat /\ (i - 1) + 1 = i
      BY <2>1
    <3>2. f[(i - 1) + 1] = F[(i - 1) + 1][f[i - 1]] /\ f[i - 1] \in S
      BY <1>4, <3>1 DEF IsRun
    <3> HIDE DEF S
    <3> QED
      BY <3>1, <3>2
  <2> HIDE DEF One
  <2> QED
    BY <1>4, <2>1 DEF IsRun
<1> DEFINE after == CHOOSE g : g = [i \in Nat |-> IF i = 0 THEN m ELSE One(g[i - 1])]
<1>6. after = [i \in Nat |-> IF i = 0 THEN m ELSE One(after[i - 1])]
  <2> HIDE DEF One
  <2> QED
    BY <1>5
<1>7. PageDown(m) = after[max_choice(m)]
  BY DEF PageDown, Repeat
<1> HIDE DEF after, One, S
<1> DEFINE G == {n \in Nat : after[n] \in S}
<1>8. 0 \in G
  BY <1>1, <1>6
<1>9. ASSUME NEW n \in G PROVE n + 1 \in G
  <2>1. n + 1 \in Nat /\ n + 1 # 0 /\ (n + 1) - 1 = n
    OBVIOUS
  <2>2. after[n + 1] = One(after[n])
    BY <1>6, <2>1
  <2> QED
    BY <1>2, <2>1, <2>2
<1>10. G = Nat
  <2>1. G \subseteq Nat
    OBVIOUS
  <2> HIDE DEF G
  <2> QED
    BY <1>8, <1>9, <2>1, SetInduction
<1>11. max_choice(m) \in Nat
  BY MaxChoice
<1> QED
  BY <1>7, <1>10, <1>11 DEF S

Arrow(key) == key \in {"up", "down", "page up", "page down"}
Moves(m, key) == Arrow(key) \/ HotLine(m, key) < max_choice(m)

LEMMA HotLineFound ==
  ASSUME NEW m, MenuTyped(m), NEW key, ~Arrow(key), Moves(m, key)
  PROVE  HotLine(m, key) \in 0 .. LastLine(m)
<1> DEFINE lines == {y \in 0 .. LastLine(m) : Letter[item_set(m.item, m.scroll + y)] = key}
           below == {y \in lines : y > m.choice}
<1>1. max_choice(m) \in Nat
  BY MaxChoice
<1>2. lines \subseteq Nat /\ below \subseteq Nat /\ lines \subseteq 0 .. LastLine(m)
  <2>1. lines \subseteq 0 .. LastLine(m) /\ below \subseteq lines
    BY Zenon
  <2>2. 0 .. LastLine(m) \subseteq Nat
    BY <1>1 DEF LastLine
  <2> QED
    BY <2>1, <2>2
<1>3. HotLine(m, key) = IF below # {} THEN Min(below) ELSE IF lines # {} THEN Min(lines) ELSE max_choice(m)
  BY Zenon DEF HotLine
<1>4. below \subseteq lines
  OBVIOUS
<1> HIDE DEF lines, below
<1>5. CASE below # {}
  BY <1>2, <1>3, <1>4, <1>5, MinOfBounded
<1>6. CASE below = {} /\ lines # {}
  BY <1>2, <1>3, <1>6, MinOfBounded
<1>7. CASE below = {} /\ lines = {}
  <2>1. HotLine(m, key) = max_choice(m)
    BY <1>3, <1>7
  <2> QED
    BY <1>1, <2>1 DEF Moves
<1> QED
  BY <1>5, <1>6, <1>7

(* Every key leaves a menu that is shown as it should be, but for the      *)
(* highlight.                                                              *)
LEMMA MovedLeads ==
  ASSUME NEW m, MenuTyped(m), NEW key, Moves(m, key)
  PROVE  Leads(m, Moved(m, key))
<1>1. Leads(m, Up(m))
  <2>1. CASE m.choice < 2 /\ m.scroll # 0
    <3>1. Len(m.item) - max_choice(m) \in Int
      BY MaxChoice
    <3>2. Movable(m) => m.scroll > 0
      BY <2>1, <3>1 DEF Movable, Placed
    <3> QED
      BY <2>1, <3>2, ScrolledLeads DEF Up
  <2>2. CASE ~(m.choice < 2 /\ m.scroll # 0)
    BY <2>2, ChoiceUp DEF Up
  <2> QED
    BY <2>1, <2>2
<1>2. Leads(m, Down(m))
  <2>1. CASE m.choice > max_choice(m) - 3 /\ Below(m)
    BY <2>1, ScrolledLeads DEF Down
  <2>2. CASE ~(m.choice > max_choice(m) - 3 /\ Below(m))
    BY <2>2, ChoiceDown DEF Down
  <2> QED
    BY <2>1, <2>2
<1>3. Leads(m, PageUp(m)) /\ Leads(m, PageDown(m))
  BY PageUpLeads, PageDownLeads DEF From
<1>4. CASE ~Arrow(key)
  <2>1. Moved(m, key) = [m EXCEPT !.choice = HotLine(m, key)]
    BY <1>4, Zenon DEF Moved, Arrow
  <2>2. HotLine(m, key) \in 0 .. LastLine(m)
    BY <1>4, HotLineFound
  <2>3. HotLine(m, key) \in Int
    <3>1. LastLine(m) \in Int
      BY MaxChoice DEF LastLine
    <3> QED
      BY <2>2, <3>1
  <2> QED
    BY <2>1, <2>2, <2>3, ChoiceLeads
<1> QED
  BY <1>1, <1>2, <1>3, <1>4, Zenon DEF Moved, Arrow

(* Between two keys the line of the choice is lit.                         *)
Displayed(m) == /\ MenuTyped(m) /\ (m.redrawn => m.saved = 0) /\ Placed(m)
                /\ Shows(m.win, m.item, m.scroll, m.choice, max_choice(m))

LEMMA PutOut ==
  ASSUME NEW m, Displayed(m)
  PROVE  Movable(Put(m, m.choice, FALSE))
<1> DEFINE n == Put(m, m.choice, FALSE)
<1>1. MenuTyped(m) /\ m.choice \in Int
  BY DEF Displayed, MenuTyped, MenuOf, MenuStates
<1>2. /\ MenuTyped(n) /\ SameMenu(m, n)
      /\ n.scroll = m.scroll /\ n.choice = m.choice /\ max_choice(n) = max_choice(m)
      /\ \A z \in 0 .. m.menu_height - 1 :
            n.win[z] = IF z = m.choice THEN Line(item_set(m.item, m.scroll + m.choice), FALSE) ELSE m.win[z]
  BY <1>1, PutLine
<1> HIDE DEF n
<1>3. max_choice(m) \in Nat /\ max_choice(m) <= m.menu_height /\ m.menu_height \in Nat
  BY <1>1, MaxChoice DEF MenuTyped, MenuOf
<1>4. Placed(n)
  BY <1>2 DEF Placed, Displayed, SameMenu, LastLine
<1>5. Plain(n)
  <2> SUFFICES ASSUME NEW y \in 0 .. max_choice(m) - 1
               PROVE  n.win[y] = Line(item_set(n.item, n.scroll + y), FALSE)
    BY <1>2 DEF Plain, LastLine
  <2>1. y \in 0 .. m.menu_height - 1
    BY <1>3
  <2>2. m.win[y] = Line(item_set(m.item, m.scroll + y), y = m.choice)
    BY DEF Displayed, Shows
  <2> QED
    BY <1>2, <2>1, <2>2 DEF SameMenu
<1> QED
  BY <1>2, <1>4, <1>5 DEF Movable, Displayed, SameMenu, n

LEMMA LitAgain ==
  ASSUME NEW m, Movable(m)
  PROVE  Displayed(Refreshed(m)) /\ SameMenu(m, Refreshed(m))
<1> DEFINE n == Put(m, m.choice, TRUE)
<1>1. MenuTyped(m) /\ m.choice \in Int /\ m.scroll \in Int /\ Len(m.item) \in Nat
  <2>1. MenuTyped(m)
    BY DEF Movable
  <2>2. m.item \in Seq(Entries)
    BY <2>1 DEF MenuTyped, MenuOf
  <2>3. m \in MenuStates(m.item, m.menu_height, [0 .. m.menu_height - 1 -> ScreenLine])
    BY <2>1 DEF MenuTyped, MenuOf
  <2>4. m.choice \in Int /\ m.scroll \in Int
    BY <2>3 DEF MenuStates
  <2> QED
    BY <2>1, <2>2, <2>4
<1>2. /\ MenuTyped(n) /\ SameMenu(m, n)
      /\ n.scroll = m.scroll /\ n.choice = m.choice /\ max_choice(n) = max_choice(m)
      /\ \A z \in 0 .. m.menu_height - 1 :
            n.win[z] = IF z = m.choice THEN Line(item_set(m.item, m.scroll + m.choice), TRUE) ELSE m.win[z]
  BY <1>1, PutLine
<1> HIDE DEF n
<1>3. /\ max_choice(m) \in Nat /\ max_choice(m) <= m.menu_height /\ m.menu_height \in Nat
      /\ max_choice(m) <= Len(m.item)
  BY <1>1, MaxChoice DEF MenuTyped, MenuOf
<1>4. Placed(n)
  BY <1>2 DEF Placed, Movable, SameMenu, LastLine
<1>5. Shows(n.win, n.item, n.scroll, n.choice, max_choice(m))
  <2>1. ASSUME NEW y \in 0 .. max_choice(m) - 1
        PROVE  n.win[y] = Line(item_set(n.item, n.scroll + y), y = n.choice)
    <3>1. y \in 0 .. m.menu_height - 1
      BY <1>3
    <3>2. m.win[y] = Line(item_set(m.item, m.scroll + y), FALSE)
      BY DEF Movable, Plain, LastLine
    <3>3. CASE y = m.choice
      BY <1>2, <3>1, <3>3 DEF SameMenu
    <3>4. CASE y # m.choice
      BY <1>2, <3>1, <3>2, <3>4 DEF SameMenu
    <3> QED
      BY <3>3, <3>4
  <2>2. ASSUME NEW y \in 0 .. max_choice(m) - 1 PROVE n.scroll + y < Len(n.item)
    BY <1>1, <1>2, <1>3 DEF Movable, Placed, SameMenu
  <2>3. max_choice(m) > 0 => n.choice \in 0 .. max_choice(m) - 1
    <3>1. max_choice(m) > 0 => m.item # <<>>
      BY <1>3
    <3> QED
      BY <1>2, <3>1 DEF Movable, Placed, LastLine
  <2> QED
    BY <2>1, <2>2, <2>3 DEF Shows
<1> QED
  BY <1>2, <1>4, <1>5 DEF Refreshed, Displayed, Movable, SameMenu, n

-----------------------------------------------------------------------------
(* Drawing the whole menu.                                                 *)

LEMMA ItemNumber ==
  ASSUME NEW D, NEW item \in Seq(D), NEW data, NEW otherwise \in Int
  PROVE  /\ item_n(item, data, otherwise) \in Int
         /\ data \in ToSet(item) => item_n(item, data, otherwise) \in 0 .. Len(item) - 1
         /\ data \notin ToSet(item) => item_n(item, data, otherwise) = otherwise
<1> DEFINE I == {i \in 1 .. Len(item) : item[i] = data}
<1>1. Len(item) \in Nat /\ I \subseteq 0 .. Len(item)
  OBVIOUS
<1>2. data \in ToSet(item) => I # {}
  BY DEF ToSet
<1>3. I # {} => Max(I) \in I
  <2> HIDE DEF I
  <2> QED
    BY <1>1, MaxOfBounded
<1>4. data \in ToSet(item) => item_n(item, data, otherwise) = Max(I) - 1
  BY <1>2 DEF item_n, SelectLastInSeq
<1>5. data \notin ToSet(item) => item_n(item, data, otherwise) = otherwise
  BY DEF item_n
<1>6. I # {} => Max(I) \in 1 .. Len(item)
  BY <1>3
<1> HIDE DEF I
<1> QED
  BY <1>1, <1>2, <1>4, <1>5, <1>6

(* Where the menu is drawn from: the place it had, or the one the caller   *)
(* has kept.                                                               *)
Drawable(m) ==
  /\ m.item # <<>> => m.choice \in 0 .. Len(m.item) - 1
  /\ m.saved = 0 \/ m.first_item = 0

SameBut(m, n) ==
  SameMenu(m, n) /\ n.open = m.open /\ n.selected = m.selected /\ n.button = m.button

LEMMA SavedPlaceTyped ==
  ASSUME NEW m, NEW windows, MenuOf(m, windows)
  PROVE  MenuOf(SavedPlace(m), windows) /\ SameMenu(m, SavedPlace(m))
<1> DEFINE choice == item_n(m.item, m.selected, m.choice)
<1>1. choice \in Int
  BY ItemNumber DEF MenuOf, MenuStates
<1>2. SavedPlace(m) = IF Fits(m, m.saved, choice)
                      THEN [m EXCEPT !.scroll = m.saved, !.first_item = m.saved, !.choice = choice - m.saved]
                      ELSE [m EXCEPT !.scroll = 0, !.choice = choice]
  BY DEF SavedPlace
<1> DEFINE kept == [m EXCEPT !.scroll = m.saved, !.first_item = m.saved, !.choice = choice - m.saved]
           top == [m EXCEPT !.scroll = 0, !.choice = choice]
<1> HIDE DEF choice
<1>3. MenuOf(kept, windows) /\ SameMenu(m, kept)
  <2>1. m.saved \in Int /\ choice - m.saved \in Int
    BY <1>1 DEF MenuOf, MenuStates
  <2> QED
    BY <2>1 DEF MenuOf, MenuStates, SameMenu
<1>4. MenuOf(top, windows) /\ SameMenu(m, top)
  <2>1. MenuOf(top, windows)
    <3> DEFINE first == 0
    <3>1. first \in Int /\ top = [m EXCEPT !.scroll = first, !.choice = choice]
      OBVIOUS
    <3> HIDE DEF first, top
    <3> QED
      BY <1>1, <3>1 DEF MenuOf, MenuStates
  <2>2. SameMenu(m, top)
    BY DEF MenuOf, MenuStates, SameMenu
  <2> QED
    BY <2>1, <2>2
<1> QED
  BY <1>2, <1>3, <1>4

LEMMA IntoWindowTyped ==
  ASSUME NEW m, NEW windows, MenuOf(m, windows)
  PROVE  MenuOf(IntoWindow(m), windows) /\ SameMenu(m, IntoWindow(m))
<1> DEFINE half == max_choice(m) \div 2
           scroll == IF m.choice >= Len(m.item) - half THEN Len(m.item) - max_choice(m) ELSE m.choice - half
<1>1. max_choice(m) \in Nat /\ m.choice \in Int /\ Len(m.item) \in Nat
  BY MaxChoiceOf
<1>2. half \in Int
  BY <1>1
<1> HIDE DEF half
<1>3. scroll \in Int
  BY <1>1, <1>2
<1>4. IntoWindow(m) = IF m.choice < max_choice(m) THEN m
                      ELSE [m EXCEPT !.scroll = scroll, !.first_item = scroll, !.choice = m.choice - scroll]
  BY DEF IntoWindow, item_count, half
<1> HIDE DEF scroll
<1>5. m.choice - scroll \in Int
  BY <1>1, <1>3
<1> DEFINE n == [m EXCEPT !.scroll = scroll, !.first_item = scroll, !.choice = m.choice - scroll]
<1>6. MenuOf(n, windows) /\ SameMenu(m, n)
  BY <1>3, <1>5 DEF MenuOf, MenuStates, SameMenu
<1>7. SameMenu(m, m)
  BY DEF SameMenu
<1> HIDE DEF n
<1> QED
  BY <1>4, <1>6, <1>7 DEF n

LEMMA PaintedTyped ==
  ASSUME NEW m, NEW windows, MenuOf(m, windows)
  PROVE  /\ MenuTyped(Painted(m)) /\ SameMenu(m, Painted(m))
         /\ Painted(m).scroll = m.scroll /\ Painted(m).choice = m.choice
         /\ max_choice(Painted(m)) = max_choice(m)
         /\ \A y \in 0 .. max_choice(m) - 1 :
               Painted(m).win[y] = Line(item_set(m.item, m.first_item + y), y = m.choice)
<1> DEFINE w == [y \in 0 .. m.menu_height - 1 |->
                   IF y < max_choice(m) THEN Line(item_set(m.item, m.first_item + y), y = m.choice)
                   ELSE BlankLine]
<1>1. /\ max_choice(m) \in Nat /\ max_choice(m) <= m.menu_height /\ m.menu_height \in Nat
      /\ m.first_item \in Int /\ m.choice \in Int /\ m.item \in Seq(Entries)
  BY MaxChoiceOf DEF MenuTyped, MenuOf, MenuStates
<1>2. ASSUME NEW y \in 0 .. m.menu_height - 1 PROVE w[y] \in ScreenLine
  <2>1. m.first_item + y \in Int
    BY <1>1
  <2>2. item_set(m.item, m.first_item + y) \in Entries \cup {NoItem}
    BY <1>1, <2>1, ItemSet
  <2>3. Line(item_set(m.item, m.first_item + y), y = m.choice) \in ScreenLine
    BY <2>2 DEF Line, ScreenLine
  <2>4. BlankLine \in ScreenLine
    BY DEF BlankLine, Line, ScreenLine
  <2> QED
    BY <2>3, <2>4
<1>3. w \in [0 .. m.menu_height - 1 -> ScreenLine]
  BY <1>2
<1>4. \A y \in 0 .. max_choice(m) - 1 : w[y] = Line(item_set(m.item, m.first_item + y), y = m.choice)
  BY <1>1
<1>5. Painted(m) = [m EXCEPT !.win = w]
  BY DEF Painted
<1> HIDE DEF w
<1>6. MenuTyped(Painted(m))
  BY <1>3, <1>5 DEF MenuTyped, MenuOf, MenuStates
<1>7. /\ SameMenu(m, Painted(m)) /\ Painted(m).win = w
      /\ Painted(m).scroll = m.scroll /\ Painted(m).choice = m.choice
  BY <1>5 DEF MenuTyped, MenuOf, MenuStates, SameMenu
<1>8. max_choice(Painted(m)) = max_choice(m)
  BY <1>7 DEF SameMenu, max_choice
<1> QED
  BY <1>4, <1>6, <1>7, <1>8

(* Drawn where it was, or where the caller left it, the menu shows what it *)
(* should; first_item is then the scroll.                                  *)
LEMMA PlaceFound ==
  ASSUME NEW m, NEW windows, MenuOf(m, windows), Drawable(m)
  PROVE  LET n == IntoWindow(SavedPlace(m)) IN
           MenuOf(n, windows) /\ SameMenu(m, n) /\ Placed(n) /\ (m.item # <<>> => n.first_item = n.scroll)
<1> DEFINE choice == item_n(m.item, m.selected, m.choice)
           s == SavedPlace(m)
           n == IntoWindow(s)
           half == max_choice(s) \div 2
           scroll == IF s.choice >= Len(s.item) - half THEN Len(s.item) - max_choice(s) ELSE s.choice - half
<1> SUFFICES MenuOf(n, windows) /\ SameMenu(m, n) /\ Placed(n) /\ (m.item # <<>> => n.first_item = n.scroll)
  OBVIOUS
<1>1. choice \in Int /\ (m.item # <<>> => choice \in 0 .. Len(m.item) - 1) /\ m.saved \in Int
  BY ItemNumber DEF MenuOf, MenuStates, Drawable
<1>2. s = IF Fits(m, m.saved, choice)
          THEN [m EXCEPT !.scroll = m.saved, !.first_item = m.saved, !.choice = choice - m.saved]
          ELSE [m EXCEPT !.scroll = 0, !.choice = choice]
  BY DEF SavedPlace
<1>3. MenuOf(s, windows) /\ SameMenu(m, s)
  BY SavedPlaceTyped
<1>4. MenuOf(n, windows) /\ SameMenu(m, n)
  BY <1>3, IntoWindowTyped DEF SameMenu
<1>5. /\ max_choice(s) = max_choice(m) /\ max_choice(n) = max_choice(m)
      /\ Len(s.item) = Len(m.item) /\ Len(n.item) = Len(m.item)
  BY <1>3, <1>4 DEF SameMenu, max_choice
<1>6. /\ max_choice(m) \in Nat /\ max_choice(m) <= Len(m.item) /\ Len(m.item) \in Nat
      /\ m.item # <<>> => max_choice(m) > 0
  BY MaxChoiceOf DEF MenuOf
<1>7. n = IF s.choice < max_choice(s) THEN s
          ELSE [s EXCEPT !.scroll = scroll, !.first_item = scroll, !.choice = s.choice - scroll]
  BY DEF IntoWindow, item_count
<1>8. /\ half \in Nat /\ 2 * half <= max_choice(m) /\ max_choice(m) <= 2 * half + 1
  BY <1>5, <1>6
<1> HIDE DEF choice, s, half, n
<1>9. CASE Fits(m, m.saved, choice)
  <2>1. s.scroll = m.saved /\ s.first_item = m.saved /\ s.choice = choice - m.saved
    BY <1>2, <1>9 DEF MenuOf, MenuStates
  <2>2. s.choice < max_choice(s) /\ s.choice \in Nat
    BY <1>1, <1>5, <1>6, <1>9, <2>1 DEF Fits
  <2>3. n = s
    BY <1>7, <2>2
  <2>4. s.scroll \in 0 .. Len(m.item) - max_choice(m)
    BY <1>1, <1>6, <1>9, <2>1 DEF Fits, item_count
  <2> QED
    BY <1>3, <1>4, <1>5, <1>6, <2>1, <2>2, <2>3, <2>4 DEF Placed, LastLine
<1>10. CASE ~Fits(m, m.saved, choice)
  <2>1. s.scroll = 0 /\ s.choice = choice /\ s.first_item = m.first_item
    BY <1>2, <1>10 DEF MenuOf, MenuStates
  <2>2. CASE s.choice < max_choice(s)
    <3>1. n = s
      BY <1>7, <2>2
    <3>2. m.item # <<>> => m.saved # 0
      BY <1>1, <1>5, <1>6, <1>10, <2>1, <2>2 DEF Fits, item_count
    <3> QED
      BY <1>1, <1>4, <1>5, <1>6, <2>1, <2>2, <3>1, <3>2 DEF Placed, LastLine, Drawable, SameMenu
  <2>3. CASE ~(s.choice < max_choice(s))
    <3>1. scroll \in Int
      BY <1>1, <1>5, <1>6, <1>8, <2>1
    <3>2. scroll \in 0 .. Len(m.item) - max_choice(m)
      BY <1>1, <1>5, <1>6, <1>8, <2>1, <2>3
    <3>3. m.item # <<>> => s.choice - scroll \in 0 .. max_choice(m) - 1
      BY <1>1, <1>5, <1>6, <1>8, <2>1, <2>3
    <3> HIDE DEF scroll
    <3>4. n.scroll = scroll /\ n.first_item = scroll /\ n.choice = s.choice - scroll
      BY <1>3, <1>7, <2>3 DEF MenuOf, MenuStates
    <3> QED
      BY <1>4, <1>5, <3>2, <3>3, <3>4 DEF Placed, LastLine, SameMenu
  <2> QED
    BY <2>2, <2>3
<1> QED
  BY <1>9, <1>10

(* What dialog_menu draws, when the terminal is large enough.              *)
LEMMA DrawnTyped ==
  ASSUME NEW m, NEW windows, NEW height \in Nat,
         LET n == [m EXCEPT !.menu_height = height - 14] IN height >= 15 => MenuOf(n, windows)
  PROVE  \/ Drawn(m, height) = NoMenu
         \/ /\ MenuTyped(Drawn(m, height))
            /\ SameMenu([m EXCEPT !.menu_height = height - 14], Drawn(m, height))
<1> DEFINE n == [m EXCEPT !.menu_height = height - 14]
<1>1. CASE height < 15
  BY <1>1 DEF Drawn
<1>2. CASE height >= 15
  <2>1. MenuOf(n, windows)
    BY <1>2
  <2> HIDE DEF n
  <2>2. MenuTyped(Painted(IntoWindow(SavedPlace(n)))) /\ SameMenu(n, Painted(IntoWindow(SavedPlace(n))))
    <3>1. MenuOf(SavedPlace(n), windows) /\ SameMenu(n, SavedPlace(n))
      BY <2>1, SavedPlaceTyped
    <3>2. MenuOf(IntoWindow(SavedPlace(n)), windows) /\ SameMenu(SavedPlace(n), IntoWindow(SavedPlace(n)))
      BY <3>1, IntoWindowTyped
    <3>3. /\ MenuTyped(Painted(IntoWindow(SavedPlace(n))))
          /\ SameMenu(IntoWindow(SavedPlace(n)), Painted(IntoWindow(SavedPlace(n))))
      BY <3>2, PaintedTyped
    <3> QED
      BY <3>1, <3>2, <3>3 DEF SameMenu
  <2>3. Drawn(m, height) = Painted(IntoWindow(SavedPlace(n)))
    BY <1>2 DEF Drawn, n
  <2> QED
    BY <2>2, <2>3 DEF n
<1> QED
  BY <1>1, <1>2

LEMMA DrawnDisplayed ==
  ASSUME NEW m, NEW windows, NEW height \in Nat,
         LET n == [m EXCEPT !.menu_height = height - 14] IN
           height >= 15 => MenuOf(n, windows) /\ Drawable(n) /\ (n.redrawn => n.saved = 0)
  PROVE  Drawn(m, height) = NoMenu \/ Displayed(Drawn(m, height))
<1> DEFINE n == [m EXCEPT !.menu_height = height - 14]
           i == IntoWindow(SavedPlace(n))
           p == Painted(i)
<1>1. CASE height < 15
  BY <1>1 DEF Drawn
<1>2. CASE height >= 15
  <2>1. MenuOf(n, windows) /\ Drawable(n) /\ (n.redrawn => n.saved = 0)
    BY <1>2
  <2> HIDE DEF n
  <2>2. /\ MenuOf(i, windows) /\ SameMenu(n, i) /\ Placed(i)
        /\ n.item # <<>> => i.first_item = i.scroll
    BY <2>1, PlaceFound
  <2> HIDE DEF i
  <2>3. /\ MenuTyped(p) /\ SameMenu(i, p) /\ p.scroll = i.scroll /\ p.choice = i.choice
        /\ max_choice(p) = max_choice(i)
        /\ \A y \in 0 .. max_choice(i) - 1 :
              p.win[y] = Line(item_set(i.item, i.first_item + y), y = i.choice)
    BY <2>2, PaintedTyped
  <2> HIDE DEF p
  <2>4. /\ max_choice(i) \in Nat /\ max_choice(i) <= Len(i.item) /\ Len(i.item) \in Nat
        /\ i.scroll \in Int /\ (i.item = <<>> => max_choice(i) = 0)
    <3>1. i.item = <<>> => Len(i.item) = 0
      OBVIOUS
    <3> QED
      BY <2>2, <3>1, MaxChoiceOf
  <2>5. Placed(p)
    BY <2>2, <2>3 DEF Placed, SameMenu, LastLine
  <2>6. Shows(p.win, p.item, p.scroll, p.choice, max_choice(p))
    <3>1. ASSUME NEW y \in 0 .. max_choice(i) - 1
          PROVE  p.win[y] = Line(item_set(p.item, p.scroll + y), y = p.choice)
      <4>1. i.first_item = i.scroll
        BY <2>2, <2>4 DEF SameMenu
      <4> QED
        BY <2>3, <4>1 DEF SameMenu
    <3>2. ASSUME NEW y \in 0 .. max_choice(i) - 1 PROVE p.scroll + y < Len(p.item)
      BY <2>2, <2>3, <2>4 DEF Placed, SameMenu
    <3>3. max_choice(i) > 0 => p.choice \in 0 .. max_choice(i) - 1
      BY <2>2, <2>3, <2>4 DEF Placed, LastLine
    <3> QED
      BY <2>3, <3>1, <3>2, <3>3 DEF Shows
  <2>7. Drawn(m, height) = p
    BY <1>2 DEF Drawn, p, i, n
  <2> QED
    BY <2>1, <2>2, <2>3, <2>5, <2>6, <2>7 DEF Displayed, SameMenu
<1> QED
  BY <1>1, <1>2

(* A menu opened with a saved scroll may lose its place when the terminal  *)
(* is resized: of that one only the shape is known.                        *)
MenuInv ==
  /\ rows \in Rows
  /\ s_scroll \in Int
  /\ mb.open => /\ MenuTyped(mb)
                /\ (mb.redrawn => mb.saved = 0) => Displayed(mb)

LEMMA MenuOpens ==
  ASSUME MenuInv, MenuOpen
  PROVE  MenuInv'
<1>1. PICK item \in MenuLists : \E selected \in ToSet(item) \cup {NoItem}, scroll \in {0, s_scroll} :
        /\ s_scroll' = scroll
        /\ mb' = Drawn([open |-> TRUE, item |-> item, selected |-> selected,
                        saved |-> scroll, scroll |-> 0, choice |-> 0, first_item |-> 0, button |-> 0,
                        menu_height |-> 0, redrawn |-> FALSE, win |-> <<>>], rows)
        /\ UNCHANGED rows
  BY DEF MenuOpen
<1>2. PICK selected \in ToSet(item) \cup {NoItem}, scroll \in {0, s_scroll} :
        /\ s_scroll' = scroll
        /\ mb' = Drawn([open |-> TRUE, item |-> item, selected |-> selected,
                        saved |-> scroll, scroll |-> 0, choice |-> 0, first_item |-> 0, button |-> 0,
                        menu_height |-> 0, redrawn |-> FALSE, win |-> <<>>], rows)
        /\ UNCHANGED rows
  BY <1>1
<1> DEFINE m == [open |-> TRUE, item |-> item, selected |-> selected,
                 saved |-> scroll, scroll |-> 0, choice |-> 0, first_item |-> 0, button |-> 0,
                 menu_height |-> 0, redrawn |-> FALSE, win |-> <<>>]
           n == [m EXCEPT !.menu_height = rows - 14]
<1>3. rows \in Nat /\ scroll \in Int /\ s_scroll' \in Int /\ rows' \in Rows
  BY <1>2, RowsAssumption DEF MenuInv
<1>4. item \in Seq(Entries) /\ selected \in Entries \cup {NoItem}
  BY MenuAssumption DEF ToSet
<1>5. n = [open |-> TRUE, item |-> item, selected |-> selected,
           saved |-> scroll, scroll |-> 0, choice |-> 0, first_item |-> 0, button |-> 0,
           menu_height |-> rows - 14, redrawn |-> FALSE, win |-> <<>>]
  <2> DEFINE t == TRUE
             f == FALSE
             h == rows - 14
             r(y) == [open |-> t, item |-> item, selected |-> selected,
                      saved |-> scroll, scroll |-> 0, choice |-> 0, first_item |-> 0, button |-> 0,
                      menu_height |-> y, redrawn |-> f, win |-> <<>>]
  <2> HIDE DEF t, f, h
  <2>1. [r(0) EXCEPT !.menu_height = h] = r(h)
    OBVIOUS
  <2> QED
    BY <2>1 DEF t, f, h
<1>6. rows >= 15 => MenuOf(n, {<<>>}) /\ Drawable(n) /\ (n.redrawn => n.saved = 0)
  <2> SUFFICES ASSUME rows >= 15 PROVE MenuOf(n, {<<>>}) /\ Drawable(n) /\ ~n.redrawn
    BY <1>5
  <2>1. rows - 14 \in Nat \ {0}
    BY <1>3
  <2>2. n.item # <<>> => n.choice \in 0 .. Len(n.item) - 1
    BY <1>4, <1>5
  <2>3. MenuOf(n, {<<>>})
    <3> DEFINE h == rows - 14
               z == 0
               none == <<>>
               t == TRUE
               f == FALSE
    <3>1. t \in {TRUE} /\ f \in BOOLEAN /\ h \in Nat \ {0} /\ z \in Int /\ z \in 0 .. 2
      BY <2>1
    <3>2. n = [open |-> t, item |-> item, selected |-> selected,
               saved |-> scroll, scroll |-> z, choice |-> z, first_item |-> z, button |-> z,
               menu_height |-> h, redrawn |-> f, win |-> none]
      BY <1>5
    <3> HIDE DEF h, z, none, n, t, f
    <3>3. MenuOf(n, {none})
      BY <1>3, <1>4, <3>1, <3>2 DEF MenuOf, MenuStates
    <3> QED
      BY <3>3 DEF none
  <2> QED
    BY <1>5, <2>2, <2>3 DEF Drawable
<1>7. mb' = Drawn(m, rows)
  BY <1>2
<1> HIDE DEF m
<1>8. mb' = NoMenu \/ Displayed(mb')
  BY <1>3, <1>6, <1>7, DrawnDisplayed
<1> QED
  BY <1>3, <1>8 DEF MenuInv, NoMenu, Displayed

LEMMA MenuMoves ==
  ASSUME MenuInv, NEW key, MenuMove(key)
  PROVE  MenuInv'
<1> DEFINE u == Put(mb, mb.choice, FALSE)
           v == Moved(u, key)
<1>1. /\ MenuTyped(mb) /\ ((mb.redrawn => mb.saved = 0) => Displayed(mb))
      /\ rows \in Rows /\ s_scroll \in Int
  BY DEF MenuInv, MenuMove
<1>2. mb' = Refreshed(v) /\ UNCHANGED <<rows, s_scroll>> /\ Moves(mb, key)
  BY Zenon DEF MenuMove, Moves, Arrow
<1>3. /\ MenuTyped(u) /\ SameMenu(mb, u) /\ u.scroll = mb.scroll /\ u.choice = mb.choice
      /\ max_choice(u) = max_choice(mb)
  <2>1. mb.choice \in Int
    BY <1>1, MaxChoice
  <2> QED
    BY <1>1, <2>1, PutLine
<1>4. Displayed(mb) => Movable(u)
  BY PutOut
<1> HIDE DEF u
<1>5. Moves(u, key)
  <2>1. HotLine(u, key) = HotLine(mb, key)
    BY <1>3 DEF HotLine, LastLine, SameMenu
  <2> QED
    BY <1>2, <1>3, <2>1 DEF Moves
<1>6. Leads(u, v)
  BY <1>3, <1>5, MovedLeads
<1> HIDE DEF v
<1>7. MenuTyped(v) /\ SameMenu(u, v) /\ (Movable(u) => Movable(v))
  BY <1>6 DEF Leads
<1>8. MenuTyped(mb') /\ SameMenu(v, mb')
  <2>1. v.choice \in Int
    BY <1>7, MaxChoice
  <2> QED
    BY <1>2, <1>7, <2>1, PutLine DEF Refreshed
<1>9. Movable(v) => Displayed(mb')
  BY <1>2, LitAgain
<1>10. mb'.saved = mb.saved /\ mb'.redrawn = mb.redrawn
  BY <1>3, <1>7, <1>8 DEF SameMenu
<1> QED
  BY <1>1, <1>2, <1>4, <1>7, <1>8, <1>9, <1>10 DEF MenuInv

LEMMA MenuResizes ==
  ASSUME MenuInv, MenuResize
  PROVE  MenuInv'
<1> DEFINE m == [mb EXCEPT !.redrawn = TRUE]
           n == [m EXCEPT !.menu_height = rows' - 14]
           windows == [0 .. mb.menu_height - 1 -> ScreenLine]
<1>1. /\ MenuTyped(mb) /\ ((mb.redrawn => mb.saved = 0) => Displayed(mb))
      /\ rows' \in Rows /\ s_scroll' \in Int /\ rows' \in Nat
      /\ mb' = Drawn(m, rows')
  BY RowsAssumption DEF MenuInv, MenuResize
<1>2. /\ n = [mb EXCEPT !.redrawn = TRUE, !.menu_height = rows' - 14]
      /\ n.saved = mb.saved /\ n.item = mb.item /\ n.choice = mb.choice /\ n.redrawn
  BY <1>1 DEF MenuTyped, MenuOf, MenuStates
<1>3. rows' >= 15 => MenuOf(n, windows)
  <2> SUFFICES ASSUME rows' >= 15 PROVE MenuOf(n, windows)
    OBVIOUS
  <2> DEFINE h == rows' - 14
  <2>1. h \in Nat \ {0}
    BY <1>1
  <2>2. n = [mb EXCEPT !.redrawn = TRUE, !.menu_height = h]
    BY <1>2
  <2> HIDE DEF h, n
  <2> QED
    BY <1>1, <2>1, <2>2 DEF MenuTyped, MenuOf, MenuStates
<1>4. mb.saved = 0 => Drawable(n)
  <2> SUFFICES ASSUME mb.saved = 0 PROVE n.item # <<>> => n.choice \in 0 .. Len(n.item) - 1
    BY <1>2 DEF Drawable
  <2>1. Placed(mb)
    BY <1>1 DEF Displayed
  <2> HIDE DEF n
  <2> QED
    BY <1>1, <1>2, <2>1, MaxChoice DEF Placed, LastLine
<1> HIDE DEF m
<1>5. mb' = NoMenu \/ (MenuTyped(mb') /\ SameMenu(n, mb'))
  BY <1>1, <1>3, DrawnTyped
<1>6. CASE mb.saved = 0
  <2>1. mb' = NoMenu \/ Displayed(mb')
    BY <1>1, <1>2, <1>3, <1>4, <1>6, DrawnDisplayed
  <2> QED
    BY <1>1, <2>1 DEF MenuInv, NoMenu, Displayed
<1>7. CASE mb.saved # 0
  BY <1>1, <1>2, <1>5, <1>7 DEF MenuInv, NoMenu, SameMenu
<1> QED
  BY <1>6, <1>7

LEMMA MenuTurns ==
  ASSUME MenuInv, NEW key, MenuButton(key)
  PROVE  MenuInv'
<1> DEFINE b == Turned(mb.button, key, 3)
<1>1. /\ MenuTyped(mb) /\ ((mb.redrawn => mb.saved = 0) => Displayed(mb))
      /\ rows' \in Rows /\ s_scroll' \in Int
      /\ mb' = [mb EXCEPT !.button = b]
  BY DEF MenuInv, MenuButton
<1>2. b \in 0 .. 2
  <2>1. mb.button \in 0 .. 2
    BY <1>1 DEF MenuTyped, MenuOf, MenuStates
  <2> QED
    BY <2>1 DEF Turned
<1> HIDE DEF b
<1>3. MenuTyped(mb')
  BY <1>1, <1>2 DEF MenuTyped, MenuOf, MenuStates
<1>4. /\ SameMenu(mb, mb') /\ mb'.win = mb.win /\ mb'.scroll = mb.scroll /\ mb'.choice = mb.choice
  BY <1>1 DEF MenuTyped, MenuOf, MenuStates, SameMenu
<1>5. max_choice(mb') = max_choice(mb)
  BY <1>4 DEF SameMenu, max_choice
<1>6. Displayed(mb) => Displayed(mb')
  BY <1>3, <1>4, <1>5 DEF Displayed, Placed, SameMenu, LastLine
<1> QED
  BY <1>1, <1>3, <1>4, <1>6 DEF MenuInv, SameMenu

LEMMA MenuCloses ==
  ASSUME MenuInv, \/ \E key \in {"enter"} \cup Letters : MenuReturn(key)
                  \/ \E next \in AfterEscape : MenuEscape(next)
  PROVE  MenuInv'
<1>1. CASE \E key \in {"enter"} \cup Letters : MenuReturn(key)
  <2>1. mb.open /\ s_scroll' = mb.scroll /\ mb' = NoMenu /\ rows' = rows
    BY <1>1 DEF MenuReturn
  <2>2. mb.scroll \in Int
    BY <2>1, MaxChoice DEF MenuInv
  <2> QED
    BY <2>1, <2>2 DEF MenuInv, NoMenu
<1>2. CASE \E next \in AfterEscape : MenuEscape(next)
  <2>1. mb' \in {NoMenu, mb} /\ UNCHANGED <<rows, s_scroll>>
    BY <1>2 DEF MenuEscape
  <2>2. CASE mb' = NoMenu
    BY <2>1, <2>2 DEF MenuInv, NoMenu
  <2>3. CASE mb' = mb
    BY <2>1, <2>3 DEF MenuInv
  <2> QED
    BY <2>1, <2>2, <2>3
<1> QED
  BY <1>1, <1>2

LEMMA RowsStep ==
  ASSUME rows \in Rows, Next
  PROVE  rows' \in Rows
<1>1. CASE dialog_menu
  BY <1>1, Zenon DEF dialog_menu, MenuOpen, MenuMove, MenuButton, MenuReturn, MenuEscape, MenuResize
<1>2. CASE dialog_checklist
  BY <1>2, Zenon DEF dialog_checklist, ListOpen, ListMove, ListButton, ListReturn, ListEscape, ListResize
<1>3. CASE dialog_inputbox
  BY <1>3, Zenon DEF dialog_inputbox, FieldOpen, Backspace, Type, FieldButton, FieldReturn, FieldEscape, FieldResize
<1>4. CASE dialog_yesno
  BY <1>4, Zenon DEF dialog_yesno, YesNoOpen, YesNoButton, YesNoReturn, YesNoEscape, YesNoResize
<1>5. CASE dialog_textbox
  BY <1>5, Zenon DEF dialog_textbox, TextOpen, GoBack, GoOn, GoToEnd, GoAside, TextReturn, TextEscape, TextResize, Keeps
<1> QED
  BY <1>1, <1>2, <1>3, <1>4, <1>5 DEF Next

LEMMA MenuStep ==
  ASSUME MenuInv, Next
  PROVE  MenuInv'
<1>1. rows' \in Rows
  BY RowsStep DEF MenuInv
<1>2. CASE dialog_menu
  BY <1>2, MenuOpens, MenuMoves, MenuTurns, MenuCloses, MenuResizes, Zenon DEF dialog_menu
<1>3. CASE ~dialog_menu
  <2>1. UNCHANGED <<mb, s_scroll>>
    BY <1>3, Zenon DEF Next, dialog_checklist, dialog_inputbox, dialog_yesno, dialog_textbox
  <2> QED
    BY <1>1, <2>1 DEF MenuInv
<1> QED
  BY <1>2, <1>3

(* The menu of menuconfig shows, whatever the list, the terminal, the      *)
(* scroll that the last call has left and the keys, the items that its     *)
(* lines stand for, and highlights the one that Enter acts on.             *)
THEOREM MenuAlwaysShowsItems == DialogsSpec => []MenuShowsItems
<1>1. DialogsInit => MenuInv
  <2> DEFINE z == 0
  <2>1. z \in Int /\ ~NoMenu.open
    BY DEF NoMenu
  <2> HIDE DEF z
  <2> QED
    BY <2>1 DEF DialogsInit, Init, MenuInv, z
<1>2. MenuInv /\ [DialogsNext]_<<vars, gvars, program>> => MenuInv'
  <2> SUFFICES ASSUME MenuInv, [DialogsNext]_<<vars, gvars, program>> PROVE MenuInv'
    OBVIOUS
  <2>1. CASE UNCHANGED vars
    BY <2>1 DEF vars, MenuInv
  <2>2. CASE Next
    BY <2>2, MenuStep
  <2> QED
    BY <2>1, <2>2 DEF DialogsNext
<1>3. MenuInv => MenuShowsItems
  BY DEF MenuInv, MenuShowsItems, Displayed
<1> QED
  BY <1>1, <1>2, <1>3, PTL DEF DialogsSpec

-----------------------------------------------------------------------------
(* The radio list.                                                         *)

ListLine == [shows : Values \cup {NoItem}, lit : BOOLEAN]
ListWindows == [0 .. list_height - 1 -> ListLine]

ListStates(item, windows) ==
  [open : {TRUE}, item : {item}, scroll : Int, button : 0 .. 1, choice : Int, win : windows]

ListOf(c, windows) == c.item \in Seq(Values) \ {<<>>} /\ c \in ListStates(c.item, windows)

InList(c) == c.scroll \in 0 .. Len(c.item) - Lines(c) /\ c.choice \in 0 .. Lines(c) - 1

ListInv ==
  /\ rows \in Rows
  /\ cl.open => /\ ListOf(cl, ListWindows) /\ InList(cl)
                /\ Shows(cl.win, cl.item, cl.scroll, cl.choice, Lines(cl))

LEMMA LinesOf ==
  ASSUME NEW c, NEW windows, ListOf(c, windows)
  PROVE  /\ Lines(c) = IF list_height <= Len(c.item) THEN list_height ELSE Len(c.item)
         /\ Lines(c) \in Nat /\ Lines(c) > 0 /\ Lines(c) <= Len(c.item) /\ Lines(c) <= list_height
         /\ Len(c.item) \in Nat /\ list_height \in Nat /\ c.scroll \in Int /\ c.choice \in Int
<1>1. Len(c.item) \in Nat /\ Len(c.item) > 0
  BY DEF ListOf
<1>2. list_height \in Nat \ {0}
  BY ListAssumption
<1>3. Lines(c) = IF list_height <= Len(c.item) THEN list_height ELSE Len(c.item)
  BY <1>1, <1>2, MinOfTwo DEF Lines, item_count
<1>4. c.scroll \in Int /\ c.choice \in Int
  BY DEF ListOf, ListStates
<1> QED
  BY <1>1, <1>2, <1>3, <1>4

LEMMA ListItem ==
  ASSUME NEW item \in Seq(Values), NEW n \in Int
  PROVE  item_set(item, n) \in Values \cup {NoItem}
BY DEF item_set

LEMMA SetOneLine ==
  ASSUME NEW c, ListOf(c, ListWindows), NEW y \in Int, NEW lit \in BOOLEAN
  PROVE  /\ ListOf(SetLine(c, y, lit), ListWindows)
         /\ SetLine(c, y, lit).item = c.item
         /\ SetLine(c, y, lit).scroll = c.scroll
         /\ SetLine(c, y, lit).choice = c.choice
         /\ Lines(SetLine(c, y, lit)) = Lines(c)
         /\ \A z \in 0 .. list_height - 1 :
               SetLine(c, y, lit).win[z] = IF z = y THEN Line(item_set(c.item, c.scroll + y), lit) ELSE c.win[z]
<1> DEFINE it == item_set(c.item, c.scroll + y)
           n == SetLine(c, y, lit)
<1>1. c.scroll + y \in Int /\ c.item \in Seq(Values)
  BY DEF ListOf, ListStates
<1>2. it \in Values \cup {NoItem}
  BY <1>1, ListItem
<1> HIDE DEF it
<1>3. Line(it, lit) \in ListLine
  BY <1>2 DEF Line, ListLine
<1>4. c.win \in ListWindows
  BY DEF ListOf, ListStates
<1>5. print_item(c.win, it, y, lit) \in ListWindows
  BY <1>3, <1>4 DEF print_item, ListWindows
<1>6. n = [c EXCEPT !.win = print_item(c.win, it, y, lit)]
  BY DEF SetLine, it
<1>7. ListOf(n, ListWindows)
  BY <1>5, <1>6 DEF ListOf, ListStates
<1>8. n.item = c.item /\ n.scroll = c.scroll /\ n.choice = c.choice /\ n.win = print_item(c.win, it, y, lit)
  BY <1>6 DEF ListOf, ListStates
<1>9. Lines(n) = Lines(c)
  BY <1>8 DEF Lines
<1> QED
  BY <1>4, <1>7, <1>8, <1>9 DEF print_item, ListWindows, it

OnScreen(c) == /\ ListOf(c, ListWindows) /\ InList(c)
              /\ Shows(c.win, c.item, c.scroll, c.choice, Lines(c))

(* No line but possibly that of the choice is unlike its item.             *)
Dark(c) ==
  \A y \in 0 .. Lines(c) - 1 : y # c.choice => c.win[y] = Line(item_set(c.item, c.scroll + y), FALSE)

(* No line is lit.                                                         *)
AllDark(c) == \A y \in 0 .. Lines(c) - 1 : c.win[y] = Line(item_set(c.item, c.scroll + y), FALSE)

LEMMA LightOut ==
  ASSUME NEW c, OnScreen(c)
  PROVE  AllDark(SetLine(c, c.choice, FALSE))
<1> DEFINE d == SetLine(c, c.choice, FALSE)
<1>1. ListOf(c, ListWindows) /\ c.choice \in Int /\ FALSE \in BOOLEAN
  BY LinesOf DEF OnScreen
<1>2. /\ d.item = c.item /\ d.scroll = c.scroll /\ Lines(d) = Lines(c)
      /\ \A z \in 0 .. list_height - 1 :
            d.win[z] = IF z = c.choice THEN Line(item_set(c.item, c.scroll + c.choice), FALSE) ELSE c.win[z]
  BY <1>1, SetOneLine
<1> HIDE DEF d
<1>3. Lines(c) \in Nat /\ Lines(c) <= list_height /\ list_height \in Nat
  BY <1>1, LinesOf
<1> SUFFICES ASSUME NEW y \in 0 .. Lines(c) - 1
             PROVE  d.win[y] = Line(item_set(d.item, d.scroll + y), FALSE)
  BY <1>2 DEF AllDark, d
<1>4. y \in 0 .. list_height - 1
  BY <1>3
<1>5. c.win[y] = Line(item_set(c.item, c.scroll + y), y = c.choice)
  BY DEF OnScreen, Shows
<1> QED
  BY <1>2, <1>4, <1>5

LEMMA LightOn ==
  ASSUME NEW c, ListOf(c, ListWindows), Dark(c), InList(c)
  PROVE  OnScreen(SetLine(c, c.choice, TRUE))
<1> DEFINE d == SetLine(c, c.choice, TRUE)
<1>1. c.choice \in Int /\ TRUE \in BOOLEAN
  BY LinesOf
<1>2. /\ ListOf(d, ListWindows)
      /\ d.item = c.item /\ d.scroll = c.scroll /\ d.choice = c.choice /\ Lines(d) = Lines(c)
      /\ \A z \in 0 .. list_height - 1 :
            d.win[z] = IF z = c.choice THEN Line(item_set(c.item, c.scroll + c.choice), TRUE) ELSE c.win[z]
  BY <1>1, SetOneLine
<1> HIDE DEF d
<1>3. /\ Lines(c) \in Nat /\ Lines(c) <= list_height /\ list_height \in Nat
      /\ Lines(c) <= Len(c.item) /\ Len(c.item) \in Nat /\ c.scroll \in Int
  BY LinesOf
<1>4. InList(d)
  BY <1>2 DEF InList
<1>5. ASSUME NEW y \in 0 .. Lines(c) - 1
      PROVE  d.win[y] = Line(item_set(d.item, d.scroll + y), y = d.choice) /\ d.scroll + y < Len(d.item)
  <2>1. y \in 0 .. list_height - 1
    BY <1>3
  <2>2. y # c.choice => c.win[y] = Line(item_set(c.item, c.scroll + y), FALSE)
    BY DEF Dark
  <2>3. c.scroll + y < Len(c.item)
    BY <1>3 DEF InList
  <2>4. CASE y = c.choice
    BY <1>2, <2>1, <2>3, <2>4
  <2>5. CASE y # c.choice
    BY <1>2, <2>1, <2>2, <2>3, <2>5
  <2> QED
    BY <2>4, <2>5
<1>6. d.choice \in 0 .. Lines(d) - 1
  BY <1>4 DEF InList
<1> QED
  BY <1>2, <1>4, <1>5, <1>6 DEF OnScreen, Shows, d

LEMMA ChosenOnScreen ==
  ASSUME NEW c, OnScreen(c), NEW y \in 0 .. Lines(c) - 1
  PROVE  OnScreen(Chosen(c, y))
<1> DEFINE d == SetLine(c, c.choice, FALSE)
           e == [d EXCEPT !.choice = y]
<1>1. ListOf(c, ListWindows) /\ InList(c) /\ c.choice \in Int /\ FALSE \in BOOLEAN
  BY LinesOf DEF OnScreen
<1>2. ListOf(d, ListWindows) /\ d.item = c.item /\ d.scroll = c.scroll /\ Lines(d) = Lines(c)
  BY <1>1, SetOneLine
<1>3. AllDark(d)
  BY LightOut
<1> HIDE DEF d
<1>4. y \in Int
  BY <1>1, LinesOf
<1>5. /\ ListOf(e, ListWindows)
      /\ e.item = d.item /\ e.scroll = d.scroll /\ e.choice = y /\ e.win = d.win
  BY <1>2, <1>4 DEF ListOf, ListStates
<1> HIDE DEF e
<1>6. Lines(e) = Lines(d)
  BY <1>5 DEF Lines
<1>7. Dark(e)
  BY <1>3, <1>5, <1>6 DEF Dark, AllDark
<1>8. InList(e)
  BY <1>1, <1>2, <1>5, <1>6 DEF InList
<1>9. OnScreen(SetLine(e, e.choice, TRUE))
  BY <1>5, <1>7, <1>8, LightOn
<1> QED
  BY <1>5, <1>9 DEF Chosen, d, e

(* The list is scrolled by one line at the end of the window.              *)
LEMMA ScrolledOnScreen ==
  ASSUME NEW c, OnScreen(c), NEW n \in {-1, 1}, c.scroll + n \in 0 .. Len(c.item) - Lines(c),
         n = -1 => c.choice = 0, n = 1 => c.choice = Lines(c) - 1
  PROVE  OnScreen(ScrolledTo(c, n, c.choice))
<1> DEFINE s == c.scroll + n
           d == SetLine(c, c.choice, FALSE)
           w == wscrl(d.win, n)
           e == [[d EXCEPT !.win = w] EXCEPT !.scroll = s]
           f == [c EXCEPT !.scroll = s]
<1>1. ListOf(c, ListWindows) /\ InList(c) /\ c.choice \in Int /\ FALSE \in BOOLEAN /\ c.scroll \in Int
  BY LinesOf DEF OnScreen
<1>2. /\ ListOf(d, ListWindows) /\ d.item = c.item /\ d.scroll = c.scroll /\ d.choice = c.choice
      /\ Lines(d) = Lines(c)
  BY <1>1, SetOneLine
<1>3. AllDark(d)
  BY LightOut
<1> HIDE DEF d
<1>4. s \in Int /\ s = c.scroll + n
  BY <1>1
<1>5. s \in 0 .. Len(c.item) - Lines(c)
  OBVIOUS
<1> HIDE DEF s
<1>6. /\ Lines(c) = (IF list_height <= Len(c.item) THEN list_height ELSE Len(c.item))
      /\ Lines(c) \in Nat /\ Lines(c) > 0 /\ Lines(c) <= list_height /\ list_height \in Nat
      /\ Len(c.item) \in Nat
  BY <1>1, LinesOf
<1>7. Lines(c) = list_height
  <2>1. c.scroll \in 0 .. Len(c.item) - Lines(c)
    BY <1>1 DEF InList
  <2>2. s # c.scroll
    BY <1>1, <1>4
  <2>3. Len(c.item) # Lines(c)
    BY <1>5, <2>1, <2>2
  <2> QED
    BY <1>6, <2>3
<1>8. CASE list_height > 1
  <2>1. d.win \in ListWindows
    BY <1>2 DEF ListOf, ListStates
  <2>2. BlankLine \in ListLine
    BY DEF BlankLine, Line, ListLine
  <2>3. w \in ListWindows
    BY <2>1, <2>2 DEF wscrl, ListWindows
  <2>4. \A y \in 0 .. list_height - 1 : y + n \in 0 .. list_height - 1 => w[y] = d.win[y + n]
    BY <2>1 DEF wscrl, ListWindows
  <2> HIDE DEF w
  <2>5. /\ ListOf(e, ListWindows)
        /\ e.item = d.item /\ e.scroll = s /\ e.choice = d.choice /\ e.win = w
    BY <1>2, <1>4, <2>3 DEF ListOf, ListStates
  <2> HIDE DEF e
  <2>6. Lines(e) = Lines(d)
    BY <2>5 DEF Lines
  <2>7. InList(e)
    BY <1>1, <1>2, <1>5, <2>5, <2>6 DEF InList
  <2>8. ASSUME NEW y \in 0 .. Lines(c) - 1, y # c.choice
        PROVE  e.win[y] = Line(item_set(e.item, e.scroll + y), FALSE)
    <3>1. y \in 0 .. list_height - 1 /\ y + n \in 0 .. list_height - 1
      BY <1>6, <1>7, <2>8
    <3>2. d.win[y + n] = Line(item_set(d.item, d.scroll + (y + n)), FALSE)
      BY <1>2, <1>3, <1>7, <3>1 DEF AllDark
    <3>3. d.scroll + (y + n) = e.scroll + y
      BY <1>1, <1>2, <1>4, <2>5
    <3> QED
      BY <2>4, <2>5, <3>1, <3>2, <3>3
  <2>9. Dark(e)
    BY <1>2, <2>5, <2>6, <2>8 DEF Dark
  <2>10. OnScreen(SetLine(e, e.choice, TRUE))
    BY <2>5, <2>7, <2>9, LightOn
  <2>11. e.choice = c.choice
    BY <1>2, <2>5
  <2>12. ScrolledTo(c, n, c.choice) = SetLine(e, c.choice, TRUE)
    <3>1. [d EXCEPT !.win = w].scroll + n = s
      BY <1>2, <1>4 DEF ListOf, ListStates
    <3> QED
      BY <1>8, <3>1 DEF ScrolledTo, d, e, w
  <2> QED
    BY <2>10, <2>11, <2>12
<1>9. CASE ~(list_height > 1)
  <2>1. /\ ListOf(f, ListWindows)
        /\ f.item = c.item /\ f.scroll = s /\ f.choice = c.choice /\ f.win = c.win
    BY <1>1, <1>4 DEF ListOf, ListStates
  <2> HIDE DEF f
  <2>2. Lines(f) = Lines(c)
    BY <2>1 DEF Lines
  <2>3. InList(f)
    BY <1>1, <1>5, <2>1, <2>2 DEF InList
  <2>4. Dark(f)
    BY <1>6, <1>9, <2>1, <2>2, <2>3 DEF Dark, InList
  <2>5. OnScreen(SetLine(f, f.choice, TRUE))
    BY <2>1, <2>3, <2>4, LightOn
  <2>6. ScrolledTo(c, n, c.choice) = SetLine(f, c.choice, TRUE)
    BY <1>4, <1>9 DEF ScrolledTo, f
  <2> QED
    BY <2>1, <2>5, <2>6
<1> QED
  BY <1>6, <1>8, <1>9

LEMMA UpAndDownOnScreen ==
  ASSUME NEW c, OnScreen(c)
  PROVE  OnScreen(ListUp(c)) /\ OnScreen(ListDown(c))
<1>1. ListOf(c, ListWindows) /\ InList(c)
  BY DEF OnScreen
<1>2. /\ Lines(c) \in Nat /\ Lines(c) > 0 /\ Lines(c) <= Len(c.item)
      /\ Len(c.item) \in Nat /\ c.scroll \in Int /\ c.choice \in Int
  BY <1>1, LinesOf
<1>3. c.choice \in 0 .. Lines(c) - 1 /\ c.scroll \in 0 .. Len(c.item) - Lines(c)
  BY <1>1 DEF InList
<1>4. ASSUME c.choice > 0 PROVE OnScreen(ListUp(c))
  <2> DEFINE y == c.choice - 1
  <2>1. y \in 0 .. Lines(c) - 1
    BY <1>2, <1>3, <1>4
  <2>2. ListUp(c) = Chosen(c, y)
    BY <1>4 DEF ListUp
  <2> HIDE DEF y
  <2> QED
    BY <2>1, <2>2, ChosenOnScreen
<1>5. ASSUME ~(c.choice > 0), c.scroll > 0 PROVE OnScreen(ListUp(c))
  <2> DEFINE n == -1
  <2>1. c.choice = 0 /\ c.scroll + n \in 0 .. Len(c.item) - Lines(c)
    BY <1>2, <1>3, <1>5
  <2>2. n \in {-1, 1} /\ (n = -1 => c.choice = 0) /\ (n = 1 => c.choice = Lines(c) - 1)
    BY <2>1
  <2>3. ListUp(c) = ScrolledTo(c, n, c.choice)
    BY <1>5, <2>1 DEF ListUp
  <2> HIDE DEF n
  <2> QED
    BY <2>1, <2>2, <2>3, ScrolledOnScreen
<1>6. ASSUME c.choice < Lines(c) - 1 PROVE OnScreen(ListDown(c))
  <2> DEFINE y == c.choice + 1
  <2>1. y \in 0 .. Lines(c) - 1
    BY <1>2, <1>3, <1>6
  <2>2. ListDown(c) = Chosen(c, y)
    BY <1>6 DEF ListDown
  <2> HIDE DEF y
  <2> QED
    BY <2>1, <2>2, ChosenOnScreen
<1>7. ASSUME ~(c.choice < Lines(c) - 1), c.scroll + c.choice < item_count(c.item) - 1
      PROVE  OnScreen(ListDown(c))
  <2> DEFINE n == 1
  <2>1. c.choice = Lines(c) - 1 /\ c.scroll + n \in 0 .. Len(c.item) - Lines(c)
    BY <1>2, <1>3, <1>7 DEF item_count
  <2>2. n \in {-1, 1} /\ (n = -1 => c.choice = 0) /\ (n = 1 => c.choice = Lines(c) - 1)
    BY <2>1
  <2>3. ListDown(c) = ScrolledTo(c, n, c.choice)
    BY <1>7, <2>1 DEF ListDown
  <2> HIDE DEF n
  <2> QED
    BY <2>1, <2>2, <2>3, ScrolledOnScreen
<1>8. ~(c.choice > 0) /\ ~(c.scroll > 0) => ListUp(c) = c
  BY DEF ListUp
<1>9. ~(c.choice < Lines(c) - 1) /\ ~(c.scroll + c.choice < item_count(c.item) - 1) => ListDown(c) = c
  BY DEF ListDown
<1>10. OnScreen(ListUp(c))
  BY <1>4, <1>5, <1>8
<1>11. OnScreen(ListDown(c))
  BY <1>6, <1>7, <1>9
<1> QED
  BY <1>10, <1>11

LEMMA ListMoves ==
  ASSUME ListInv, NEW key, ListMove(key)
  PROVE  ListInv'
<1>1. /\ cl.open /\ OnScreen(cl) /\ rows \in Rows
      /\ rows' = rows
      /\ key \in {"up", "down"} \/ WithInitial(cl, key) # {}
      /\ cl' = CASE key = "up" -> ListUp(cl)
                 [] key = "down" -> ListDown(cl)
                 [] OTHER -> Chosen(cl, Min(WithInitial(cl, key)))
  BY Zenon DEF ListInv, ListMove, OnScreen
<1>2. ASSUME key = "up" PROVE OnScreen(cl')
  BY <1>1, <1>2, UpAndDownOnScreen
<1>3. ASSUME key = "down" PROVE OnScreen(cl')
  BY <1>1, <1>3, UpAndDownOnScreen
<1>4. ASSUME key \notin {"up", "down"} PROVE OnScreen(cl')
  <2> DEFINE W == WithInitial(cl, key)
  <2>1. W \subseteq 0 .. Lines(cl) - 1
    BY DEF WithInitial
  <2>2. W # {} /\ cl' = Chosen(cl, Min(W))
    BY <1>1, <1>4
  <2> HIDE DEF W
  <2>3. W \subseteq Nat
    BY <2>1
  <2>4. Min(W) \in 0 .. Lines(cl) - 1
    BY <2>1, <2>2, <2>3, MinOfBounded
  <2> QED
    BY <1>1, <2>2, <2>4, ChosenOnScreen
<1>5. OnScreen(cl')
  BY <1>2, <1>3, <1>4
<1> QED
  BY <1>1, <1>5 DEF ListInv, OnScreen

(* Drawing the list, for the first time or after a resize.                 *)
LEMMA ListDraws ==
  ASSUME NEW c, NEW windows, ListOf(c, windows), NEW height,
         c.choice \in 0 .. Len(c.item) - 1,
         c.choice < list_height => InList(c)
  PROVE  ListDrawn(c, height) = NoList \/ OnScreen(ListDrawn(c, height))
<1> DEFINE scroll == IF c.choice >= list_height THEN c.choice - list_height + 1 ELSE c.scroll
           choice == IF c.choice >= list_height THEN list_height - 1 ELSE c.choice
           lit == [y \in 0 .. list_height - 1 |->
                     IF y < Lines(c) THEN Line(item_set(c.item, scroll + y), y = choice) ELSE BlankLine]
           d == [c EXCEPT !.scroll = scroll, !.choice = choice, !.win = lit]
<1>1. /\ Lines(c) = (IF list_height <= Len(c.item) THEN list_height ELSE Len(c.item))
      /\ Lines(c) \in Nat /\ Lines(c) > 0 /\ Lines(c) <= Len(c.item) /\ Lines(c) <= list_height
      /\ Len(c.item) \in Nat /\ list_height \in Nat /\ c.scroll \in Int /\ c.choice \in Int
  BY LinesOf
<1>2. scroll \in 0 .. Len(c.item) - Lines(c) /\ choice \in 0 .. Lines(c) - 1
  <2>1. CASE c.choice >= list_height
    <3>1. scroll = c.choice - list_height + 1 /\ choice = list_height - 1
      BY <2>1
    <3>2. list_height \in Nat \ {0} /\ Lines(c) = list_height
      BY <1>1, <2>1, ListAssumption
    <3>3. list_height \in Nat /\ Len(c.item) \in Nat /\ c.choice \in Int
      BY <1>1
    <3> HIDE DEF scroll, choice
    <3>4. scroll \in 0 .. Len(c.item) - list_height
      BY <2>1, <3>1, <3>3
    <3>5. choice \in 0 .. list_height - 1
      BY <3>1, <3>2
    <3> QED
      BY <3>2, <3>4, <3>5
  <2>2. CASE ~(c.choice >= list_height)
    <3>1. c.choice < list_height /\ scroll = c.scroll /\ choice = c.choice
      BY <1>1, <2>2
    <3> QED
      BY <3>1 DEF InList
  <2> QED
    BY <1>1, <2>1, <2>2
<1>3. ListDrawn(c, height) = IF TooSmall(height) THEN NoList ELSE d
  BY DEF ListDrawn
<1> HIDE DEF scroll, choice
<1>4. scroll \in Int /\ choice \in Int
  BY <1>1, <1>2
<1>5. lit \in ListWindows
  <2>1. ASSUME NEW y \in 0 .. list_height - 1
        PROVE  (IF y < Lines(c) THEN Line(item_set(c.item, scroll + y), y = choice) ELSE BlankLine) \in ListLine
    <3>1. item_set(c.item, scroll + y) \in Values \cup {NoItem}
      BY <1>1, <1>4, ListItem DEF ListOf
    <3>2. (y = choice) \in BOOLEAN
      OBVIOUS
    <3>3. Line(item_set(c.item, scroll + y), y = choice) \in ListLine
      BY <3>1, <3>2, Zenon DEF Line, ListLine
    <3>4. BlankLine \in ListLine
      BY DEF BlankLine, Line, ListLine
    <3> QED
      BY <3>3, <3>4
  <2> QED
    BY <2>1 DEF ListWindows
<1>6. \A y \in 0 .. Lines(c) - 1 : lit[y] = Line(item_set(c.item, scroll + y), y = choice)
  BY <1>1
<1> HIDE DEF lit
<1>7. /\ ListOf(d, ListWindows)
      /\ d.item = c.item /\ d.scroll = scroll /\ d.choice = choice /\ d.win = lit
  BY <1>4, <1>5 DEF ListOf, ListStates
<1> HIDE DEF d
<1>8. Lines(d) = Lines(c)
  BY <1>7 DEF Lines
<1>9. OnScreen(d)
  BY <1>1, <1>2, <1>6, <1>7, <1>8 DEF OnScreen, InList, Shows
<1> QED
  BY <1>3, <1>9

LEMMA ValueNumber ==
  ASSUME NEW item \in Seq(Values) \ {<<>>}, NEW data, NEW otherwise \in 0 .. Len(item) - 1
  PROVE  item_n(item, data, otherwise) \in 0 .. Len(item) - 1
<1>1. otherwise \in Int /\ item \in Seq(Values)
  OBVIOUS
<1> QED
  BY <1>1, ItemNumber

LEMMA ListOpens ==
  ASSUME ListInv, ListOpen
  PROVE  ListInv'
<1>1. PICK item \in ValueLists : \E set, selected \in ToSet(item) \cup {NoItem} :
        /\ cl' = ListDrawn([open |-> TRUE, item |-> item, scroll |-> 0, button |-> 0,
                            choice |-> item_n(item, selected, item_n(item, set, 0)), win |-> <<>>], rows)
        /\ UNCHANGED rows
  BY DEF ListOpen
<1>2. PICK set \in ToSet(item) \cup {NoItem}, selected \in ToSet(item) \cup {NoItem} :
        /\ cl' = ListDrawn([open |-> TRUE, item |-> item, scroll |-> 0, button |-> 0,
                            choice |-> item_n(item, selected, item_n(item, set, 0)), win |-> <<>>], rows)
        /\ UNCHANGED rows
  BY <1>1
<1> DEFINE zero == 0
           n == item_n(item, selected, item_n(item, set, zero))
           true == TRUE
           none == <<>>
           windows == {none}
           c == [open |-> true, item |-> item, scroll |-> zero, button |-> zero, choice |-> n, win |-> none]
<1>3. item \in Seq(Values) \ {<<>>} /\ Len(item) \in Nat /\ Len(item) > 0
  BY ListAssumption
<1>4. n \in 0 .. Len(item) - 1
  <2>1. zero \in 0 .. Len(item) - 1
    BY <1>3
  <2> HIDE DEF zero
  <2>2. item_n(item, set, zero) \in 0 .. Len(item) - 1
    BY <1>3, <2>1, ValueNumber
  <2> QED
    BY <1>3, <2>2, ValueNumber
<1>5. true \in {TRUE} /\ none \in windows /\ zero \in Int /\ zero \in 0 .. 1 /\ zero >= 0 /\ zero <= 0
  OBVIOUS
<1>6. n \in Int
  BY <1>3, <1>4
<1>7. cl' = ListDrawn(c, rows) /\ rows' = rows
  BY <1>2, Zenon DEF n, zero, true, none
<1> HIDE DEF zero, n, true, none, windows
<1>8. c.item = item /\ c.scroll = zero /\ c.choice = n
  OBVIOUS
<1>9. ListOf(c, windows)
  BY <1>3, <1>5, <1>6 DEF ListOf, ListStates
<1> HIDE DEF c
<1>10. c.choice < list_height => InList(c)
  <2> SUFFICES ASSUME n < list_height PROVE InList(c)
    BY <1>8
  <2>1. /\ Lines(c) = (IF list_height <= Len(item) THEN list_height ELSE Len(item))
        /\ Lines(c) \in Nat /\ list_height \in Nat
    BY <1>8, <1>9, LinesOf
  <2>2. n <= Lines(c) - 1
    BY <1>3, <1>4, <1>6, <2>1
  <2>3. zero \in 0 .. Len(item) - Lines(c)
    BY <1>3, <1>5, <2>1
  <2> QED
    BY <1>4, <1>6, <1>8, <2>1, <2>2, <2>3 DEF InList
<1>11. cl' = NoList \/ OnScreen(cl')
  BY <1>4, <1>7, <1>8, <1>9, <1>10, ListDraws
<1> QED
  BY <1>7, <1>11 DEF ListInv, NoList, OnScreen

LEMMA ListResizes ==
  ASSUME ListInv, ListResize
  PROVE  ListInv'
<1>1. OnScreen(cl) /\ rows' \in Rows /\ cl' = ListDrawn(cl, rows')
  BY DEF ListInv, ListResize, OnScreen
<1>2. ListOf(cl, ListWindows) /\ InList(cl)
  BY <1>1 DEF OnScreen
<1>3. cl.choice \in 0 .. Len(cl.item) - 1
  <2>1. Lines(cl) \in Nat /\ Lines(cl) <= Len(cl.item) /\ Len(cl.item) \in Nat
    BY <1>2, LinesOf
  <2> QED
    BY <1>2, <2>1 DEF InList
<1>4. cl' = NoList \/ OnScreen(cl')
  BY <1>1, <1>2, <1>3, ListDraws
<1> QED
  BY <1>1, <1>4 DEF ListInv, NoList, OnScreen

LEMMA ListTurns ==
  ASSUME ListInv, NEW key, ListButton(key)
  PROVE  ListInv'
<1> DEFINE b == Turned(cl.button, key, 2)
<1>1. OnScreen(cl) /\ rows' \in Rows /\ cl' = [cl EXCEPT !.button = b]
  BY DEF ListInv, ListButton, OnScreen
<1>2. ListOf(cl, ListWindows)
  BY <1>1 DEF OnScreen
<1>3. b \in 0 .. 1
  <2>1. cl.button \in 0 .. 1
    BY <1>2 DEF ListOf, ListStates
  <2> QED
    BY <2>1 DEF Turned
<1> HIDE DEF b
<1>4. /\ ListOf(cl', ListWindows)
      /\ cl'.item = cl.item /\ cl'.win = cl.win /\ cl'.scroll = cl.scroll /\ cl'.choice = cl.choice
  BY <1>1, <1>2, <1>3 DEF ListOf, ListStates
<1>5. Lines(cl') = Lines(cl)
  BY <1>4 DEF Lines
<1> QED
  BY <1>1, <1>4, <1>5 DEF ListInv, OnScreen, InList

LEMMA ListCloses ==
  ASSUME ListInv, \/ \E key \in {"enter"} \cup Letters : ListReturn(key)
                  \/ \E next \in AfterEscape : ListEscape(next)
  PROVE  ListInv'
<1>1. cl' \in {NoList, cl} /\ rows' = rows
  BY DEF ListReturn, ListEscape
<1>2. CASE cl' = NoList
  BY <1>1, <1>2 DEF ListInv, NoList
<1>3. CASE cl' = cl
  BY <1>1, <1>3 DEF ListInv
<1> QED
  BY <1>1, <1>2, <1>3

LEMMA RadioStep ==
  ASSUME ListInv, Next
  PROVE  ListInv'
<1>1. rows' \in Rows
  BY RowsStep DEF ListInv
<1>2. CASE dialog_checklist
  BY <1>2, ListOpens, ListMoves, ListTurns, ListCloses, ListResizes, Zenon DEF dialog_checklist
<1>3. CASE ~dialog_checklist
  <2>1. cl' = cl
    BY <1>3, Zenon DEF Next, dialog_menu, dialog_inputbox, dialog_yesno, dialog_textbox
  <2> QED
    BY <1>1, <2>1 DEF ListInv
<1> QED
  BY <1>2, <1>3

(* The radio list of menuconfig shows the values that its lines stand for  *)
(* and highlights the one that would be set, whatever the values, the      *)
(* height of the list, the value it begins with and the terminal.          *)
THEOREM ListAlwaysShowsItems == DialogsSpec => []ListShowsItems
<1>1. DialogsInit => ListInv
  BY DEF DialogsInit, Init, ListInv, NoList
<1>2. ListInv /\ [DialogsNext]_<<vars, gvars, program>> => ListInv'
  <2> SUFFICES ASSUME ListInv, [DialogsNext]_<<vars, gvars, program>> PROVE ListInv'
    OBVIOUS
  <2>1. CASE UNCHANGED vars
    BY <2>1 DEF vars, ListInv
  <2>2. CASE Next
    BY <2>2, RadioStep
  <2> QED
    BY <2>1, <2>2 DEF DialogsNext
<1>3. ListInv => ListShowsItems
  BY DEF ListInv, ListShowsItems
<1> QED
  BY <1>1, <1>2, <1>3, PTL DEF DialogsSpec

-----------------------------------------------------------------------------
(* The input field.                                                        *)

Columns == 0 .. box_width - 1
FieldLines == [Columns -> Int]

FieldStates(lines) ==
  [open : {TRUE}, strlen : Int, scroll : Int, input_x : Int, button : Int, stale : BOOLEAN, field : lines]

(* The end of the text is on the screen, with the cursor behind it.        *)
AtEnd(f) ==
  /\ f.scroll \in Nat
  /\ f.scroll + f.input_x = f.strlen
  /\ f.input_x \in Columns
  /\ f.strlen <= MAX_LEN
  /\ \A i \in Columns : f.field[i] = Column(f, i, f.scroll)

InField(f) == f \in FieldStates(FieldLines) /\ (~f.stale => AtEnd(f))

FieldInv == ib.open => InField(ib)

(* Drawing the field, for the first time or after a resize.                *)
LEMMA FieldDraws ==
  ASSUME NEW lines, NEW f \in FieldStates(lines), NEW height,
         ~f.stale => f.strlen \in 0 .. MAX_LEN /\ (f.scroll = 0 \/ f.strlen >= box_width)
  PROVE  FieldDrawn(f, height) = NoField \/ InField(FieldDrawn(f, height))
<1> DEFINE long == f.strlen >= box_width
           scroll == IF long THEN f.strlen - box_width + 1 ELSE f.scroll
           first == IF long THEN scroll ELSE 0
           x == IF long THEN box_width - 1 ELSE f.strlen
           shown == [i \in Columns |-> Column(f, i, first)]
           g == [f EXCEPT !.scroll = scroll, !.input_x = x, !.field = shown]
<1>1. FieldDrawn(f, height) = IF height <= 8 THEN NoField ELSE g
  BY DEF FieldDrawn, Columns
<1>2. f.strlen \in Int /\ f.scroll \in Int /\ box_width \in Nat /\ box_width > 1 /\ MAX_LEN \in Nat
  BY FieldAssumption DEF FieldStates
<1>3. scroll \in Int /\ first \in Int /\ x \in Int
  BY <1>2
<1>4. ~f.stale => /\ scroll \in Nat /\ first = scroll /\ scroll + x = f.strlen /\ x \in Columns
                  /\ f.strlen <= MAX_LEN
  BY <1>2 DEF Columns
<1> HIDE DEF scroll, first, x
<1>5. \A i \in Columns : Column(f, i, first) \in Int
  BY <1>2, <1>3 DEF Column, NoChar, Columns
<1>6. shown \in FieldLines /\ \A i \in Columns : shown[i] = Column(f, i, first)
  BY <1>5 DEF FieldLines
<1> HIDE DEF shown
<1>7. /\ g \in FieldStates(FieldLines)
      /\ g.strlen = f.strlen /\ g.scroll = scroll /\ g.input_x = x /\ g.stale = f.stale /\ g.field = shown
  BY <1>3, <1>6 DEF FieldStates
<1> HIDE DEF g
<1>8. ~g.stale => AtEnd(g)
  BY <1>4, <1>6, <1>7 DEF AtEnd, Column
<1> QED
  BY <1>1, <1>7, <1>8 DEF InField

LEMMA FieldOpens ==
  ASSUME FieldInv, FieldOpen
  PROVE  FieldInv'
<1> DEFINE zero == 0
           true == TRUE
           false == FALSE
           none == <<>>
           before == -1
           lines == {none}
           f(n) == [open |-> true, strlen |-> n, scroll |-> zero, input_x |-> zero, button |-> before,
                    stale |-> false, field |-> none]
<1>1. PICK n \in 0 .. MAX_LEN : ib' = FieldDrawn(f(n), rows)
  BY DEF FieldOpen
<1>2. n \in Int /\ zero \in Int /\ zero = 0 /\ true \in {TRUE} /\ false \in BOOLEAN /\ before \in Int /\ none \in lines
  BY FieldAssumption
<1> HIDE DEF zero, true, false, none, before, lines
<1>3. f(n) \in FieldStates(lines) /\ f(n).strlen = n /\ f(n).scroll = 0
  BY <1>2 DEF FieldStates
<1> HIDE DEF f
<1>4. ib' = NoField \/ InField(ib')
  BY <1>1, <1>3, FieldDraws
<1> QED
  BY <1>4 DEF FieldInv, NoField

LEMMA FieldResizes ==
  ASSUME FieldInv, FieldResize
  PROVE  FieldInv'
<1> DEFINE s == ib.stale \/ (ib.scroll > 0 /\ ib.strlen < box_width)
           f == [ib EXCEPT !.stale = s]
<1>1. ib.open /\ InField(ib) /\ ib' = FieldDrawn(f, rows')
  BY DEF FieldResize, FieldInv
<1>2. ib \in FieldStates(FieldLines) /\ ib.stale \in BOOLEAN
  BY <1>1 DEF InField, FieldStates
<1>3. s \in BOOLEAN /\ (~s => ~ib.stale /\ ~(ib.scroll > 0 /\ ib.strlen < box_width))
  BY <1>2
<1> HIDE DEF s
<1>4. /\ f \in FieldStates(FieldLines)
      /\ f.stale = s /\ f.strlen = ib.strlen /\ f.scroll = ib.scroll
  BY <1>2, <1>3 DEF FieldStates
<1>5. ~s => f.strlen \in 0 .. MAX_LEN /\ (f.scroll = 0 \/ f.strlen >= box_width)
  <2> SUFFICES ASSUME ~s PROVE f.strlen \in 0 .. MAX_LEN /\ (f.scroll = 0 \/ f.strlen >= box_width)
    OBVIOUS
  <2>1. AtEnd(ib)
    BY <1>1, <1>3 DEF InField
  <2>2. box_width \in Nat /\ MAX_LEN \in Nat
    BY FieldAssumption
  <2> HIDE DEF f
  <2> QED
    BY <1>3, <1>4, <2>1, <2>2 DEF AtEnd, Columns
<1> HIDE DEF f
<1>6. ib' = NoField \/ InField(ib')
  BY <1>1, <1>4, <1>5, FieldDraws
<1> QED
  BY <1>6 DEF FieldInv, NoField

(* A character deleted: at the left margin the field first pages back.     *)
LEMMA Deletes ==
  ASSUME NEW f, InField(f), f.input_x # 0 \/ f.scroll # 0
  PROVE  InField(Backspaced(f))
<1> DEFINE g == IF f.input_x = 0 THEN PagedBack(f) ELSE [f EXCEPT !.input_x = @ - 1]
           n == Min({g.strlen, g.scroll + g.input_x})
           e == [g EXCEPT !.strlen = n]
           l == [e.field EXCEPT ![g.input_x] = NoChar]
           h == [e EXCEPT !.field = l]
<1>1. Backspaced(f) = h
  BY DEF Backspaced, Ended
<1>2. /\ f \in FieldStates(FieldLines)
      /\ f.strlen \in Int /\ f.scroll \in Int /\ f.input_x \in Int /\ f.field \in FieldLines
      /\ box_width \in Nat /\ box_width > 1
  <2>1. f \in FieldStates(FieldLines)
    BY DEF InField
  <2>2. box_width \in Nat /\ box_width > 1
    BY FieldAssumption
  <2> QED
    BY <2>1, <2>2 DEF FieldStates
<1>3. /\ g \in FieldStates(FieldLines) /\ g.strlen = f.strlen /\ g.stale = f.stale
      /\ (~f.stale => /\ g.scroll \in Nat /\ g.input_x \in Columns
                      /\ g.scroll + g.input_x \in {f.strlen, f.strlen - 1}
                      /\ \A i \in Columns : g.field[i] = Column(f, i, g.scroll))
  <2>1. CASE f.input_x = 0
    <3> DEFINE scroll == IF f.scroll < box_width - 1 THEN 0 ELSE f.scroll - (box_width - 1)
               x == f.strlen - scroll
               shown == [i \in Columns |-> Column(f, i, scroll)]
    <3>1. g = [f EXCEPT !.scroll = scroll, !.input_x = x, !.field = shown]
      BY <2>1 DEF PagedBack, Columns
    <3>2. scroll \in Int /\ x \in Int /\ scroll + x = f.strlen
      BY <1>2
    <3>3. ~f.stale => scroll \in Nat /\ x \in Columns
      BY <1>2, <2>1 DEF InField, AtEnd, Columns
    <3> HIDE DEF scroll, x
    <3>4. \A i \in Columns : Column(f, i, scroll) \in Int
      BY <1>2, <3>2 DEF Column, NoChar, Columns
    <3>5. shown \in FieldLines /\ \A i \in Columns : shown[i] = Column(f, i, scroll)
      BY <3>4 DEF FieldLines
    <3> HIDE DEF g, shown
    <3>6. /\ g \in FieldStates(FieldLines) /\ g.strlen = f.strlen /\ g.stale = f.stale
          /\ g.scroll = scroll /\ g.input_x = x /\ g.field = shown
      BY <1>2, <3>1, <3>2, <3>5 DEF FieldStates
    <3> QED
      BY <3>2, <3>3, <3>5, <3>6
  <2>2. CASE f.input_x # 0
    <3> DEFINE x == f.input_x - 1
    <3>1. g = [f EXCEPT !.input_x = x]
      BY <2>2
    <3>2. x \in Int /\ x + 1 = f.input_x
      BY <1>2
    <3> HIDE DEF g, x
    <3>3. /\ g \in FieldStates(FieldLines) /\ g.strlen = f.strlen /\ g.stale = f.stale
          /\ g.scroll = f.scroll /\ g.input_x = x /\ g.field = f.field
      BY <1>2, <3>1, <3>2 DEF FieldStates
    <3>4. ~f.stale => AtEnd(f)
      BY DEF InField
    <3>5. ~f.stale => x \in Columns /\ f.scroll + x = f.strlen - 1
      BY <1>2, <2>2, <3>2, <3>4 DEF AtEnd, Columns
    <3> QED
      BY <3>3, <3>4, <3>5 DEF AtEnd
  <2> QED
    BY <2>1, <2>2
<1> HIDE DEF g
<1>4. g.scroll \in Int /\ g.input_x \in Int /\ g.strlen \in Int /\ g.field \in FieldLines /\ g.stale \in BOOLEAN
  BY <1>3 DEF FieldStates
<1>5. n = (IF g.strlen <= g.scroll + g.input_x THEN g.strlen ELSE g.scroll + g.input_x)
  BY <1>4, MinOfTwo
<1>6. n \in Int
  BY <1>4, <1>5
<1> HIDE DEF n
<1>7. /\ e \in FieldStates(FieldLines)
      /\ e.strlen = n /\ e.scroll = g.scroll /\ e.input_x = g.input_x /\ e.stale = g.stale /\ e.field = g.field
  BY <1>3, <1>6 DEF FieldStates
<1> HIDE DEF e
<1>8. l \in FieldLines /\ \A i \in Columns : l[i] = IF i = g.input_x THEN NoChar ELSE g.field[i]
  <2> DEFINE blank == NoChar
  <2>1. blank \in Int
    BY DEF NoChar
  <2>2. l = [g.field EXCEPT ![g.input_x] = blank]
    BY <1>7
  <2> HIDE DEF blank, l
  <2>3. l \in FieldLines /\ \A i \in Columns : l[i] = IF i = g.input_x THEN blank ELSE g.field[i]
    BY <1>4, <2>1, <2>2 DEF FieldLines
  <2> QED
    BY <2>3 DEF blank
<1> HIDE DEF l
<1>9. /\ h \in FieldStates(FieldLines)
      /\ h.strlen = n /\ h.scroll = g.scroll /\ h.input_x = g.input_x /\ h.stale = f.stale /\ h.field = l
  BY <1>3, <1>7, <1>8 DEF FieldStates
<1> HIDE DEF h
<1>10. ASSUME ~f.stale PROVE AtEnd(h)
  <2>1. AtEnd(f)
    BY <1>10 DEF InField
  <2>2. g.scroll + g.input_x = n /\ n <= f.strlen
    BY <1>2, <1>3, <1>4, <1>5, <1>10
  <2>3. n <= MAX_LEN
    BY <1>2, <1>6, <2>1, <2>2, FieldAssumption DEF AtEnd
  <2>4. ASSUME NEW i \in Columns PROVE h.field[i] = Column(h, i, h.scroll)
    <3>1. g.field[i] = Column(f, i, g.scroll)
      BY <1>3, <1>10
    <3>2. i \in Int
      BY <1>2 DEF Columns
    <3>3. CASE i = g.input_x
      BY <1>4, <1>6, <1>8, <1>9, <2>2, <3>2, <3>3 DEF Column
    <3>4. CASE i # g.input_x
      <4>1. g.scroll + i < n <=> g.scroll + i < f.strlen
        BY <1>2, <1>3, <1>4, <1>6, <1>10, <2>2, <3>2, <3>4
      <4> QED
        BY <1>8, <1>9, <3>1, <3>4, <4>1 DEF Column
    <3> QED
      BY <3>3, <3>4
  <2> QED
    BY <1>3, <1>9, <1>10, <2>2, <2>3, <2>4 DEF AtEnd
<1> QED
  BY <1>1, <1>9, <1>10 DEF InField

(* A character typed, at the right margin or before it.                    *)
LEMMA Types ==
  ASSUME NEW f, InField(f)
  PROVE  InField(Typed(f))
<1> DEFINE n == f.scroll + f.input_x
           len == IF n <= f.strlen THEN n + 1 ELSE f.strlen
           scroll == f.scroll + 1
           moved == [i \in Columns |-> IF i < box_width - 1 THEN f.scroll + 1 + i ELSE f.field[i]]
           x == f.input_x + 1
           put == [f.field EXCEPT ![f.input_x] = n]
           g == [f EXCEPT !.strlen = len]
           atmargin == [g EXCEPT !.scroll = scroll, !.field = moved]
           before == [g EXCEPT !.input_x = x, !.field = put]
<1>1. f \in FieldStates(FieldLines)
  BY DEF InField
<1>2. box_width \in Nat /\ box_width > 1 /\ MAX_LEN \in Nat
  BY FieldAssumption
<1>3. f.strlen \in Int /\ f.scroll \in Int /\ f.input_x \in Int /\ f.field \in FieldLines
  BY <1>1 DEF FieldStates
<1>4. n \in Int /\ len \in Int /\ scroll \in Int /\ x \in Int
  BY <1>3
<1>5. ~f.stale => AtEnd(f)
  BY DEF InField
<1>6. ~f.stale => n = f.strlen /\ len = n + 1
  BY <1>3, <1>5 DEF AtEnd
<1>7. scroll = f.scroll + 1 /\ x = f.input_x + 1 /\ n = f.scroll + f.input_x
  OBVIOUS
<1>8. g \in FieldStates(FieldLines) /\ g.scroll = f.scroll /\ g.input_x = f.input_x /\ g.stale = f.stale
      /\ g.field = f.field /\ g.strlen = len
  <2> HIDE DEF len
  <2> QED
    BY <1>1, <1>4 DEF FieldStates
<1>9. Typed(f) = IF n >= MAX_LEN THEN f ELSE IF f.input_x = box_width - 1 THEN atmargin ELSE before
  <2>1. Stored(f, n) = g
    BY DEF Stored
  <2> HIDE DEF g
  <2> QED
    BY <1>8, <2>1 DEF Typed, Columns
<1>10. ASSUME NEW i \in Columns PROVE i \in Int
  BY <1>2 DEF Columns
<1> HIDE DEF n, len, scroll, x, g
<1>11. ASSUME n < MAX_LEN, f.input_x = box_width - 1 PROVE InField(atmargin)
  <2>1. moved \in FieldLines
    BY <1>2, <1>3, <1>10 DEF FieldLines
  <2>2. \A i \in Columns : moved[i] = IF i < box_width - 1 THEN f.scroll + 1 + i ELSE f.field[i]
    OBVIOUS
  <2> HIDE DEF moved
  <2>3. /\ atmargin \in FieldStates(FieldLines) /\ atmargin.scroll = scroll /\ atmargin.input_x = f.input_x
        /\ atmargin.stale = f.stale /\ atmargin.field = moved /\ atmargin.strlen = len
    BY <1>4, <1>8, <2>1 DEF FieldStates
  <2> HIDE DEF atmargin
  <2>4. ASSUME ~f.stale PROVE AtEnd(atmargin)
    <3>1. AtEnd(f) /\ n = f.strlen /\ len = n + 1
      BY <1>5, <1>6, <2>4
    <3>2. scroll \in Nat /\ scroll + f.input_x = len /\ len <= MAX_LEN /\ f.input_x \in Columns
      BY <1>2, <1>3, <1>4, <1>7, <1>11, <3>1 DEF AtEnd
    <3>3. ASSUME NEW i \in Columns PROVE atmargin.field[i] = Column(atmargin, i, atmargin.scroll)
      <4>1. i \in Int /\ i <= box_width - 1
        BY <1>2, <1>10 DEF Columns
      <4>2. CASE i < box_width - 1
        BY <1>2, <1>3, <1>4, <1>7, <1>11, <2>2, <2>3, <3>1, <3>2, <4>1, <4>2 DEF Column
      <4>3. CASE ~(i < box_width - 1)
        <5>1. f.field[i] = NoChar
          BY <1>2, <1>3, <1>7, <1>11, <3>1, <4>1, <4>3 DEF Column, AtEnd
        <5>2. ~(scroll + i < len)
          BY <1>2, <1>3, <1>4, <1>7, <1>11, <3>1, <3>2, <4>1, <4>3
        <5> QED
          BY <2>2, <2>3, <4>3, <5>1, <5>2 DEF Column
      <4> QED
        BY <4>2, <4>3
    <3> QED
      BY <2>3, <3>2, <3>3 DEF AtEnd
  <2> QED
    BY <2>3, <2>4 DEF InField
<1>12. ASSUME n < MAX_LEN, f.input_x # box_width - 1 PROVE InField(before)
  <2>1. put \in FieldLines /\ \A i \in Columns : put[i] = IF i = f.input_x THEN n ELSE f.field[i]
    BY <1>3, <1>4 DEF FieldLines
  <2> HIDE DEF put
  <2>2. /\ before \in FieldStates(FieldLines) /\ before.scroll = f.scroll /\ before.input_x = x
        /\ before.stale = f.stale /\ before.field = put /\ before.strlen = len
    BY <1>4, <1>8, <2>1 DEF FieldStates
  <2> HIDE DEF before
  <2>3. ASSUME ~f.stale PROVE AtEnd(before)
    <3>1. AtEnd(f) /\ n = f.strlen /\ len = n + 1
      BY <1>5, <1>6, <2>3
    <3>2. f.scroll \in Nat /\ f.scroll + x = len /\ len <= MAX_LEN /\ x \in Columns
      BY <1>2, <1>3, <1>4, <1>7, <1>12, <3>1 DEF AtEnd, Columns
    <3>3. ASSUME NEW i \in Columns PROVE before.field[i] = Column(before, i, before.scroll)
      <4>1. i \in Int
        BY <1>10
      <4>2. CASE i = f.input_x
        BY <1>3, <1>4, <1>7, <2>1, <2>2, <3>1, <4>1, <4>2 DEF Column
      <4>3. CASE i # f.input_x
        <5>1. f.field[i] = Column(f, i, f.scroll)
          BY <3>1 DEF AtEnd
        <5>2. f.scroll + i < len <=> f.scroll + i < f.strlen
          BY <1>3, <1>4, <1>7, <3>1, <4>1, <4>3
        <5> QED
          BY <2>1, <2>2, <4>3, <5>1, <5>2 DEF Column
      <4> QED
        BY <4>2, <4>3
    <3> QED
      BY <2>2, <3>2, <3>3 DEF AtEnd
  <2> QED
    BY <2>2, <2>3 DEF InField
<1>13. n >= MAX_LEN \/ n < MAX_LEN
  BY <1>2, <1>4
<1> QED
  BY <1>9, <1>11, <1>12, <1>13

LEMMA FieldStepped ==
  ASSUME FieldInv, Next
  PROVE  FieldInv'
<1>1. CASE ib' = ib
  BY <1>1 DEF FieldInv
<1>2. CASE ib' = NoField
  BY <1>2 DEF FieldInv, NoField
<1>3. CASE Backspace
  <2>1. ib.open /\ InField(ib) /\ (ib.input_x # 0 \/ ib.scroll # 0) /\ ib' = Backspaced(ib)
    BY <1>3 DEF Backspace, FieldInv
  <2> QED
    BY <2>1, Deletes DEF FieldInv
<1>4. CASE Type
  <2>1. ib.open /\ InField(ib) /\ ib' = Typed(ib)
    BY <1>4 DEF Type, FieldInv
  <2> QED
    BY <2>1, Types DEF FieldInv
<1>5. ASSUME NEW key, FieldButton(key) PROVE FieldInv'
  <2> DEFINE b == ((ib.button + 1 + IF key \in {"up", "left"} THEN 2 ELSE 1) % 3) - 1
  <2>1. ib.open /\ InField(ib) /\ ib' = [ib EXCEPT !.button = b]
    BY <1>5 DEF FieldButton, FieldInv
  <2>2. ib \in FieldStates(FieldLines) /\ ib.button \in Int
    BY <2>1 DEF InField, FieldStates
  <2>3. b \in Int
    BY <2>2
  <2> HIDE DEF b
  <2>4. /\ ib' \in FieldStates(FieldLines)
        /\ ib'.strlen = ib.strlen /\ ib'.scroll = ib.scroll /\ ib'.input_x = ib.input_x
        /\ ib'.stale = ib.stale /\ ib'.field = ib.field
    BY <2>1, <2>2, <2>3 DEF FieldStates
  <2>5. AtEnd(ib) => AtEnd(ib')
    BY <2>4 DEF AtEnd, Column
  <2> QED
    BY <2>1, <2>4, <2>5 DEF FieldInv, InField
<1>6. CASE dialog_inputbox
  <2>1. CASE \E key \in {"enter", "o", "h", "x", " "} : FieldReturn(key)
    BY <1>2, <2>1, Zenon DEF FieldReturn
  <2>2. CASE \E next \in AfterEscape : FieldEscape(next)
    BY <1>1, <1>2, <2>2, Zenon DEF FieldEscape
  <2> QED
    BY <1>3, <1>4, <1>5, <1>6, <2>1, <2>2, FieldOpens, FieldResizes, Zenon DEF dialog_inputbox
<1>7. CASE ~dialog_inputbox
  <2>1. ib' = ib
    BY <1>7, Zenon DEF Next, dialog_menu, dialog_checklist, dialog_yesno, dialog_textbox,
       YesNoOpen, YesNoButton, YesNoReturn, YesNoEscape, YesNoResize
  <2> QED
    BY <1>1, <2>1
<1> QED
  BY <1>6, <1>7

(* The input field of menuconfig shows the end of the text, its cursor is  *)
(* behind the last character, and the text fits its buffer: for every      *)
(* width of the field and of the buffer, until a resize finds a short text *)
(* scrolled.                                                               *)
THEOREM FieldAlwaysShowsText == DialogsSpec => []FieldShowsText
<1>1. DialogsInit => FieldInv
  BY DEF DialogsInit, Init, FieldInv, NoField
<1>2. FieldInv /\ [DialogsNext]_<<vars, gvars, program>> => FieldInv'
  <2> SUFFICES ASSUME FieldInv, [DialogsNext]_<<vars, gvars, program>> PROVE FieldInv'
    OBVIOUS
  <2>1. CASE UNCHANGED vars
    BY <2>1 DEF vars, FieldInv
  <2>2. CASE Next
    BY <2>2, FieldStepped
  <2> QED
    BY <2>1, <2>2 DEF DialogsNext
<1>3. FieldInv => FieldShowsText
  BY DEF FieldInv, InField, FieldShowsText, AtEnd, Columns
<1> QED
  BY <1>1, <1>2, <1>3, PTL DEF DialogsSpec

-----------------------------------------------------------------------------
(* The text window.                                                        *)

TextLine == Int
Boxes(h) == [0 .. h - 1 -> TextLine]

TextStates(text, h, boxes) ==
  [open : {TRUE}, text : {text}, begin_reached : BOOLEAN, end_reached : BOOLEAN, page_length : Nat,
   hscroll : Int, page : Int, boxh : {h}, box : boxes]

LEMMA TextIs ==
  ASSUME NEW text \in Texts
  PROVE  /\ text.lines \in Nat /\ text.lines > 0 /\ text.newline \in BOOLEAN
         /\ text.height \in Nat /\ (text.height # 0 => text.height > 4)
BY TextAssumption

LEMMA ContentOf ==
  ASSUME NEW text \in Texts, NEW k \in Int
  PROVE  /\ Content(text, k) \in TextLine
         /\ text.newline => Content(text, k) = IF k < text.lines - 1 THEN k ELSE EmptyLine
<1>1. text.lines \in Nat /\ text.newline \in BOOLEAN
  BY TextIs
<1> QED
  BY <1>1 DEF Content, Flag, EmptyLine, TextLine

LEMMA EndOf ==
  ASSUME NEW text \in Texts, NEW t, t.text = text
  PROVE  End(t) \in Int /\ (text.newline => End(t) = text.lines - 1)
<1>1. text.lines \in Nat /\ text.newline \in BOOLEAN
  BY TextIs
<1> QED
  BY <1>1 DEF End

(* One line read, and printed or not.                                      *)
LEMMA OneRead ==
  ASSUME NEW text \in Texts, NEW h \in Nat, NEW t \in TextStates(text, h, Boxes(h)),
         NEW y \in Int, NEW printed \in BOOLEAN
  PROVE  LET r == Read(t, y, printed)
             last == t.page >= text.lines - 1
         IN  /\ r \in TextStates(text, h, Boxes(h))
             /\ r.begin_reached = t.begin_reached
             /\ r.end_reached = last
             /\ r.page = IF last THEN End(t) ELSE t.page + 1
             /\ r.page_length = IF t.page_length > 0 /\ t.end_reached THEN t.page_length ELSE t.page_length + 1
             /\ \A z \in 0 .. h - 1 : r.box[z] = IF z = y /\ printed THEN Content(text, t.page) ELSE t.box[z]
<1> DEFINE S == TextStates(text, h, Boxes(h))
           last == t.page >= text.lines - 1
           page == IF last THEN End(t) ELSE t.page + 1
           g == [t EXCEPT !.end_reached = last, !.page = page]
           c == Content(text, t.page)
           box == [t.box EXCEPT ![y] = c]
           p == [g EXCEPT !.box = box]
           l == IF printed THEN p ELSE g
           ended == t.page_length > 0 /\ t.end_reached
           r == [l EXCEPT !.page_length = IF ended THEN @ ELSE @ + 1]
<1>1. /\ t.text = text /\ t.page \in Int /\ t.box \in Boxes(h) /\ t.page_length \in Nat
      /\ t.end_reached \in BOOLEAN /\ text.lines \in Nat
  BY TextIs DEF TextStates
<1>2. End(t) \in Int
  BY <1>1, EndOf
<1>3. last \in BOOLEAN /\ page \in Int
  BY <1>1, <1>2
<1>4. c \in TextLine
  BY <1>1, ContentOf
<1>5. get_line(t) = g
  BY <1>1 DEF get_line
<1>6. print_line(t, y) = [g EXCEPT !.box[y] = c]
  BY <1>1, <1>5 DEF print_line
<1>7. Read(t, y, printed) = Counted(IF printed THEN [g EXCEPT !.box[y] = c] ELSE g, ended)
  BY <1>5, <1>6 DEF Read
<1> HIDE DEF last, page, c
<1>8. /\ g \in S /\ g.begin_reached = t.begin_reached /\ g.end_reached = last /\ g.page = page
      /\ g.page_length = t.page_length /\ g.box = t.box
  BY <1>3 DEF TextStates
<1> HIDE DEF g
<1>9. [g EXCEPT !.box[y] = c] = p
  BY <1>8
<1>10. box \in Boxes(h) /\ \A z \in 0 .. h - 1 : box[z] = IF z = y THEN c ELSE t.box[z]
  BY <1>1, <1>4 DEF Boxes
<1> HIDE DEF box
<1>11. /\ p \in S /\ p.begin_reached = t.begin_reached /\ p.end_reached = last /\ p.page = page
       /\ p.page_length = t.page_length /\ p.box = box
  BY <1>8, <1>10 DEF TextStates
<1> HIDE DEF p
<1>12. /\ l \in S /\ l.begin_reached = t.begin_reached /\ l.end_reached = last /\ l.page = page
       /\ l.page_length = t.page_length
       /\ \A z \in 0 .. h - 1 : l.box[z] = IF z = y /\ printed THEN c ELSE t.box[z]
  BY <1>8, <1>10, <1>11
<1>13. Read(t, y, printed) = r
  <2>1. (IF printed THEN [g EXCEPT !.box[y] = c] ELSE g) = l
    BY <1>9
  <2> HIDE DEF l, ended
  <2>2. Read(t, y, printed) = Counted(l, ended)
    BY <1>7, <2>1
  <2> QED
    BY <2>2 DEF Counted
<1> HIDE DEF l
<1>14. /\ r \in S /\ r.begin_reached = l.begin_reached /\ r.end_reached = l.end_reached /\ r.page = l.page
       /\ r.page_length = (IF ended THEN t.page_length ELSE t.page_length + 1)
       /\ r.box = l.box
  <2> DEFINE n == IF ended THEN t.page_length ELSE t.page_length + 1
  <2>1. n \in Nat
    BY <1>1
  <2>2. r = [l EXCEPT !.page_length = n]
    BY <1>12
  <2> HIDE DEF n, r
  <2>3. /\ r \in S /\ r.begin_reached = l.begin_reached /\ r.end_reached = l.end_reached /\ r.page = l.page
        /\ r.page_length = n /\ r.box = l.box
    BY <1>12, <2>1, <2>2 DEF TextStates
  <2> QED
    BY <2>3 DEF n
<1> HIDE DEF r
<1> QED
  BY <1>12, <1>13, <1>14 DEF c, page, last

(* What i lines read from the line t.page on make of t.                    *)
Reading(t, shown, a, i) ==
  LET lines == t.text.lines IN
  /\ a.page = IF t.page + i <= lines - 1 THEN t.page + i ELSE lines - 1
  /\ i > 0 => (a.end_reached <=> t.page + i >= lines)
  /\ a.page_length = IF i <= lines - t.page THEN i ELSE lines - t.page
  /\ \A z \in 0 .. t.boxh - 1 : a.box[z] = IF z \in shown /\ z < i THEN Content(t.text, t.page + z) ELSE t.box[z]

LEMMA ReadOn ==
  ASSUME NEW text \in Texts, text.newline, NEW h \in Nat, NEW t \in TextStates(text, h, Boxes(h)),
         t.page \in 0 .. text.lines - 1, NEW shown,
         NEW a \in TextStates(text, h, Boxes(h)), NEW i \in Nat, i < h, Reading(t, shown, a, i)
  PROVE  Reading(t, shown, Read(a, i, i \in shown), i + 1)
<1> DEFINE r == Read(a, i, i \in shown)
           last == a.page >= text.lines - 1
<1>1. /\ r \in TextStates(text, h, Boxes(h))
      /\ r.end_reached = last
      /\ r.page = (IF last THEN End(a) ELSE a.page + 1)
      /\ r.page_length = (IF a.page_length > 0 /\ a.end_reached THEN a.page_length ELSE a.page_length + 1)
      /\ \A z \in 0 .. h - 1 : r.box[z] = IF z = i /\ i \in shown THEN Content(text, a.page) ELSE a.box[z]
  <2> DEFINE printed == i \in shown
  <2>1. i \in Int /\ printed \in BOOLEAN
    OBVIOUS
  <2>2. r = Read(a, i, printed)
    OBVIOUS
  <2> HIDE DEF r, printed
  <2>3. /\ r \in TextStates(text, h, Boxes(h))
        /\ r.end_reached = last
        /\ r.page = (IF last THEN End(a) ELSE a.page + 1)
        /\ r.page_length = (IF a.page_length > 0 /\ a.end_reached THEN a.page_length ELSE a.page_length + 1)
        /\ \A z \in 0 .. h - 1 : r.box[z] = IF z = i /\ printed THEN Content(text, a.page) ELSE a.box[z]
    BY <2>1, <2>2, OneRead
  <2> QED
    BY <2>3 DEF printed
<1>2. /\ t.text = text /\ a.text = text /\ t.boxh = h /\ a.page \in Int /\ a.page_length \in Nat
      /\ t.page \in Int /\ a.end_reached \in BOOLEAN
  BY DEF TextStates
<1>3. text.lines \in Nat /\ text.lines > 0
  BY TextIs
<1>4. End(a) = text.lines - 1
  BY <1>2, EndOf
<1> HIDE DEF r
<1>5. /\ a.page = (IF t.page + i <= text.lines - 1 THEN t.page + i ELSE text.lines - 1)
      /\ i > 0 => (a.end_reached <=> t.page + i >= text.lines)
      /\ a.page_length = (IF i <= text.lines - t.page THEN i ELSE text.lines - t.page)
  BY <1>2, Zenon DEF Reading
<1>6. r.page = IF t.page + (i + 1) <= text.lines - 1 THEN t.page + (i + 1) ELSE text.lines - 1
  BY <1>1, <1>2, <1>3, <1>4, <1>5
<1>7. r.end_reached <=> t.page + (i + 1) >= text.lines
  <2>1. r.end_reached <=> a.page >= text.lines - 1
    BY <1>1
  <2>2. a.page >= text.lines - 1 <=> t.page + (i + 1) >= text.lines
    BY <1>2, <1>3, <1>5
  <2> QED
    BY <2>1, <2>2
<1>8. r.page_length = IF i + 1 <= text.lines - t.page THEN i + 1 ELSE text.lines - t.page
  BY <1>1, <1>2, <1>3, <1>5
<1>9. ASSUME NEW z \in 0 .. h - 1
      PROVE  r.box[z] = IF z \in shown /\ z < i + 1 THEN Content(text, t.page + z) ELSE t.box[z]
  <2>1. a.box[z] = IF z \in shown /\ z < i THEN Content(text, t.page + z) ELSE t.box[z]
    BY <1>2 DEF Reading
  <2>2. CASE z = i
    <3>1. Content(text, a.page) = Content(text, t.page + i)
      <4>1. a.page < text.lines - 1 => a.page = t.page + i
        BY <1>2, <1>3, <1>5
      <4>2. a.page >= text.lines - 1 => t.page + i >= text.lines - 1
        BY <1>2, <1>3, <1>5
      <4>3. t.page + i \in Int
        BY <1>2
      <4> QED
        BY <1>2, <1>3, <4>1, <4>2, <4>3, ContentOf
    <3>2. z < i + 1 /\ ~(z < i)
      BY <2>2
    <3> QED
      BY <1>1, <2>1, <2>2, <3>1, <3>2
  <2>3. CASE z # i
    <3>1. z < i + 1 <=> z < i
      BY <2>3
    <3> QED
      BY <1>1, <2>1, <2>3, <3>1
  <2> QED
    BY <2>2, <2>3
<1> QED
  BY <1>2, <1>6, <1>7, <1>8, <1>9 DEF Reading, r

(* A page read: what is on the screen, and where the next one begins.      *)
LEMMA PageRead ==
  ASSUME NEW text \in Texts, NEW h \in Nat, NEW t \in TextStates(text, h, Boxes(h)), NEW shown
  PROVE  LET r == ReadPage(t, shown)
         IN  /\ r \in TextStates(text, h, Boxes(h))
             /\ r.begin_reached = t.begin_reached
             /\ text.newline /\ t.page \in 0 .. text.lines - 1 => Reading(t, shown, r, h)
<1> DEFINE S == {a \in TextStates(text, h, Boxes(h)) : a.begin_reached = t.begin_reached}
           One(a, i) == Read(a, i - 1, i - 1 \in shown)
           F == [i \in Nat |-> [a \in S |-> One(a, i)]]
           start == [t EXCEPT !.page_length = 0]
<1>1. t.text = text /\ t.boxh = h /\ t.page \in Int
  BY DEF TextStates
<1>2. start \in S /\ start.page = t.page /\ start.box = t.box /\ start.page_length = 0
  <2> DEFINE z == 0
  <2>1. z \in Nat /\ start = [t EXCEPT !.page_length = z]
    OBVIOUS
  <2> HIDE DEF z, start
  <2>2. start \in S /\ start.page = t.page /\ start.box = t.box /\ start.page_length = z
    BY <2>1 DEF TextStates
  <2> QED
    BY <2>2 DEF z
<1> HIDE DEF start
<1>3. ASSUME NEW a \in S, NEW i \in Nat PROVE One(a, i) \in S
  <2> DEFINE y == i - 1
             printed == y \in shown
             r == Read(a, y, printed)
  <2>1. y \in Int /\ printed \in BOOLEAN /\ a \in TextStates(text, h, Boxes(h)) /\ a.begin_reached = t.begin_reached
    OBVIOUS
  <2>2. One(a, i) = r
    OBVIOUS
  <2> HIDE DEF y, printed, r, One
  <2>3. r \in TextStates(text, h, Boxes(h)) /\ r.begin_reached = a.begin_reached
    BY <2>1, OneRead DEF r
  <2> QED
    BY <2>1, <2>2, <2>3
<1>4. \A i \in Nat : \A a \in S : F[i][a] \in S
  BY <1>3
<1>5. PICK f : IsRun(f, S, start, F)
  <2> HIDE DEF S, F
  <2> QED
    BY <1>2, <1>4, RunExists
<1>6. f = [i \in Nat |-> IF i = 0 THEN start ELSE One(f[i - 1], i)]
  <2>1. ASSUME NEW i \in Nat, i # 0 PROVE f[i] = One(f[i - 1], i)
    <3>1. i - 1 \in Nat /\ (i - 1) + 1 = i
      BY <2>1
    <3>2. f[(i - 1) + 1] = F[(i - 1) + 1][f[i - 1]] /\ f[i - 1] \in S
      BY <1>5, <3>1 DEF IsRun
    <3> HIDE DEF S, One
    <3> QED
      BY <3>1, <3>2
  <2> HIDE DEF One
  <2> QED
    BY <1>5, <2>1 DEF IsRun
<1> DEFINE after == CHOOSE g : g = [i \in Nat |-> IF i = 0 THEN start ELSE One(g[i - 1], i)]
<1>7. after = [i \in Nat |-> IF i = 0 THEN start ELSE One(after[i - 1], i)]
  <2> HIDE DEF One
  <2> QED
    BY <1>6
<1>8. ReadPage(t, shown) = after[h]
  BY <1>1 DEF ReadPage, Repeat, start
<1> HIDE DEF after
<1> DEFINE Good(a, i) == text.newline /\ t.page \in 0 .. text.lines - 1 /\ i <= h => Reading(t, shown, a, i)
           G == {n \in Nat : after[n] \in S /\ Good(after[n], n)}
<1>9. 0 \in G
  <2>1. after[0] = start
    BY <1>7
  <2>2. \A z \in 0 .. h - 1 : ~(z < 0)
    OBVIOUS
  <2>3. text.newline /\ t.page \in 0 .. text.lines - 1 => Reading(t, shown, start, 0)
    BY <1>1, <1>2, <2>2, TextIs DEF Reading
  <2> HIDE DEF S
  <2> QED
    BY <1>2, <2>1, <2>3
<1>10. ASSUME NEW n \in G PROVE n + 1 \in G
  <2>1. n \in Nat /\ n + 1 \in Nat /\ n + 1 # 0 /\ (n + 1) - 1 = n /\ (n + 1 <= h => n < h /\ n <= h)
    OBVIOUS
  <2>2. after[n] \in S /\ Good(after[n], n)
    OBVIOUS
  <2>3. after[n + 1] = One(after[n], n + 1)
    <3> HIDE DEF One
    <3> QED
      BY <1>7, <2>1
  <2>4. after[n + 1] = Read(after[n], n, n \in shown)
    BY <2>1, <2>3
  <2>5. after[n + 1] \in S
    <3> HIDE DEF One, S
    <3> QED
      BY <1>3, <2>1, <2>2, <2>3
  <2>6. after[n] \in TextStates(text, h, Boxes(h))
    BY <2>2
  <2>7. ASSUME text.newline, t.page \in 0 .. text.lines - 1, n + 1 <= h
        PROVE  Reading(t, shown, after[n + 1], n + 1)
    <3>1. Reading(t, shown, after[n], n) /\ n < h
      BY <2>1, <2>2, <2>7
    <3> QED
      BY <2>1, <2>4, <2>6, <2>7, <3>1, ReadOn
  <2> HIDE DEF S
  <2> QED
    BY <2>1, <2>5, <2>7
<1>11. G = Nat
  <2>1. G \subseteq Nat
    OBVIOUS
  <2> HIDE DEF G
  <2> QED
    BY <1>9, <1>10, <2>1, SetInduction
<1>12. after[h] \in S /\ Good(after[h], h)
  <2> HIDE DEF S, Good
  <2> QED
    BY <1>11
<1> QED
  BY <1>8, <1>12

(* What i steps back from the line t.page make of t: the first of them     *)
(* only takes the flag of a page at the end of the text.                   *)
Lost(t) == IF t.page = t.text.lines - 1 /\ t.end_reached THEN 1 ELSE 0
StepsBack(t, i) == IF i < Lost(t) THEN 0 ELSE i - Lost(t)

Backed(t, a, i) ==
  /\ a.page = IF StepsBack(t, i) <= t.page THEN t.page - StepsBack(t, i) ELSE 0
  /\ a.begin_reached <=> StepsBack(t, i) > 0 /\ StepsBack(t, i) >= t.page
  /\ a.page = t.text.lines - 1 /\ a.end_reached <=> i < Lost(t)

LEMMA OneBack ==
  ASSUME NEW text \in Texts, NEW h, NEW boxes, NEW a \in TextStates(text, h, boxes)
  PROVE  /\ Back(a) \in TextStates(text, h, boxes)
         /\ Back(a).page_length = a.page_length
         /\ Back(a).box = a.box
         /\ a.begin_reached => Back(a) = a
         /\ ~a.begin_reached /\ a.page = End(a) /\ a.end_reached =>
              ~Back(a).end_reached /\ ~Back(a).begin_reached /\ Back(a).page = a.page
         /\ ~a.begin_reached /\ ~(a.page = End(a) /\ a.end_reached) =>
              /\ Back(a).end_reached = a.end_reached
              /\ Back(a).begin_reached = (a.page <= 1)
              /\ Back(a).page = IF a.page >= 1 THEN a.page - 1 ELSE 0
<1> DEFINE false == FALSE
           first == a.page <= 1
           page == Max({0, a.page - 1})
           u == [a EXCEPT !.end_reached = false]
           b == [a EXCEPT !.begin_reached = first, !.page = page]
<1>1. a.page \in Int /\ a.begin_reached \in BOOLEAN /\ a.end_reached \in BOOLEAN
  BY DEF TextStates
<1>2. Back(a) = IF a.begin_reached THEN a ELSE IF a.page = End(a) /\ a.end_reached THEN u ELSE b
  BY DEF Back
<1>3. page = IF a.page >= 1 THEN a.page - 1 ELSE 0
  <2> DEFINE z == 0
             y == a.page - 1
  <2>1. z \in Int /\ y \in Int
    BY <1>1
  <2>2. page = Max({z, y})
    OBVIOUS
  <2> HIDE DEF z, y, page
  <2>3. page = IF z >= y THEN z ELSE y
    BY <2>1, <2>2, MaxOfTwo
  <2> QED
    BY <1>1, <2>3 DEF z, y
<1>4. page \in Int /\ first \in BOOLEAN /\ false \in BOOLEAN
  BY <1>1, <1>3
<1> HIDE DEF page, first, false
<1>5. /\ u \in TextStates(text, h, boxes) /\ u.page_length = a.page_length /\ u.box = a.box
      /\ u.end_reached = false /\ u.begin_reached = a.begin_reached /\ u.page = a.page
  BY <1>4 DEF TextStates
<1>6. /\ b \in TextStates(text, h, boxes) /\ b.page_length = a.page_length /\ b.box = a.box
      /\ b.end_reached = a.end_reached /\ b.begin_reached = first /\ b.page = page
  BY <1>4 DEF TextStates
<1> HIDE DEF u, b
<1> QED
  BY <1>1, <1>2, <1>3, <1>5, <1>6 DEF first, false

LEMMA BackOn ==
  ASSUME NEW text \in Texts, text.newline, NEW h, NEW boxes, NEW t \in TextStates(text, h, boxes),
         t.page \in 0 .. text.lines - 1,
         NEW a \in TextStates(text, h, boxes), NEW i \in Nat, Backed(t, a, i)
  PROVE  Backed(t, Back(a), i + 1)
<1> DEFINE r == Back(a)
           l == Lost(t)
           k == StepsBack(t, i)
           j == StepsBack(t, i + 1)
<1>1. /\ r \in TextStates(text, h, boxes)
      /\ a.begin_reached => r = a
      /\ ~a.begin_reached /\ a.page = End(a) /\ a.end_reached =>
           ~r.end_reached /\ ~r.begin_reached /\ r.page = a.page
      /\ ~a.begin_reached /\ ~(a.page = End(a) /\ a.end_reached) =>
           /\ r.end_reached = a.end_reached
           /\ r.begin_reached = (a.page <= 1)
           /\ r.page = IF a.page >= 1 THEN a.page - 1 ELSE 0
  BY OneBack
<1> HIDE DEF r
<1>2. /\ t.text = text /\ a.text = text /\ t.page \in Int /\ a.page \in Int
      /\ a.begin_reached \in BOOLEAN /\ a.end_reached \in BOOLEAN
      /\ r.page \in Int /\ r.begin_reached \in BOOLEAN /\ r.end_reached \in BOOLEAN
  BY <1>1 DEF TextStates
<1>3. End(a) = text.lines - 1 /\ text.lines \in Nat /\ text.lines > 0
  BY <1>2, EndOf, TextIs
<1>4. l \in {0, 1}
  BY DEF Lost
<1>5. k = (IF i < l THEN 0 ELSE i - l) /\ j = (IF i + 1 < l THEN 0 ELSE i + 1 - l)
  <2> HIDE DEF l
  <2> QED
    BY <1>4 DEF StepsBack, l
<1>6. /\ a.page = (IF k <= t.page THEN t.page - k ELSE 0)
      /\ a.begin_reached <=> k > 0 /\ k >= t.page
      /\ a.page = text.lines - 1 /\ a.end_reached <=> i < l
  BY <1>2 DEF Backed
<1>7. l = 1 => t.page = text.lines - 1
  BY <1>2 DEF Lost
<1> HIDE DEF l, k, j
<1>8. CASE i < l
  <2>1. k = 0 /\ j = 0 /\ i = 0 /\ l = 1
    BY <1>4, <1>5, <1>8
  <2>2. ~a.begin_reached /\ a.page = End(a) /\ a.end_reached /\ a.page = t.page
    BY <1>2, <1>3, <1>6, <1>7, <1>8, <2>1
  <2>3. r.end_reached = FALSE /\ r.begin_reached = FALSE /\ r.page = t.page
    BY <1>1, <2>2
  <2> QED
    BY <1>2, <2>1, <2>3 DEF Backed, r, l, j
<1>9. CASE ~(i < l)
  <2>1. k = i - l /\ j = k + 1 /\ k \in Nat /\ ~(i + 1 < l)
    BY <1>4, <1>5, <1>9
  <2>2. ~(a.page = text.lines - 1 /\ a.end_reached)
    BY <1>6, <1>9
  <2>3. CASE a.begin_reached
    <3>1. r = a /\ a.page = 0 /\ j > 0 /\ j >= t.page
      BY <1>1, <1>2, <1>6, <2>1, <2>3
    <3>2. r.page = IF j <= t.page THEN t.page - j ELSE 0
      BY <1>2, <1>6, <2>1, <2>3, <3>1
    <3> QED
      BY <1>2, <2>1, <2>2, <2>3, <3>1, <3>2 DEF Backed, r, l, j
  <2>4. CASE ~a.begin_reached
    <3>1. /\ r.end_reached = a.end_reached
          /\ r.begin_reached = (a.page <= 1)
          /\ r.page = IF a.page >= 1 THEN a.page - 1 ELSE 0
      BY <1>1, <1>3, <2>2, <2>4
    <3>2. ~(k > 0 /\ k >= t.page)
      BY <1>6, <2>4
    <3>3. r.page = IF j <= t.page THEN t.page - j ELSE 0
      BY <1>2, <1>6, <2>1, <3>1, <3>2
    <3>4. a.page <= 1 <=> j > 0 /\ j >= t.page
      BY <1>2, <1>6, <2>1, <3>2
    <3>5. ~(r.page = text.lines - 1 /\ r.end_reached)
      <4> SUFFICES ASSUME r.page = text.lines - 1, r.end_reached PROVE FALSE
        OBVIOUS
      <4>1. a.page # text.lines - 1 /\ a.page <= text.lines - 1
        BY <1>2, <1>3, <1>6, <2>1, <2>2, <3>1
      <4> QED
        BY <1>2, <1>3, <1>6, <2>1, <3>1, <4>1
    <3> QED
      BY <1>2, <2>1, <3>1, <3>3, <3>4, <3>5 DEF Backed, r, l, j
  <2> QED
    BY <2>3, <2>4
<1> QED
  BY <1>8, <1>9

(* Going back by lines.                                                    *)
LEMMA LinesBack ==
  ASSUME NEW text \in Texts, NEW h, NEW boxes, NEW t \in TextStates(text, h, boxes), NEW n \in Nat
  PROVE  LET r == back_lines(t, n)
         IN  /\ r \in TextStates(text, h, boxes)
             /\ r.page_length = t.page_length /\ r.box = t.box
             /\ text.newline /\ t.page \in 0 .. text.lines - 1 => Backed(t, r, n)
<1> DEFINE S == {a \in TextStates(text, h, boxes) : a.page_length = t.page_length /\ a.box = t.box}
           One(a, i) == Back(a)
           F == [i \in Nat |-> [a \in S |-> Back(a)]]
           false == FALSE
           start == [t EXCEPT !.begin_reached = false]
<1>1. t.text = text /\ t.page \in Int /\ t.end_reached \in BOOLEAN
  BY DEF TextStates
<1>2. /\ start \in S /\ start.page = t.page /\ start.begin_reached = false
      /\ start.end_reached = t.end_reached
  <2>1. false \in BOOLEAN
    OBVIOUS
  <2> HIDE DEF false
  <2> QED
    BY <2>1 DEF TextStates
<1> HIDE DEF start
<1>3. ASSUME NEW a \in S PROVE Back(a) \in S
  <2> DEFINE r == Back(a)
  <2>1. a \in TextStates(text, h, boxes) /\ a.page_length = t.page_length /\ a.box = t.box
    OBVIOUS
  <2>2. r \in TextStates(text, h, boxes) /\ r.page_length = a.page_length /\ r.box = a.box
    BY <2>1, OneBack
  <2> HIDE DEF r
  <2>3. r \in S
    BY <2>1, <2>2
  <2> QED
    BY <2>3 DEF r
<1>4. \A i \in Nat : \A a \in S : F[i][a] \in S
  BY <1>3
<1>5. PICK f : IsRun(f, S, start, F)
  <2> HIDE DEF S, F
  <2> QED
    BY <1>2, <1>4, RunExists
<1>6. f = [i \in Nat |-> IF i = 0 THEN start ELSE Back(f[i - 1])]
  <2>1. ASSUME NEW i \in Nat, i # 0 PROVE f[i] = Back(f[i - 1])
    <3>1. i - 1 \in Nat /\ (i - 1) + 1 = i
      BY <2>1
    <3>2. f[(i - 1) + 1] = F[(i - 1) + 1][f[i - 1]] /\ f[i - 1] \in S
      BY <1>5, <3>1 DEF IsRun
    <3> HIDE DEF S
    <3> QED
      BY <3>1, <3>2
  <2> QED
    BY <1>5, <2>1 DEF IsRun
<1> DEFINE after == CHOOSE g : g = [i \in Nat |-> IF i = 0 THEN start ELSE Back(g[i - 1])]
<1>7. after = [i \in Nat |-> IF i = 0 THEN start ELSE Back(after[i - 1])]
  BY <1>6
<1>8. back_lines(t, n) = after[n]
  BY DEF back_lines, Repeat, start
<1> HIDE DEF after
<1> DEFINE Good(a, i) == text.newline /\ t.page \in 0 .. text.lines - 1 => Backed(t, a, i)
           G == {i \in Nat : after[i] \in S /\ Good(after[i], i)}
<1>9. 0 \in G
  <2>1. after[0] = start
    BY <1>7
  <2>2. text.newline /\ t.page \in 0 .. text.lines - 1 => Backed(t, start, 0)
    <3>1. Lost(t) \in {0, 1} /\ (0 < Lost(t) <=> t.page = text.lines - 1 /\ t.end_reached)
      BY <1>1 DEF Lost
    <3>2. StepsBack(t, 0) = 0
      BY <3>1 DEF StepsBack
    <3>3. start.page = t.page /\ ~start.begin_reached /\ start.end_reached = t.end_reached
      BY <1>2
    <3> QED
      BY <1>1, <3>1, <3>2, <3>3 DEF Backed
  <2> HIDE DEF S
  <2> QED
    BY <1>2, <2>1, <2>2
<1>10. ASSUME NEW i \in G PROVE i + 1 \in G
  <2>1. i \in Nat /\ i + 1 \in Nat /\ i + 1 # 0 /\ (i + 1) - 1 = i
    OBVIOUS
  <2>2. after[i] \in S /\ Good(after[i], i)
    OBVIOUS
  <2>3. after[i + 1] = Back(after[i])
    BY <1>7, <2>1
  <2>4. after[i] \in TextStates(text, h, boxes)
    BY <2>2
  <2>5. after[i + 1] \in S
    <3> HIDE DEF S
    <3> QED
      BY <1>3, <2>2, <2>3
  <2>6. ASSUME text.newline, t.page \in 0 .. text.lines - 1
        PROVE  Backed(t, after[i + 1], i + 1)
    <3>1. Backed(t, after[i], i)
      BY <2>2, <2>6
    <3> QED
      BY <2>1, <2>3, <2>4, <2>6, <3>1, BackOn
  <2> HIDE DEF S
  <2> QED
    BY <2>1, <2>5, <2>6
<1>11. G = Nat
  <2>1. G \subseteq Nat
    OBVIOUS
  <2> HIDE DEF G
  <2> QED
    BY <1>9, <1>10, <2>1, SetInduction
<1>12. after[n] \in S /\ Good(after[n], n)
  <2> HIDE DEF S, Good
  <2> QED
    BY <1>11
<1> QED
  BY <1>8, <1>12

(* The window shows the lines from top on; a page ends with the text, and  *)
(* at its beginning the flag says so, or there is nothing to go back to.   *)
TextWindow(t, top) ==
  LET lines == t.text.lines IN
  /\ \A y \in 0 .. t.boxh - 1 : t.box[y] = Content(t.text, top + y)
  /\ t.page = IF top + t.boxh <= lines - 1 THEN top + t.boxh ELSE lines - 1
  /\ t.begin_reached => top = 0
  /\ top = 0 => t.begin_reached \/ lines = 1
  /\ t.end_reached <=> top + t.boxh >= lines
  /\ t.page_length = IF t.boxh <= lines - top THEN t.boxh ELSE lines - top

TextOf(t) == t.text \in Texts /\ t.boxh \in Nat \ {0} /\ t \in TextStates(t.text, t.boxh, Boxes(t.boxh))

InText(t) == TextOf(t) /\ (t.text.newline => \E top \in 0 .. t.text.lines - 1 : TextWindow(t, top))

TextInv == rows \in Rows /\ (tb.open => InText(tb))

(* A place in the text to print from.                                      *)
Place(t) ==
  /\ t.page \in 0 .. t.text.lines - 1
  /\ t.begin_reached => t.page = 0
  /\ t.page = 0 => t.begin_reached \/ t.text.lines = 1

LEMMA BackPlaced ==
  ASSUME NEW text \in Texts, NEW h, NEW boxes, NEW t \in TextStates(text, h, boxes), NEW n \in Nat \ {0},
         text.newline => t.page \in 0 .. text.lines - 1
  PROVE  LET r == back_lines(t, n)
         IN  /\ r \in TextStates(text, h, boxes)
             /\ r.page_length = t.page_length /\ r.box = t.box
             /\ text.newline => Backed(t, r, n) /\ Place(r)
<1> DEFINE r == back_lines(t, n)
<1>1. /\ r \in TextStates(text, h, boxes)
      /\ r.page_length = t.page_length /\ r.box = t.box
      /\ text.newline => Backed(t, r, n)
  BY LinesBack
<1> HIDE DEF r
<1>2. t.text = text /\ r.text = text /\ t.page \in Int /\ text.lines \in Nat /\ text.lines > 0
  BY <1>1, TextIs DEF TextStates
<1>3. ASSUME text.newline PROVE Place(r)
  <2> DEFINE k == StepsBack(t, n)
             l == Lost(t)
  <2>1. l \in {0, 1} /\ (l = 1 => t.page = text.lines - 1)
    BY <1>2 DEF Lost
  <2>2. k = IF n < l THEN 0 ELSE n - l
    <3> HIDE DEF l
    <3> QED
      BY <2>1 DEF StepsBack, l
  <2>3. /\ r.page = (IF k <= t.page THEN t.page - k ELSE 0)
        /\ r.begin_reached <=> k > 0 /\ k >= t.page
    BY <1>1, <1>3 DEF Backed
  <2> HIDE DEF k, l
  <2>4. k \in Nat /\ (k = 0 => l = 1)
    BY <2>1, <2>2
  <2>5. t.page \in 0 .. text.lines - 1
    BY <1>3
  <2>6. r.page \in 0 .. text.lines - 1
    BY <1>2, <2>3, <2>4, <2>5
  <2>7. r.begin_reached => r.page = 0
    BY <1>2, <2>3, <2>4, <2>5
  <2>8. r.page = 0 => r.begin_reached \/ text.lines = 1
    BY <1>2, <2>1, <2>3, <2>4, <2>5
  <2> QED
    BY <1>2, <2>6, <2>7, <2>8 DEF Place
<1> QED
  BY <1>1, <1>3 DEF r

(* Printing the page from such a place.                                    *)
LEMMA PagePrinted ==
  ASSUME NEW text \in Texts, NEW h \in Nat \ {0}, NEW t \in TextStates(text, h, Boxes(h)),
         text.newline => Place(t)
  PROVE  InText(print_page(t))
<1> DEFINE r == print_page(t)
           shown == 0 .. h - 1
<1>1. t.text = text /\ t.boxh = h
  BY DEF TextStates
<1>2. r = ReadPage(t, shown)
  BY <1>1 DEF print_page
<1>3. text.newline => t.page \in 0 .. text.lines - 1
  BY <1>1 DEF Place
<1>4. /\ r \in TextStates(text, h, Boxes(h))
      /\ r.begin_reached = t.begin_reached
      /\ text.newline => Reading(t, shown, r, h)
  BY <1>2, <1>3, PageRead
<1> HIDE DEF r
<1>5. r.text = text /\ r.boxh = h
  BY <1>4 DEF TextStates
<1>6. TextOf(r)
  BY <1>4, <1>5 DEF TextOf
<1>7. ASSUME text.newline PROVE TextWindow(r, t.page)
  <2>1. /\ r.page = (IF t.page + h <= text.lines - 1 THEN t.page + h ELSE text.lines - 1)
        /\ r.end_reached <=> t.page + h >= text.lines
        /\ r.page_length = (IF h <= text.lines - t.page THEN h ELSE text.lines - t.page)
    BY <1>1, <1>4, <1>7 DEF Reading
  <2>2. ASSUME NEW y \in 0 .. h - 1 PROVE r.box[y] = Content(text, t.page + y)
    <3>1. y \in shown /\ y < h
      OBVIOUS
    <3> HIDE DEF shown
    <3> QED
      BY <1>1, <1>4, <1>7, <3>1 DEF Reading
  <2>3. Place(t)
    BY <1>7
  <2> QED
    BY <1>1, <1>4, <1>5, <2>1, <2>2, <2>3 DEF TextWindow, Place
<1> QED
  BY <1>1, <1>3, <1>5, <1>6, <1>7 DEF InText, r

(* Drawing the whole dialog, for the first time or after a resize.         *)
LEMMA TextDraws ==
  ASSUME NEW text \in Texts, NEW h, NEW boxes, NEW t \in TextStates(text, h, boxes),
         text.newline => Place(t), NEW height \in Rows
  PROVE  TextDrawn(t, height) = NoText \/ InText(TextDrawn(t, height))
<1> DEFINE boxh == (IF text.height # 0 THEN text.height ELSE height - 4) - 4
           box == [y \in 0 .. boxh - 1 |-> EmptyLine]
           d == [t EXCEPT !.boxh = boxh, !.box = box]
<1>1. t.text = text
  BY DEF TextStates
<1>2. TextDrawn(t, height) = IF height < 8 THEN NoText ELSE print_page(d)
  BY <1>1 DEF TextDrawn
<1>3. ASSUME ~(height < 8) PROVE InText(print_page(d))
  <2>1. height \in Nat /\ height # 8
    BY RowsAssumption, NoEmptyBox
  <2>2. boxh \in Nat \ {0}
    BY <1>3, <2>1, TextIs
  <2> HIDE DEF boxh
  <2>3. box \in Boxes(boxh)
    BY DEF Boxes, EmptyLine, TextLine
  <2> HIDE DEF box
  <2>4. /\ d \in TextStates(text, boxh, Boxes(boxh))
        /\ d.page = t.page /\ d.begin_reached = t.begin_reached /\ d.text = t.text
    BY <2>3 DEF TextStates
  <2> HIDE DEF d
  <2>5. text.newline => Place(d)
    BY <2>4 DEF Place
  <2> QED
    BY <2>2, <2>4, <2>5, PagePrinted
<1> QED
  BY <1>2, <1>3

LEMMA TextOpens ==
  ASSUME TextInv, TextOpen
  PROVE  TextInv'
<1> DEFINE zero == 0
           true == TRUE
           false == FALSE
           none == <<>>
           boxes == {none}
           t(text) == [open |-> true, text |-> text, begin_reached |-> true, end_reached |-> false,
                       page_length |-> zero, hscroll |-> zero, page |-> zero, boxh |-> zero, box |-> none]
<1>1. PICK text \in Texts : tb' = TextDrawn(t(text), rows) /\ rows' = rows
  BY DEF TextOpen
<1>2. zero \in Nat /\ zero \in Int /\ zero = 0 /\ true \in BOOLEAN /\ true \in {TRUE} /\ false \in BOOLEAN /\ none \in boxes
  OBVIOUS
<1> HIDE DEF zero, true, false, none, boxes
<1>3. /\ t(text) \in TextStates(text, zero, boxes)
      /\ t(text).page = 0 /\ t(text).begin_reached = TRUE /\ t(text).text = text
  BY <1>2 DEF TextStates
<1> HIDE DEF t
<1>4. Place(t(text))
  BY <1>3, TextIs DEF Place
<1>5. tb' = NoText \/ InText(tb')
  BY <1>1, <1>3, <1>4, TextDraws DEF TextInv
<1> QED
  BY <1>1, <1>5 DEF TextInv, NoText

LEMMA TextResizes ==
  ASSUME TextInv, TextResize
  PROVE  TextInv'
<1> DEFINE n == tb.boxh + 4
           r == back_lines(tb, n)
<1>1. tb.open /\ InText(tb) /\ rows' \in Rows /\ tb' = TextDrawn(r, rows')
  BY DEF TextInv, TextResize
<1>2. tb.text \in Texts /\ tb.boxh \in Nat \ {0} /\ tb \in TextStates(tb.text, tb.boxh, Boxes(tb.boxh))
  BY <1>1 DEF InText, TextOf
<1>3. tb.text.newline => tb.page \in 0 .. tb.text.lines - 1
  <2>1. tb.text.lines \in Nat /\ tb.text.lines > 0
    BY <1>2, TextIs
  <2> QED
    BY <1>1, <1>2, <2>1 DEF InText, TextWindow
<1>4. n \in Nat \ {0}
  BY <1>2
<1> HIDE DEF n
<1>5. r \in TextStates(tb.text, tb.boxh, Boxes(tb.boxh)) /\ (tb.text.newline => Place(r))
  BY <1>2, <1>3, <1>4, BackPlaced
<1> HIDE DEF r
<1>6. tb' = NoText \/ InText(tb')
  BY <1>1, <1>2, <1>5, TextDraws
<1> QED
  BY <1>1, <1>6 DEF TextInv, NoText

LEMMA InTextIs ==
  ASSUME NEW t, InText(t)
  PROVE  /\ t.text \in Texts /\ t.boxh \in Nat \ {0} /\ t \in TextStates(t.text, t.boxh, Boxes(t.boxh))
         /\ t.text.lines \in Nat /\ t.text.lines > 0 /\ t.boxh \in Nat /\ t.boxh > 0
         /\ t.page_length \in Nat /\ t.page \in Int /\ t.hscroll \in Int /\ End(t) \in Int
         /\ t.begin_reached \in BOOLEAN /\ t.end_reached \in BOOLEAN /\ t.box \in Boxes(t.boxh)
         /\ t.text.newline => End(t) = t.text.lines - 1 /\ t.page \in 0 .. t.text.lines - 1 /\ t.page_length > 0
<1>1. t.text \in Texts /\ t.boxh \in Nat \ {0} /\ t \in TextStates(t.text, t.boxh, Boxes(t.boxh))
  BY DEF InText, TextOf
<1>2. t.text.lines \in Nat /\ t.text.lines > 0
  BY <1>1, TextIs
<1>3. End(t) \in Int /\ (t.text.newline => End(t) = t.text.lines - 1)
  BY <1>1, EndOf
<1>4. /\ t.page_length \in Nat /\ t.page \in Int /\ t.hscroll \in Int
      /\ t.begin_reached \in BOOLEAN /\ t.end_reached \in BOOLEAN /\ t.box \in Boxes(t.boxh)
  BY <1>1 DEF TextStates
<1>5. t.text.newline => t.page \in 0 .. t.text.lines - 1 /\ t.page_length > 0
  BY <1>1, <1>2 DEF InText, TextWindow
<1> QED
  BY <1>1, <1>2, <1>3, <1>4, <1>5

(* Back from a place in the text, and the page printed.                    *)
LEMMA BackAndPrinted ==
  ASSUME NEW text \in Texts, NEW h \in Nat \ {0}, NEW t \in TextStates(text, h, Boxes(h)), NEW n \in Nat,
         text.newline => t.page \in 0 .. text.lines - 1 /\ n # 0
  PROVE  InText(print_page(back_lines(t, n)))
<1> DEFINE r == back_lines(t, n)
<1>1. r \in TextStates(text, h, Boxes(h))
  BY LinesBack
<1>2. text.newline => Place(r)
  BY BackPlaced
<1> HIDE DEF r
<1>3. InText(print_page(r))
  BY <1>1, <1>2, PagePrinted
<1> QED
  BY <1>3 DEF r

(* The moves that print a whole page.                                      *)
LEMMA FirstPageShown == ASSUME NEW t, InText(t) PROVE InText(FirstPage(t))
<1> DEFINE true == TRUE
           zero == 0
           u == [t EXCEPT !.begin_reached = true, !.page = zero]
<1>1. /\ t.text \in Texts /\ t.boxh \in Nat \ {0} /\ t \in TextStates(t.text, t.boxh, Boxes(t.boxh))
      /\ t.text.lines \in Nat /\ t.text.lines > 0
  BY InTextIs
<1>2. true \in BOOLEAN /\ zero \in Int /\ zero = 0 /\ true = TRUE
  OBVIOUS
<1>3. FirstPage(t) = print_page(u)
  BY DEF FirstPage
<1> HIDE DEF true, zero
<1>4. u \in TextStates(t.text, t.boxh, Boxes(t.boxh)) /\ u.page = 0 /\ u.begin_reached /\ u.text = t.text
  BY <1>1, <1>2 DEF TextStates
<1> HIDE DEF u
<1>5. Place(u)
  BY <1>1, <1>4 DEF Place
<1> QED
  BY <1>1, <1>3, <1>4, <1>5, PagePrinted

LEMMA LastPageShown == ASSUME NEW t, InText(t) PROVE InText(LastPage(t))
<1> DEFINE true == TRUE
           last == End(t)
           u == [t EXCEPT !.end_reached = true, !.page = last]
<1>1. /\ t.text \in Texts /\ t.boxh \in Nat \ {0} /\ t \in TextStates(t.text, t.boxh, Boxes(t.boxh))
      /\ t.text.lines \in Nat /\ t.text.lines > 0 /\ last \in Int /\ (t.text.newline => last = t.text.lines - 1)
  BY InTextIs
<1>2. true \in BOOLEAN
  OBVIOUS
<1>3. LastPage(t) = print_page(back_lines(u, t.boxh))
  BY DEF LastPage
<1> HIDE DEF true, last
<1>4. u \in TextStates(t.text, t.boxh, Boxes(t.boxh)) /\ u.page = last
  BY <1>1, <1>2 DEF TextStates
<1> HIDE DEF u
<1>5. t.text.newline => u.page \in 0 .. t.text.lines - 1 /\ t.boxh # 0
  BY <1>1, <1>4
<1> QED
  BY <1>1, <1>3, <1>4, <1>5, BackAndPrinted

LEMMA PreviousPageShown == ASSUME NEW t, InText(t) PROVE InText(PreviousPage(t))
<1> DEFINE n == t.page_length + t.boxh
<1>1. /\ t.text \in Texts /\ t.boxh \in Nat \ {0} /\ t \in TextStates(t.text, t.boxh, Boxes(t.boxh))
      /\ t.page_length \in Nat /\ (t.text.newline => t.page \in 0 .. t.text.lines - 1)
  BY InTextIs
<1>2. n \in Nat /\ n # 0
  BY <1>1
<1>3. PreviousPage(t) = print_page(back_lines(t, n))
  BY DEF PreviousPage
<1> HIDE DEF n
<1> QED
  BY <1>1, <1>2, <1>3, BackAndPrinted

LEMMA AsideShown == ASSUME NEW t, InText(t), NEW to \in Int PROVE InText(Aside(t, to))
<1> DEFINE u == [t EXCEPT !.hscroll = to]
<1>1. /\ t.text \in Texts /\ t.boxh \in Nat \ {0} /\ t \in TextStates(t.text, t.boxh, Boxes(t.boxh))
      /\ t.page_length \in Nat
      /\ (t.text.newline => t.page \in 0 .. t.text.lines - 1 /\ t.page_length > 0)
  BY InTextIs
<1>2. Aside(t, to) = print_page(back_lines(u, t.page_length))
  BY DEF Aside
<1>3. u \in TextStates(t.text, t.boxh, Boxes(t.boxh)) /\ u.page = t.page
  BY <1>1 DEF TextStates
<1> HIDE DEF u
<1>4. t.text.newline => u.page \in 0 .. t.text.lines - 1 /\ t.page_length # 0
  BY <1>1, <1>3
<1> QED
  BY <1>1, <1>2, <1>3, <1>4, BackAndPrinted

LEMMA NextPageShown == ASSUME NEW t, InText(t), ~t.end_reached PROVE InText(NextPage(t))
<1> DEFINE false == FALSE
           u == [t EXCEPT !.begin_reached = false]
<1>1. /\ t.text \in Texts /\ t.boxh \in Nat \ {0} /\ t \in TextStates(t.text, t.boxh, Boxes(t.boxh))
      /\ t.text.lines \in Nat /\ t.text.lines > 0 /\ t.page \in Int
      /\ (t.text.newline => t.page \in 0 .. t.text.lines - 1)
  BY InTextIs
<1>2. false \in BOOLEAN /\ ~false
  OBVIOUS
<1>3. NextPage(t) = print_page(u)
  BY DEF NextPage
<1> HIDE DEF false
<1>4. /\ u \in TextStates(t.text, t.boxh, Boxes(t.boxh)) /\ u.page = t.page /\ u.text = t.text
      /\ ~u.begin_reached
  BY <1>1, <1>2 DEF TextStates
<1> HIDE DEF u
<1>5. t.text.newline => t.page # 0
  BY <1>1 DEF InText, TextWindow
<1>6. t.text.newline => Place(u)
  BY <1>1, <1>4, <1>5 DEF Place
<1> QED
  BY <1>1, <1>3, <1>4, <1>6, PagePrinted

(* The box moved by a line or by any number of them.                       *)
LEMMA BoxMoved ==
  ASSUME NEW text, NEW h \in Nat, NEW t \in TextStates(text, h, Boxes(h)), NEW n \in Int
  PROVE  /\ wscrl_box(t, n) \in TextStates(text, h, Boxes(h))
         /\ wscrl_box(t, n).page = t.page /\ wscrl_box(t, n).page_length = t.page_length
         /\ wscrl_box(t, n).begin_reached = t.begin_reached /\ wscrl_box(t, n).end_reached = t.end_reached
         /\ \A y \in 0 .. h - 1 : y + n \in 0 .. h - 1 => wscrl_box(t, n).box[y] = t.box[y + n]
         /\ \A y \in 0 .. h - 1 : y + n \notin 0 .. h - 1 => wscrl_box(t, n).box[y] = EmptyLine
<1> DEFINE box == [y \in DOMAIN t.box |-> IF y + n \in DOMAIN t.box THEN t.box[y + n] ELSE EmptyLine]
           blank == EmptyLine
           r == [t EXCEPT !.box = box]
<1>1. t.box \in Boxes(h) /\ DOMAIN t.box = 0 .. h - 1
  BY DEF TextStates, Boxes
<1>2. blank \in TextLine
  BY DEF EmptyLine, TextLine
<1>3. wscrl_box(t, n) = r
  BY DEF wscrl_box
<1> HIDE DEF blank
<1>4. box = [y \in 0 .. h - 1 |-> IF y + n \in 0 .. h - 1 THEN t.box[y + n] ELSE blank]
  BY <1>1 DEF blank
<1> HIDE DEF box
<1>5. box \in Boxes(h)
  BY <1>1, <1>2, <1>4 DEF Boxes
<1>6. /\ r \in TextStates(text, h, Boxes(h))
      /\ r.page = t.page /\ r.page_length = t.page_length
      /\ r.begin_reached = t.begin_reached /\ r.end_reached = t.end_reached /\ r.box = box
  BY <1>5 DEF TextStates
<1> HIDE DEF r
<1>7. \A y \in 0 .. h - 1 : y + n \in 0 .. h - 1 => box[y] = t.box[y + n]
  BY <1>4
<1>8. \A y \in 0 .. h - 1 : y + n \notin 0 .. h - 1 => box[y] = EmptyLine
  BY <1>4 DEF blank
<1> QED
  BY <1>3, <1>6, <1>7, <1>8

LEMMA LinePrinted ==
  ASSUME NEW text \in Texts, NEW h \in Nat, NEW t \in TextStates(text, h, Boxes(h)), NEW y \in Int
  PROVE  /\ print_line(t, y) \in TextStates(text, h, Boxes(h))
         /\ print_line(t, y).begin_reached = t.begin_reached
         /\ print_line(t, y).page_length = t.page_length
         /\ print_line(t, y).end_reached <=> t.page >= text.lines - 1
         /\ print_line(t, y).page = IF t.page >= text.lines - 1 THEN End(t) ELSE t.page + 1
         /\ \A z \in 0 .. h - 1 : print_line(t, y).box[z] = IF z = y THEN Content(text, t.page) ELSE t.box[z]
<1> DEFINE S == TextStates(text, h, Boxes(h))
           last == t.page >= text.lines - 1
           page == IF last THEN End(t) ELSE t.page + 1
           g == [t EXCEPT !.end_reached = last, !.page = page]
           c == Content(text, t.page)
           box == [t.box EXCEPT ![y] = c]
           p == [g EXCEPT !.box = box]
<1>1. /\ t.text = text /\ t.page \in Int /\ t.box \in Boxes(h) /\ text.lines \in Nat
  BY TextIs DEF TextStates
<1>2. End(t) \in Int
  BY <1>1, EndOf
<1>3. last \in BOOLEAN /\ page \in Int
  BY <1>1, <1>2
<1>4. c \in TextLine
  BY <1>1, ContentOf
<1>5. get_line(t) = g
  BY <1>1 DEF get_line
<1>6. print_line(t, y) = [g EXCEPT !.box[y] = c]
  BY <1>1, <1>5 DEF print_line
<1> HIDE DEF last, page, c
<1>7. /\ g \in S /\ g.begin_reached = t.begin_reached /\ g.end_reached = last /\ g.page = page
      /\ g.page_length = t.page_length /\ g.box = t.box
  BY <1>3 DEF TextStates
<1> HIDE DEF g
<1>8. [g EXCEPT !.box[y] = c] = p
  BY <1>7
<1>9. box \in Boxes(h) /\ \A z \in 0 .. h - 1 : box[z] = IF z = y THEN c ELSE t.box[z]
  BY <1>1, <1>4 DEF Boxes
<1> HIDE DEF box
<1>10. /\ p \in S /\ p.begin_reached = t.begin_reached /\ p.end_reached = last /\ p.page = page
       /\ p.page_length = t.page_length /\ p.box = box
  BY <1>7, <1>9 DEF TextStates
<1> HIDE DEF p
<1> QED
  BY <1>6, <1>8, <1>9, <1>10 DEF c, page, last

LEMMA NextLineShown == ASSUME NEW t, InText(t), ~t.end_reached PROVE InText(NextLine(t))
<1> DEFINE text == t.text
           h == t.boxh
           false == FALSE
           u == [t EXCEPT !.begin_reached = false]
           one == 1
           w == wscrl_box(u, one)
           y == h - 1
           r == print_line(w, y)
<1>1. /\ text \in Texts /\ h \in Nat /\ h > 0 /\ t \in TextStates(text, h, Boxes(h))
      /\ text.lines \in Nat /\ text.lines > 0 /\ t.page \in Int /\ t.page_length \in Nat
      /\ (text.newline => t.page \in 0 .. text.lines - 1 /\ End(t) = text.lines - 1)
  BY InTextIs
<1>2. r = NextLine(t)
  BY DEF NextLine
<1>3. false \in BOOLEAN /\ ~false /\ one \in Int /\ one = 1 /\ y \in Int
  BY <1>1
<1> HIDE DEF text, h, false, one
<1>4. /\ u \in TextStates(text, h, Boxes(h))
      /\ u.page = t.page /\ u.page_length = t.page_length /\ ~u.begin_reached
      /\ u.end_reached = t.end_reached /\ u.box = t.box
  BY <1>1, <1>3 DEF TextStates
<1> HIDE DEF u
<1>5. /\ w \in TextStates(text, h, Boxes(h))
      /\ w.page = u.page /\ w.page_length = u.page_length /\ w.begin_reached = u.begin_reached
      /\ \A z \in 0 .. h - 1 : z + one \in 0 .. h - 1 => w.box[z] = u.box[z + one]
  <2>1. one \in Int /\ h \in Nat
    BY <1>1, <1>3
  <2>2. u \in TextStates(text, h, Boxes(h))
    BY <1>4
  <2> QED
    BY <2>1, <2>2, BoxMoved
<1> HIDE DEF w, y
<1>6. /\ r \in TextStates(text, h, Boxes(h))
      /\ r.begin_reached = w.begin_reached /\ r.page_length = w.page_length
      /\ r.end_reached <=> w.page >= text.lines - 1
      /\ r.page = (IF w.page >= text.lines - 1 THEN End(w) ELSE w.page + 1)
      /\ \A z \in 0 .. h - 1 : r.box[z] = IF z = y THEN Content(text, w.page) ELSE w.box[z]
  <2>1. y \in Int
    BY <1>3
  <2>2. h \in Nat /\ text \in Texts
    BY <1>1
  <2> HIDE DEF r
  <2> QED
    BY <1>5, <2>1, <2>2, LinePrinted DEF r
<1> HIDE DEF r
<1>7. r.text = text /\ r.boxh = h /\ w.text = text /\ t.text = text /\ t.boxh = h
  BY <1>1, <1>5, <1>6 DEF TextStates
<1>8. TextOf(r)
  BY <1>1, <1>6, <1>7 DEF TextOf
<1>9. ASSUME text.newline
      PROVE  \E top \in 0 .. text.lines - 1 : TextWindow(r, top)
  <2>1. PICK top \in 0 .. text.lines - 1 : TextWindow(t, top)
    BY <1>7, <1>9 DEF InText
  <2>2. /\ t.page = (IF top + h <= text.lines - 1 THEN top + h ELSE text.lines - 1)
        /\ (t.end_reached <=> top + h >= text.lines)
        /\ t.page_length = (IF h <= text.lines - top THEN h ELSE text.lines - top)
        /\ \A z \in 0 .. h - 1 : t.box[z] = Content(text, top + z)
    BY <1>7, <2>1 DEF TextWindow
  <2> DEFINE next == top + 1
  <2>3. top + h < text.lines /\ t.page = top + h /\ w.page = top + h /\ next \in 0 .. text.lines - 1 /\ next \in Nat
        /\ next = top + 1 /\ next # 0
    BY <1>1, <1>4, <1>5, <2>2
  <2> HIDE DEF next
  <2>4. End(w) = text.lines - 1
    BY <1>1, <1>7, <1>9, EndOf
  <2>5. r.page = IF next + h <= text.lines - 1 THEN next + h ELSE text.lines - 1
    BY <1>1, <1>6, <2>3, <2>4
  <2>6. r.end_reached <=> next + h >= text.lines
    BY <1>1, <1>6, <2>3
  <2>7. r.page_length = IF h <= text.lines - next THEN h ELSE text.lines - next
    BY <1>1, <1>4, <1>5, <1>6, <2>2, <2>3
  <2>8. ASSUME NEW z \in 0 .. h - 1 PROVE r.box[z] = Content(text, next + z)
    <3>1. CASE z = y
      <4>1. w.page = next + z
        BY <1>1, <2>3, <3>1 DEF y
      <4> QED
        BY <1>6, <3>1, <4>1
    <3>2. CASE z # y
      <4>1. z + one \in 0 .. h - 1 /\ top + (z + one) = next + z
        BY <1>1, <1>3, <2>3, <3>2 DEF y
      <4>2. r.box[z] = t.box[z + one]
        BY <1>4, <1>5, <1>6, <3>2, <4>1
      <4> QED
        BY <2>2, <4>1, <4>2
    <3> QED
      BY <3>1, <3>2
  <2>9. ~r.begin_reached
    BY <1>4, <1>5, <1>6
  <2>10. TextWindow(r, next)
    BY <1>7, <2>3, <2>5, <2>6, <2>7, <2>8, <2>9 DEF TextWindow
  <2> QED
    BY <2>3, <2>10
<1> QED
  BY <1>2, <1>7, <1>8, <1>9 DEF InText

(* Back by the lines of the page and one more is where the window was, and *)
(* one line up.                                                            *)
LEMMA PreviousLineShown == ASSUME NEW t, InText(t), ~t.begin_reached PROVE InText(PreviousLine(t))
<1> DEFINE text == t.text
           h == t.boxh
           n == t.page_length + 1
           b == back_lines(t, n)
           up == -1
           w == wscrl_box(b, up)
           shown == {0}
           r == ReadPage(w, shown)
<1>1. /\ text \in Texts /\ h \in Nat /\ h > 0 /\ t \in TextStates(text, h, Boxes(h))
      /\ text.lines \in Nat /\ text.lines > 0 /\ t.page \in Int /\ t.page_length \in Nat
      /\ (text.newline => t.page \in 0 .. text.lines - 1)
      /\ t.end_reached \in BOOLEAN
  BY InTextIs
<1>2. r = PreviousLine(t)
  BY DEF PreviousLine
<1>3. n \in Nat \ {0} /\ up \in Int /\ up = -1 /\ n = t.page_length + 1 /\ shown = {0}
  BY <1>1
<1> HIDE DEF text, h, n, up, shown
<1>4. /\ b \in TextStates(text, h, Boxes(h)) /\ b.box = t.box
      /\ text.newline => Backed(t, b, n) /\ Place(b)
  BY <1>1, <1>3, BackPlaced
<1> HIDE DEF b
<1>5. /\ w \in TextStates(text, h, Boxes(h))
      /\ w.page = b.page /\ w.begin_reached = b.begin_reached
      /\ \A z \in 0 .. h - 1 : z + up \in 0 .. h - 1 => w.box[z] = b.box[z + up]
      /\ \A z \in 0 .. h - 1 : z + up \notin 0 .. h - 1 => w.box[z] = EmptyLine
  <2>1. up \in Int /\ h \in Nat
    BY <1>1, <1>3
  <2>2. b \in TextStates(text, h, Boxes(h))
    BY <1>4
  <2> QED
    BY <2>1, <2>2, BoxMoved
<1> HIDE DEF w
<1>6. /\ b.text = text /\ w.text = text /\ w.boxh = h /\ t.text = text /\ t.boxh = h
      /\ b.page \in Int /\ w.page \in Int
  BY <1>1, <1>4, <1>5 DEF TextStates
<1>7. text.newline => w.page \in 0 .. text.lines - 1
  BY <1>4, <1>5, <1>6 DEF Place
<1>8. /\ r \in TextStates(text, h, Boxes(h))
      /\ r.begin_reached = w.begin_reached
      /\ text.newline => Reading(w, shown, r, h)
  BY <1>1, <1>5, <1>7, PageRead
<1> HIDE DEF r
<1>9. r.text = text /\ r.boxh = h
  BY <1>8 DEF TextStates
<1>10. TextOf(r)
  BY <1>1, <1>8, <1>9 DEF TextOf
<1>11. ASSUME text.newline
       PROVE  TextWindow(r, w.page)
  <2>1. PICK top \in 0 .. text.lines - 1 : TextWindow(t, top)
    BY <1>6, <1>11 DEF InText
  <2>2. /\ t.page = (IF top + h <= text.lines - 1 THEN top + h ELSE text.lines - 1)
        /\ (t.end_reached <=> top + h >= text.lines)
        /\ t.page_length = (IF h <= text.lines - top THEN h ELSE text.lines - top)
        /\ (top = 0 => text.lines = 1)
        /\ \A z \in 0 .. h - 1 : t.box[z] = Content(text, top + z)
    BY <1>6, <2>1 DEF TextWindow
  <2>3. w.page = IF top = 0 THEN 0 ELSE top - 1
    <3> DEFINE l == Lost(t)
               k == StepsBack(t, n)
    <3>1. l = IF t.page = text.lines - 1 /\ t.end_reached THEN 1 ELSE 0
      BY <1>6 DEF Lost
    <3>2. l \in {0, 1}
      BY <3>1
    <3>3. k = n - l
      <4> HIDE DEF l
      <4>1. ~(n < l)
        BY <1>1, <1>3, <3>2
      <4> QED
        BY <4>1 DEF StepsBack, l
    <3>4. w.page = IF k <= t.page THEN t.page - k ELSE 0
      BY <1>4, <1>5, <1>11 DEF Backed
    <3> HIDE DEF l, k
    <3>5. CASE top + h >= text.lines
      BY <1>1, <1>3, <2>2, <3>1, <3>3, <3>4, <3>5
    <3>6. CASE ~(top + h >= text.lines)
      BY <1>1, <1>3, <2>2, <3>1, <3>3, <3>4, <3>6
    <3> QED
      BY <3>5, <3>6
  <2>4. /\ r.page = (IF w.page + h <= text.lines - 1 THEN w.page + h ELSE text.lines - 1)
        /\ r.end_reached <=> w.page + h >= text.lines
        /\ r.page_length = (IF h <= text.lines - w.page THEN h ELSE text.lines - w.page)
        /\ \A z \in 0 .. h - 1 : r.box[z] = IF z \in shown /\ z < h THEN Content(text, w.page + z) ELSE w.box[z]
    BY <1>1, <1>6, <1>8, <1>11 DEF Reading
  <2>5. ASSUME NEW z \in 0 .. h - 1 PROVE r.box[z] = Content(text, w.page + z)
    <3>1. CASE z = 0
      BY <1>1, <1>3, <2>4, <3>1
    <3>2. CASE z # 0
      <4>1. z + up \in 0 .. h - 1 /\ top + (z + up) \in Int /\ w.page + z \in Int /\ z > 0
        BY <1>1, <1>3, <1>6, <3>2
      <4>2. r.box[z] = Content(text, top + (z + up))
        BY <1>3, <1>4, <1>5, <2>2, <2>4, <3>2, <4>1
      <4>3. CASE top = 0
        <5>1. text.lines = 1 /\ ~(top + (z + up) < text.lines - 1) /\ ~(w.page + z < text.lines - 1)
          BY <1>3, <2>2, <2>3, <4>1, <4>3
        <5> QED
          BY <1>1, <1>11, <4>1, <4>2, <5>1, ContentOf
      <4>4. CASE top # 0
        <5>1. top + (z + up) = w.page + z
          BY <1>3, <2>3, <4>4
        <5> QED
          BY <4>2, <5>1
      <4> QED
        BY <4>3, <4>4
    <3> QED
      BY <3>1, <3>2
  <2>6. Place(b)
    BY <1>4, <1>11
  <2> QED
    BY <1>5, <1>6, <1>8, <1>9, <2>4, <2>5, <2>6 DEF TextWindow, Place
<1> QED
  BY <1>2, <1>7, <1>9, <1>10, <1>11 DEF InText

LEMMA TextStepped ==
  ASSUME TextInv, Next
  PROVE  TextInv'
<1>1. rows' \in Rows
  BY RowsStep DEF TextInv
<1>2. ASSUME tb' = tb \/ tb' = NoText \/ InText(tb') PROVE TextInv'
  BY <1>1, <1>2 DEF TextInv, NoText
<1>3. tb.open => InText(tb)
  BY DEF TextInv
<1>4. CASE GoBack
  BY <1>2, <1>3, <1>4, FirstPageShown, PreviousLineShown, PreviousPageShown DEF GoBack
<1>5. CASE GoOn
  BY <1>2, <1>3, <1>5, NextLineShown, NextPageShown DEF GoOn
<1>6. CASE GoToEnd
  BY <1>2, <1>3, <1>6, LastPageShown DEF GoToEnd
<1>7. CASE GoAside
  <2>1. PICK to \in 0 .. MaxHscroll : tb' = Aside(tb, to)
    BY <1>7 DEF GoAside
  <2>2. tb.open /\ to \in Int
    BY <1>7 DEF GoAside
  <2> QED
    BY <1>2, <1>3, <2>1, <2>2, AsideShown
<1>8. CASE TextReturn
  BY <1>2, <1>8 DEF TextReturn
<1>9. CASE \E next \in AfterEscape : TextEscape(next)
  BY <1>2, <1>9 DEF TextEscape
<1>10. CASE dialog_textbox
  BY <1>4, <1>5, <1>6, <1>7, <1>8, <1>9, <1>10, TextOpens, TextResizes, Zenon DEF dialog_textbox
<1>11. CASE ~dialog_textbox
  <2>1. tb' = tb
    BY <1>11, Zenon DEF Next, dialog_menu, dialog_checklist, dialog_inputbox, dialog_yesno
  <2> QED
    BY <1>2, <2>1
<1> QED
  BY <1>10, <1>11

(* The text window of menuconfig shows consecutive lines of the text and   *)
(* knows where they end, whether the first and the last of them are shown: *)
(* for every text that ends with a newline, every height of the window and *)
(* whatever moves by lines, pages and to the sides were made before.       *)
THEOREM TextAlwaysInSequence == DialogsSpec => []TextStaysInSequence
<1>1. DialogsInit => TextInv
  BY DEF DialogsInit, Init, TextInv, NoText
<1>2. TextInv /\ [DialogsNext]_<<vars, gvars, program>> => TextInv'
  <2> SUFFICES ASSUME TextInv, [DialogsNext]_<<vars, gvars, program>> PROVE TextInv'
    OBVIOUS
  <2>1. CASE UNCHANGED vars
    BY <2>1 DEF vars, TextInv
  <2>2. CASE Next
    BY <2>2, TextStepped
  <2> QED
    BY <2>1, <2>2 DEF DialogsNext
<1>3. TextInv => TextStaysInSequence
  <2> SUFFICES ASSUME TextInv, NEW text \in Texts, text.newline, tb.open, tb.text = text
               PROVE  \E top \in 0 .. text.lines - 1 :
                        /\ \A y \in DOMAIN tb.box : tb.box[y] = Content(text, top + y)
                        /\ tb.page = Min({End(tb), top + tb.boxh})
                        /\ tb.begin_reached => top = 0
                        /\ tb.end_reached <=> top + tb.boxh >= text.lines
    BY DEF TextStaysInSequence, TextInSequence
  <2>1. InText(tb)
    BY DEF TextInv
  <2>2. /\ tb.box \in Boxes(tb.boxh) /\ tb.boxh \in Nat /\ text.lines \in Nat
        /\ End(tb) = text.lines - 1
    BY <2>1, InTextIs
  <2>3. DOMAIN tb.box = 0 .. tb.boxh - 1
    BY <2>2 DEF Boxes
  <2>4. PICK top \in 0 .. text.lines - 1 : TextWindow(tb, top)
    BY <2>1 DEF InText
  <2> DEFINE below == top + tb.boxh
             last == text.lines - 1
  <2>5. below \in Int /\ last \in Int
    BY <2>2
  <2>6. End(tb) = last
    BY <2>2
  <2>7. tb.page = IF below <= last THEN below ELSE last
    BY <2>4 DEF TextWindow
  <2>8. Min({last, below}) = IF last <= below THEN last ELSE below
    <3> HIDE DEF last, below
    <3> QED
      BY <2>5, MinOfTwo
  <2>9. tb.page = Min({End(tb), below})
    <3> HIDE DEF last, below
    <3> QED
      BY <2>5, <2>6, <2>7, <2>8
  <2> QED
    BY <2>3, <2>4, <2>9 DEF TextWindow
<1> QED
  BY <1>1, <1>2, <1>3, PTL DEF DialogsSpec

-----------------------------------------------------------------------------
(* The windows of nconf: the search in a menu.                             *)

Directions == {"next_down", "next_up", "tinker_down", "tinker_up"}

ListRecords(items) ==
  [items : {items}, current : Int, in_search : BOOLEAN, direction : Directions, pattern : Seq(Keys),
   stuck : {"no", "division_by_zero", "endless_loop"}]

(* A list whose search has not come to a standstill has a current item.    *)
InItems(l) == IF l.items = <<>> THEN l.current = 0 ELSE l.current \in 0 .. Len(l.items) - 1

Searched(l) ==
  /\ l.in_search => \A n \in 0 .. Len(l.pattern) :
       Matching(l, SubSeq(l.pattern, 1, n)) # {} => l.current \in Matching(l, SubSeq(l.pattern, 1, n))

\* The same before the last letter of the pattern was searched.
SearchedBefore(l) ==
  \A n \in 0 .. Len(l.pattern) - 1 :
    Matching(l, SubSeq(l.pattern, 1, n)) # {} => l.current \in Matching(l, SubSeq(l.pattern, 1, n))

ListTyped(l) == l.items \in Menus /\ l \in ListRecords(l.items) /\ InItems(l)

Standstill(l) ==
  /\ l.stuck = "division_by_zero" => l.items = <<>>
  /\ l.stuck = "endless_loop" => Matching(l, l.pattern) = {} /\ l.current \in {0, Len(l.items) - 1}

SearchInv ==
  use = "list" => /\ ListTyped(list) /\ Standstill(list)
                  /\ list.stuck = "no" => Searched(list)

LEMMA ListIs ==
  ASSUME NEW l, ListTyped(l)
  PROVE  /\ l.items \in Seq(Seq(Keys)) /\ Len(l.items) \in Nat
         /\ l.current \in Int /\ l.pattern \in Seq(Keys) /\ Len(l.pattern) \in Nat
         /\ l.items # <<>> => Len(l.items) > 0
<1>1. l.items \in Seq(Seq(Keys))
  BY ItemsAssumption DEF ListTyped
<1>2. l.current \in Int /\ l.pattern \in Seq(Keys)
  BY DEF ListTyped, ListRecords
<1>3. Len(l.items) \in Nat /\ Len(l.pattern) \in Nat
  BY <1>1, <1>2
<1>4. l.items # <<>> => Len(l.items) > 0
  BY <1>1
<1> QED
  BY <1>1, <1>2, <1>3, <1>4

(* An item that has a pattern in it has the beginning of the pattern in    *)
(* it, and only items match.                                               *)
LEMMA IncludesBeginning ==
  ASSUME NEW text \in Seq(Keys), NEW p \in Seq(Keys), NEW n \in 0 .. Len(p), Includes(text, p)
  PROVE  Includes(text, SubSeq(p, 1, n))
<1> DEFINE q == SubSeq(p, 1, n)
<1>1. q \in Seq(Keys) /\ Len(q) = n /\ \A k \in 1 .. n : q[k] = p[k]
  OBVIOUS
<1>2. PICK i \in 0 .. Len(text) - Len(p) : SubSeq(text, i + 1, i + Len(p)) = p
  BY DEF Includes
<1> HIDE DEF q
<1>3. i \in 0 .. Len(text) - n /\ Len(text) \in Nat /\ n \in Nat /\ i + n <= Len(text)
  BY <1>2
<1>4. ASSUME NEW k \in 1 .. n PROVE text[i + k] = q[k]
  <2>1. k \in 1 .. Len(p)
    OBVIOUS
  <2>2. SubSeq(text, i + 1, i + Len(p))[k] = text[i + k]
    BY <1>2, <1>3, <2>1
  <2> QED
    BY <1>1, <1>2, <2>2
<1>5. SubSeq(text, i + 1, i + n) = q
  <2> DEFINE r == SubSeq(text, i + 1, i + n)
  <2>1. i \in Nat /\ i + 1 \in 1 .. Len(text) + 1 /\ i + n \in i .. Len(text) /\ (i + n) - (i + 1) + 1 = n
    BY <1>3
  <2>2. r \in Seq(Keys) /\ Len(r) = n
    BY <2>1
  <2>3. ASSUME NEW k \in 1 .. n PROVE r[k] = text[i + k]
    <3>1. r[k] = text[(i + 1) + k - 1] /\ (i + 1) + k - 1 = i + k
      BY <2>1, k \in Int
    <3> QED
      BY <3>1
  <2> HIDE DEF r
  <2> QED
    BY <1>1, <1>4, <2>2, <2>3
<1> QED
  BY <1>1, <1>3, <1>5 DEF Includes, q

LEMMA MatchingBeginning ==
  ASSUME NEW l, ListTyped(l), NEW p \in Seq(Keys), NEW n \in 0 .. Len(p)
  PROVE  Matching(l, p) \subseteq Matching(l, SubSeq(p, 1, n))
<1> SUFFICES ASSUME NEW i \in Matching(l, p) PROVE i \in Matching(l, SubSeq(p, 1, n))
  OBVIOUS
<1>1. i \in 0 .. Len(l.items) - 1 /\ Includes(l.items[i + 1], p)
  BY DEF Matching
<1>2. l.items[i + 1] \in Seq(Keys)
  BY <1>1, ListIs
<1> QED
  BY <1>1, <1>2, IncludesBeginning DEF Matching

(* Every item has the empty pattern in it.                                 *)
LEMMA EmptyMatches ==
  ASSUME NEW l, ListTyped(l), l.items # <<>>
  PROVE  l.current \in Matching(l, <<>>)
<1>1. l.current \in 0 .. Len(l.items) - 1 /\ l.items[l.current + 1] \in Seq(Keys)
  BY ListIs DEF ListTyped, InItems
<1> DEFINE text == l.items[l.current + 1]
           none == <<>>
<1>2. Len(text) \in Nat /\ Len(none) = 0 /\ 0 \in 0 .. Len(text) - Len(none)
  BY <1>1
<1>3. SubSeq(text, 0 + 1, 0 + Len(none)) = none
  BY <1>1, <1>2
<1>4. Includes(text, none)
  BY <1>2, <1>3 DEF Includes
<1> QED
  BY <1>1, <1>4 DEF Matching

(* Of the items that match there is a nearest one in every direction.      *)
LEMMA NearestExists ==
  ASSUME NEW l, ListTyped(l), NEW p, NEW flag, Matching(l, p) # {}, l.items # <<>>
  PROVE  \E i \in Matching(l, p) : \A j \in Matching(l, p) : Distance(l, flag, i) <= Distance(l, flag, j)
<1> DEFINE M == Matching(l, p)
           D == {Distance(l, flag, i) : i \in M}
<1>1. ASSUME NEW i \in M PROVE Distance(l, flag, i) \in Nat
  <2>1. i \in Int /\ l.current \in Int /\ Len(l.items) \in Nat \ {0}
    BY ListIs DEF Matching
  <2>2. StartOf(l, flag) \in Int
    BY <2>1 DEF StartOf
  <2> QED
    BY <2>1, <2>2 DEF Distance
<1>2. D \subseteq Nat /\ D # {}
  BY <1>1
<1>3. PICK d \in D : \A e \in D : d <= e
  <2> HIDE DEF D
  <2> QED
    BY <1>2, LeastExists
<1>4. PICK i \in M : Distance(l, flag, i) = d
  BY <1>3
<1> QED
  BY <1>3, <1>4

LEMMA GetNextMatch ==
  ASSUME NEW l, ListTyped(l), l.stuck = "no", NEW flag \in Directions, SearchedBefore(l),
         NEW m, m = get_mext_match(l, flag)
  PROVE  /\ ListTyped(m) /\ Standstill(m)
         /\ m.stuck = "no" => Searched(m)
<1>1. CASE l.items = <<>>
  <2>1. m = [l EXCEPT !.stuck = "division_by_zero"]
    BY <1>1 DEF get_mext_match
  <2> QED
    BY <1>1, <2>1 DEF ListTyped, ListRecords, InItems, Standstill
<1>2. CASE l.items # <<>> /\ Matching(l, l.pattern) # {}
  <2> DEFINE i == CHOOSE i \in Matching(l, l.pattern) :
                    \A j \in Matching(l, l.pattern) : Distance(l, flag, i) <= Distance(l, flag, j)
  <2>1. i \in Matching(l, l.pattern)
    BY <1>2, NearestExists
  <2>2. m = [l EXCEPT !.current = i]
    BY <1>2 DEF get_mext_match
  <2> HIDE DEF i
  <2>3. i \in 0 .. Len(l.items) - 1
    BY <2>1 DEF Matching
  <2>4. /\ m.items = l.items /\ m.current = i /\ m.pattern = l.pattern /\ m.stuck = "no"
        /\ m.in_search = l.in_search /\ m \in ListRecords(l.items)
    BY <2>2, <2>3 DEF ListTyped, ListRecords
  <2>5. ListTyped(m)
    BY <1>2, <2>3, <2>4 DEF ListTyped, InItems
  <2>6. ASSUME NEW n \in 0 .. Len(m.pattern)
        PROVE  m.current \in Matching(m, SubSeq(m.pattern, 1, n))
    <3>1. m.current \in Matching(m, m.pattern)
      BY <2>1, <2>4 DEF Matching
    <3>2. m.pattern \in Seq(Keys)
      BY <2>5, ListIs
    <3> QED
      BY <2>5, <3>1, <3>2, MatchingBeginning
  <2> QED
    BY <2>4, <2>5, <2>6 DEF Searched, Standstill
<1>3. CASE l.items # <<>> /\ Matching(l, l.pattern) = {}
  <2>1. CASE StartOf(l, flag) \in 0 .. Len(l.items) - 1
    <3>1. m = l
      BY <1>3, <2>1 DEF get_mext_match
    <3>2. l.pattern \in Seq(Keys) /\ Len(l.pattern) \in Nat
      BY ListIs
    <3>3. SubSeq(l.pattern, 1, Len(l.pattern)) = l.pattern
      BY <3>2
    <3>4. ASSUME NEW n \in 0 .. Len(l.pattern), Matching(l, SubSeq(l.pattern, 1, n)) # {}
          PROVE  l.current \in Matching(l, SubSeq(l.pattern, 1, n))
      <4>1. n # Len(l.pattern)
        BY <1>3, <3>3, <3>4
      <4>2. n \in 0 .. Len(l.pattern) - 1
        BY <3>2, <4>1
      <4> QED
        BY <3>4, <4>2 DEF SearchedBefore
    <3>5. Searched(l)
      BY <3>4 DEF Searched
    <3> QED
      BY <3>1, <3>5 DEF Standstill
  <2>2. CASE StartOf(l, flag) \notin 0 .. Len(l.items) - 1
    <3>1. m = [l EXCEPT !.stuck = "endless_loop"]
      BY <1>3, <2>2 DEF get_mext_match
    <3>2. /\ m.items = l.items /\ m.current = l.current /\ m.pattern = l.pattern
          /\ m.stuck = "endless_loop" /\ m \in ListRecords(l.items)
      BY <3>1 DEF ListTyped, ListRecords
    <3>3. l.current \in 0 .. Len(l.items) - 1 /\ Len(l.items) \in Nat
      BY <1>3, ListIs DEF ListTyped, InItems
    <3>4. StartOf(l, flag) \in {l.current - 1, l.current, l.current + 1}
      BY <3>3 DEF StartOf, Directions
    <3>5. l.current \in {0, Len(l.items) - 1}
      BY <2>2, <3>3, <3>4
    <3>6. Matching(m, m.pattern) = {}
      BY <1>3, <3>2 DEF Matching
    <3> QED
      BY <3>2, <3>3, <3>5, <3>6 DEF ListTyped, InItems, Standstill
  <2> QED
    BY <2>1, <2>2
<1> QED
  BY <1>1, <1>2, <1>3

\* The list as it is after a step that does not look for a match.
Unlooked(l) == ListTyped(l) /\ l.stuck = "no" /\ Searched(l)

LEMMA DirectionOf == \A flag \in Directions : adj_match_dir(flag) \in Directions
BY DEF Directions, adj_match_dir

LEMMA KeptSearching ==
  ASSUME use = "list", SearchInv, list.stuck = "no"
  PROVE  /\ Unlooked(list) /\ list.items \in Menus /\ list.direction \in Directions
         /\ list.pattern \in Seq(Keys)
BY DEF SearchInv, Unlooked, ListTyped, ListRecords

LEMMA FoundKeeps ==
  ASSUME NEW l, ListTyped(l), l.stuck = "no", NEW flag \in Directions, SearchedBefore(l),
         use' = "list", list' = Found(l, flag)
  PROVE  SearchInv'
<1> DEFINE k == [l EXCEPT !.direction = flag]
<1>1. /\ k.items = l.items /\ k.current = l.current /\ k.pattern = l.pattern /\ k.stuck = "no"
      /\ k \in ListRecords(l.items)
  BY DEF ListTyped, ListRecords
<1>2. list' = get_mext_match(k, flag)
  BY DEF Found
<1> HIDE DEF k
<1>3. ListTyped(k) /\ SearchedBefore(k)
  BY <1>1 DEF ListTyped, InItems, SearchedBefore, Matching
<1>4. /\ ListTyped(list') /\ Standstill(list')
      /\ list'.stuck = "no" => Searched(list')
  BY <1>1, <1>2, <1>3, GetNextMatch
<1> QED
  BY <1>4 DEF SearchInv, ListTyped, InItems, Standstill, Searched, Matching

LEMMA UnlookedKeeps ==
  ASSUME use' = "list", Unlooked(list')
  PROVE  SearchInv'
BY DEF SearchInv, Unlooked, ListTyped, InItems, Standstill, Searched, Matching

LEMMA PatternTyped ==
  ASSUME SearchInv, Searches, NEW c \in Keys, TypePattern(c)
  PROVE  SearchInv'
<1>1. /\ Unlooked(list) /\ list.direction \in Directions /\ list.pattern \in Seq(Keys)
      /\ use = "list" /\ list.stuck = "no" /\ list.in_search
  BY KeptSearching DEF Searches
<1> DEFINE p == Append(list.pattern, c)
           l == [list EXCEPT !.pattern = p]
           flag == adj_match_dir(list.direction)
<1>2. p \in Seq(Keys) /\ Len(p) = Len(list.pattern) + 1
  BY <1>1
<1>3. \A n \in 0 .. Len(list.pattern) : SubSeq(p, 1, n) = SubSeq(list.pattern, 1, n)
  BY <1>1
<1>4. flag \in Directions
  BY <1>1, DirectionOf
<1>5. use' = "list" /\ list' = Found(l, flag)
  BY <1>1 DEF TypePattern, ListStep
<1> HIDE DEF p, flag
<1>6. /\ l.items = list.items /\ l.current = list.current /\ l.pattern = p /\ l.stuck = "no"
      /\ l \in ListRecords(list.items)
  BY <1>1, <1>2 DEF Unlooked, ListTyped, ListRecords
<1> HIDE DEF l
<1>7. ListTyped(l)
  BY <1>1, <1>6 DEF Unlooked, ListTyped, InItems
<1>8. SearchedBefore(l)
  <2> SUFFICES ASSUME NEW n \in 0 .. Len(l.pattern) - 1, Matching(l, SubSeq(l.pattern, 1, n)) # {}
               PROVE  l.current \in Matching(l, SubSeq(l.pattern, 1, n))
    BY DEF SearchedBefore
  <2>1. n \in 0 .. Len(list.pattern)
    BY <1>1, <1>2, <1>6
  <2>2. SubSeq(l.pattern, 1, n) = SubSeq(list.pattern, 1, n)
    BY <1>3, <1>6, <2>1
  <2>3. \A q : Matching(l, q) = Matching(list, q)
    BY <1>6 DEF Matching
  <2> QED
    BY <1>1, <1>6, <2>1, <2>2, <2>3 DEF Unlooked, Searched
<1> QED
  BY <1>4, <1>5, <1>6, <1>7, <1>8, FoundKeeps

LEMMA NextFound ==
  ASSUME SearchInv, NEW flag \in Directions, FindNext(flag)
  PROVE  SearchInv'
<1>1. Unlooked(list) /\ list.pattern \in Seq(Keys) /\ use = "list" /\ list.stuck = "no" /\ list.in_search
  BY KeptSearching DEF FindNext, Searches
<1>2. SearchedBefore(list)
  <2>1. 0 .. Len(list.pattern) - 1 \subseteq 0 .. Len(list.pattern)
    BY <1>1
  <2> QED
    BY <1>1, <2>1 DEF Unlooked, Searched, SearchedBefore
<1>3. use' = "list" /\ list' = Found(list, flag)
  BY <1>1 DEF FindNext, ListStep
<1> QED
  BY <1>1, <1>2, <1>3, FoundKeeps DEF Unlooked

LEMMA PatternErased ==
  ASSUME SearchInv, ErasePattern
  PROVE  SearchInv'
<1>1. /\ Unlooked(list) /\ list.pattern \in Seq(Keys) /\ list.direction \in Directions
      /\ use = "list" /\ list.stuck = "no" /\ list.in_search
  BY KeptSearching DEF ErasePattern, Searches
<1> DEFINE p == IF list.pattern = <<>> THEN list.pattern ELSE SubSeq(list.pattern, 1, Len(list.pattern) - 1)
<1>2. PICK flag \in Directions : list' = [list EXCEPT !.pattern = p, !.direction = adj_match_dir(flag)]
  <2>1. (IF list.pattern = <<>> THEN {list.direction, "tinker_up"} ELSE {list.direction}) \subseteq Directions
    BY <1>1 DEF Directions
  <2> QED
    BY <2>1 DEF ErasePattern, ListStep
<1> DEFINE to == adj_match_dir(flag)
<1>3. to \in Directions
  BY DirectionOf
<1>4. use' = "list"
  BY <1>1 DEF ErasePattern, ListStep
<1>5. p \in Seq(Keys) /\ Len(p) <= Len(list.pattern)
  BY <1>1
<1>6. \A n \in 0 .. Len(p) : SubSeq(p, 1, n) = SubSeq(list.pattern, 1, n) /\ n \in 0 .. Len(list.pattern)
  BY <1>1
<1> HIDE DEF p, to
<1>7. /\ list'.items = list.items /\ list'.current = list.current /\ list'.pattern = p
      /\ list'.stuck = "no" /\ list'.in_search /\ list' \in ListRecords(list.items)
  BY <1>1, <1>2, <1>3, <1>5 DEF Unlooked, ListTyped, ListRecords, to
<1>8. ListTyped(list')
  BY <1>1, <1>7 DEF Unlooked, ListTyped, InItems
<1>9. Searched(list')
  <2>1. \A q : Matching(list', q) = Matching(list, q)
    BY <1>7 DEF Matching
  <2> QED
    BY <1>1, <1>6, <1>7, <2>1 DEF Unlooked, Searched
<1> QED
  BY <1>4, <1>7, <1>8, <1>9, UnlookedKeeps DEF Unlooked

LEMMA SearchTurnedOnOrOff ==
  ASSUME SearchInv, SlashKey \/ EscapeSearch \/ EndSearch
  PROVE  SearchInv'
<1>1. /\ Unlooked(list) /\ list.items \in Menus /\ use = "list"
      /\ list.direction \in Directions /\ list.pattern \in Seq(Keys)
  BY KeptSearching DEF SlashKey, EscapeSearch, EndSearch, Searches
<1> DEFINE none == <<>>
<1>2. none \in Seq(Keys) /\ Len(none) = 0 /\ SubSeq(none, 1, 0) = none
  OBVIOUS
<1>3. PICK on \in BOOLEAN, flag \in Directions :
        list' = [list EXCEPT !.in_search = on, !.pattern = none, !.direction = flag]
  <2>1. CASE SlashKey
    <3>1. list' = [list EXCEPT !.in_search = ~list.in_search, !.pattern = none, !.direction = "tinker_down"]
      BY <2>1 DEF SlashKey, ListStep
    <3>2. (~list.in_search) \in BOOLEAN /\ "tinker_down" \in Directions
      BY DEF Directions
    <3> QED
      BY <3>1, <3>2, Zenon
  <2>2. CASE EscapeSearch
    <3>1. list' = [list EXCEPT !.in_search = FALSE, !.pattern = none, !.direction = "tinker_down"]
      BY <2>2 DEF EscapeSearch, ListStep
    <3>2. FALSE \in BOOLEAN /\ "tinker_down" \in Directions
      BY DEF Directions
    <3> QED
      BY <3>1, <3>2, Zenon
  <2>3. CASE EndSearch
    <3>1. list' = [list EXCEPT !.in_search = FALSE, !.pattern = none]
      BY <2>3 DEF EndSearch, ListStep
    <3>2. list' = [list EXCEPT !.in_search = FALSE, !.pattern = none, !.direction = list.direction]
      BY <1>1, <3>1 DEF Unlooked, ListTyped, ListRecords
    <3> QED
      BY <1>1, <3>2, Zenon
  <2> QED
    BY <2>1, <2>2, <2>3
<1>4. use' = "list"
  BY <1>1 DEF SlashKey, EscapeSearch, EndSearch, ListStep
<1> HIDE DEF none
<1>5. /\ list'.items = list.items /\ list'.current = list.current /\ list'.pattern = none
      /\ list'.stuck = "no" /\ list' \in ListRecords(list.items)
  BY <1>1, <1>2, <1>3 DEF Unlooked, ListTyped, ListRecords
<1>6. ListTyped(list')
  BY <1>1, <1>5 DEF Unlooked, ListTyped, InItems
<1>7. Searched(list')
  <2> SUFFICES ASSUME NEW n \in 0 .. Len(list'.pattern), Matching(list', SubSeq(list'.pattern, 1, n)) # {}
               PROVE  list'.current \in Matching(list', SubSeq(list'.pattern, 1, n))
    BY DEF Searched
  <2>1. SubSeq(list'.pattern, 1, n) = none
    BY <1>2, <1>5
  <2>2. list'.items # <<>>
    BY <2>1 DEF Matching
  <2> QED
    BY <1>6, <2>1, <2>2, EmptyMatches DEF none
<1> QED
  BY <1>4, <1>5, <1>6, <1>7, UnlookedKeeps DEF Unlooked

LEMMA ItemsMade ==
  ASSUME NEW items \in Menus, NEW index \in Int, index >= 0, Remake(items, index)
  PROVE  SearchInv'
<1> DEFINE none == <<>>
           at == IF index < Len(items) THEN index ELSE 0
<1>1. items \in Seq(Seq(Keys)) /\ Len(items) \in Nat /\ (items # <<>> => Len(items) > 0) /\ (items = <<>> => Len(items) = 0)
  BY ItemsAssumption
<1>2. none \in Seq(Keys) /\ "tinker_down" \in Directions /\ FALSE \in BOOLEAN
  BY DEF Directions
<1>3. at \in Int /\ (items = <<>> => at = 0) /\ (items # <<>> => at \in 0 .. Len(items) - 1)
  BY <1>1
<1>4. /\ use' = "list"
      /\ list' = [items |-> items, current |-> at, in_search |-> FALSE, direction |-> "tinker_down",
                  pattern |-> none, stuck |-> "no"]
  BY DEF Remake, Listed
<1> HIDE DEF none, at
<1>5. /\ list'.items = items /\ list'.current = at /\ ~list'.in_search
      /\ list'.stuck = "no" /\ list' \in ListRecords(items)
  BY <1>2, <1>3, <1>4 DEF ListRecords
<1> QED
  BY <1>3, <1>4, <1>5, UnlookedKeeps DEF Unlooked, ListTyped, InItems, Searched

LEMMA MovedInList ==
  ASSUME SearchInv, MoveInList
  PROVE  SearchInv'
<1>1. Unlooked(list) /\ list.items \in Menus /\ use = "list" /\ ~list.in_search
  BY KeptSearching DEF MoveInList
<1>2. PICK i \in 0 .. Len(list.items) - 1 : list' = [list EXCEPT !.current = i]
  BY DEF MoveInList, ListStep
<1>3. use' = "list"
  BY <1>1 DEF MoveInList, ListStep
<1>4. i \in Int /\ list.items # <<>>
  BY <1>2
<1>5. /\ list'.items = list.items /\ list'.current = i /\ ~list'.in_search
      /\ list'.stuck = "no" /\ list' \in ListRecords(list.items)
  BY <1>1, <1>2, <1>4 DEF Unlooked, ListTyped, ListRecords
<1> QED
  BY <1>1, <1>2, <1>3, <1>4, <1>5, UnlookedKeeps DEF Unlooked, ListTyped, InItems, Searched

LEMMA SearchStepped ==
  ASSUME SearchInv, GuiNext
  PROVE  SearchInv'
<1>1. CASE OpenList
  <2>1. PICK items \in Menus : Remake(items, 0)
    BY <1>1 DEF OpenList
  <2> DEFINE first == 0
  <2>2. first \in Int /\ first >= 0
    OBVIOUS
  <2>3. Remake(items, first)
    BY <2>1
  <2> HIDE DEF first
  <2> QED
    BY <2>2, <2>3, ItemsMade
<1>2. CASE MakeList
  <2>1. PICK items \in Menus : Remake(items, list.current)
    BY <1>2 DEF MakeList
  <2>2. list.current \in Int /\ list.current >= 0
    BY <1>2, ListIs DEF MakeList, SearchInv, ListTyped, InItems
  <2> QED
    BY <2>1, <2>2, ItemsMade
<1>3. CASE SlashKey \/ EscapeSearch \/ EndSearch
  BY <1>3, SearchTurnedOnOrOff
<1>4. CASE ErasePattern
  BY <1>4, PatternErased
<1>5. CASE \E c \in Keys : TypePattern(c)
  BY <1>5, PatternTyped DEF TypePattern
<1>6. CASE \E flag \in {"next_down", "next_up"} : FindNext(flag)
  BY <1>6, NextFound DEF Directions
<1>7. CASE MoveInList
  BY <1>7, MovedInList
<1>8. CASE LeaveList
  BY <1>8 DEF LeaveList, SearchInv
<1>9. CASE list' = list /\ use' # "list"
  BY <1>9 DEF SearchInv
<1>10. CASE list' = list /\ use' = use
  BY <1>10 DEF SearchInv, ListTyped, InItems, Standstill, Searched, Matching
<1>11. \/ list' = list /\ (use' = use \/ use' # "list")
       \/ OpenList \/ MakeList \/ SlashKey \/ EscapeSearch \/ ErasePattern \/ EndSearch \/ MoveInList \/ LeaveList
       \/ \E c \in Keys : TypePattern(c)
       \/ \E flag \in {"next_down", "next_up"} : FindNext(flag)
  BY DEF GuiNext, Insert, CloseButtons, MoveButton, EraseBefore, EraseUnder, CursorRight, CursorLeft,
         CloseField, CloseText, Scroll, FieldStep, OpenButtons, OpenField, OpenText
<1> QED
  BY <1>1, <1>2, <1>3, <1>4, <1>5, <1>6, <1>7, <1>8, <1>9, <1>10, <1>11

-----------------------------------------------------------------------------
(* The input field: the memory from the buffer on holds the text and its   *)
(* terminating zero, and what lies beyond the buffer is as it was until    *)
(* the text has been longer than half of it.                               *)

MemEnd == 2 * result_len + 4
FieldRecords ==
  [on : {TRUE}, cursor : Int, typed : Seq(Keys), mem : [0 .. MemEnd - 1 -> Bytes], longest : Int,
   appended : BOOLEAN]

Holds(mem, text) ==
  /\ mem[Len(text)] = "0"
  /\ \A i \in 0 .. Len(text) - 1 : mem[i] = text[i + 1]

BeyondKept(mem) == \A i \in result_len .. MemEnd - 1 : mem[i] = "other"
Appended(mem, text, at) ==
  /\ at = Len(text)
  /\ \A i \in 0 .. result_len - 1 : mem[i] # "other"
  /\ 2 * at > result_len => mem[result_len] # "other"

Edited(mem, at, text, longest, appended) ==
  /\ text \in Seq(Keys) /\ at \in 0 .. Len(text) /\ Len(text) <= result_len + 2
  /\ mem \in [0 .. MemEnd - 1 -> Bytes] /\ Holds(mem, text)
  /\ longest \in Int /\ Len(text) <= longest /\ appended \in BOOLEAN
  /\ 2 * longest <= result_len => BeyondKept(mem)
  /\ appended => longest = at /\ Appended(mem, text, at)
InBuffer(f) == f \in FieldRecords /\ Edited(f.mem, f.cursor, f.typed, f.longest, f.appended)

BufferInv == use = "field" => InBuffer(field)

LEMMA MemoryIs ==
  /\ MemEnd \in Nat /\ MemEnd = 2 * result_len + 4 /\ Memory = 0 .. MemEnd - 1
  /\ result_len \in Nat /\ result_len >= 1 /\ result_len < MemEnd
BY BufferAssumption DEF MemEnd, Memory

LEMMA TextInBuffer ==
  ASSUME NEW mem \in [0 .. MemEnd - 1 -> Bytes], NEW text \in Seq(Keys),
         Len(text) < MemEnd, Holds(mem, text)
  PROVE  CString(mem) = text
<1> DEFINE Zeros == {i \in DOMAIN mem : mem[i] = "0"}
           len == Min(Zeros)
<1>1. DOMAIN mem = 0 .. MemEnd - 1 /\ MemEnd \in Nat /\ Len(text) \in Nat
  BY MemoryIs, BufferAssumption
<1>2. Len(text) \in Zeros
  BY <1>1 DEF Holds
<1>3. Zeros \subseteq Nat /\ Zeros # {}
  BY <1>1, <1>2
<1>4. len \in Zeros /\ \A i \in Zeros : len <= i
  <2> HIDE DEF Zeros
  <2> QED
    BY <1>3, MinOfBounded
<1>5. \A i \in 0 .. Len(text) - 1 : i \notin Zeros
  <2> SUFFICES ASSUME NEW i \in 0 .. Len(text) - 1 PROVE mem[i] # "0"
    OBVIOUS
  <2>1. mem[i] = text[i + 1] /\ i + 1 \in 1 .. Len(text)
    BY <1>1 DEF Holds
  <2>2. text[i + 1] \in Keys
    BY <2>1
  <2> QED
    BY <2>1, <2>2, BufferAssumption
<1>6. len = Len(text)
  <2>1. len \in Nat /\ len <= Len(text)
    BY <1>2, <1>3, <1>4
  <2> HIDE DEF len, Zeros
  <2> QED
    BY <1>1, <1>4, <1>5, <2>1
<1>7. CString(mem) = [i \in 1 .. len |-> mem[i - 1]]
  BY DEF CString
<1>8. \A i \in 1 .. Len(text) : mem[i - 1] = text[i]
  <2> SUFFICES ASSUME NEW i \in 1 .. Len(text) PROVE mem[i - 1] = text[i]
    OBVIOUS
  <2>1. i - 1 \in 0 .. Len(text) - 1 /\ (i - 1) + 1 = i
    BY <1>1
  <2> QED
    BY <2>1 DEF Holds
<1>9. text = [i \in 1 .. Len(text) |-> text[i]]
  OBVIOUS
<1> HIDE DEF len, Zeros
<1> QED
  BY <1>6, <1>7, <1>8, <1>9

MovedIs(after, mem, to, from, n) ==
  /\ after \in [0 .. MemEnd - 1 -> Bytes]
  /\ \A i \in 0 .. MemEnd - 1 : after[i] = IF i \in to .. to + n - 1 THEN mem[i - to + from] ELSE mem[i]

\* What a move of n bytes leaves in the buffer.
LEMMA BytesMoved ==
  ASSUME NEW mem \in [0 .. MemEnd - 1 -> Bytes], NEW to \in Int, NEW from \in Int, NEW n \in Int,
         from >= 0, from + n <= MemEnd
  PROVE  MovedIs(memmove(mem, to, from, n), mem, to, from, n)
<1>1. MemEnd \in Nat
  BY MemoryIs, BufferAssumption
<1>2. \A i \in 0 .. MemEnd - 1 : i \in to .. to + n - 1 => i - to + from \in 0 .. MemEnd - 1
  BY <1>1
<1> QED
  BY <1>2 DEF memmove, MovedIs

LEMMA FieldIs ==
  ASSUME NEW f, InBuffer(f)
  PROVE  /\ f.cursor \in Nat /\ f.typed \in Seq(Keys) /\ Len(f.typed) \in Nat /\ f.longest \in Nat
         /\ f.cursor <= Len(f.typed) /\ Len(f.typed) <= result_len + 2 /\ Len(f.typed) <= f.longest
         /\ f.mem \in [0 .. MemEnd - 1 -> Bytes] /\ Holds(f.mem, f.typed)
         /\ Len(CString(f.mem)) = Len(f.typed)
<1>1. /\ f.typed \in Seq(Keys) /\ f.mem \in [0 .. MemEnd - 1 -> Bytes] /\ f.longest \in Int
      /\ Len(f.typed) <= result_len + 2 /\ Len(f.typed) <= f.longest
      /\ Holds(f.mem, f.typed) /\ f.cursor \in 0 .. Len(f.typed)
  BY DEF InBuffer, FieldRecords, Edited
<1>2. Len(f.typed) \in Nat
  BY <1>1
<1>3. Len(f.typed) < MemEnd /\ f.cursor \in Nat /\ f.cursor <= Len(f.typed) /\ f.longest \in Nat
  BY <1>1, <1>2, MemoryIs
<1>4. CString(f.mem) = f.typed
  BY <1>1, <1>3, TextInBuffer
<1> QED
  BY <1>1, <1>2, <1>3, <1>4

LEMMA EditedInBuffer ==
  ASSUME NEW f, InBuffer(f), NEW text, NEW at, NEW mem, NEW longest, NEW appended,
         Edited(mem, at, text, longest, appended),
         NEW g, g = [f EXCEPT !.mem = mem, !.cursor = at, !.typed = text, !.longest = longest, !.appended = appended]
  PROVE  InBuffer(g)
<1>1. /\ f \in FieldRecords /\ at \in Int /\ text \in Seq(Keys) /\ mem \in [0 .. MemEnd - 1 -> Bytes]
      /\ longest \in Int /\ appended \in BOOLEAN
  BY DEF InBuffer, Edited
<1>2. /\ g \in FieldRecords /\ g.mem = mem /\ g.cursor = at /\ g.typed = text
      /\ g.longest = longest /\ g.appended = appended
  BY <1>1 DEF FieldRecords
<1> QED
  BY <1>2 DEF InBuffer, Edited

With(s, n, k, c) == SubSeq(s, 1, k) \o <<c>> \o SubSeq(s, k + 1, n)
Without(s, n, k) == SubSeq(s, 1, k) \o SubSeq(s, k + 2, n)
PutAt(mem, n, k, c) == [memmove(mem, k + 1, k, n + 1) EXCEPT ![k] = c]
PutIs(after, mem, n, k, c) ==
  \A i \in 0 .. MemEnd - 1 :
    after[i] = IF i = k THEN c ELSE IF k < i /\ i <= k + n + 1 THEN mem[i - 1] ELSE mem[i]
Erased(m, s, n, k, from, size, text, mem) ==
  /\ n = Len(s) /\ k < n /\ from = k + 1 /\ size >= n - k /\ size <= n - k + 1
  /\ text = Without(s, n, k) /\ mem = memmove(m, k, from, size)
LeftAlone(after, mem, first) == \A i \in first .. MemEnd - 1 : after[i] = mem[i]
Joined(a, b) == a \o b

JoinedIs(a, b, n, m) ==
  /\ Joined(a, b) \in Seq(Keys) /\ Len(Joined(a, b)) = n + m
  /\ \A i \in 1 .. n : Joined(a, b)[i] = a[i]
  /\ \A i \in 1 .. m : Joined(a, b)[n + i] = b[i]
WithIs(t, s, n, k, c) ==
  /\ t \in Seq(Keys) /\ Len(t) = n + 1
  /\ \A i \in 1 .. n + 1 : t[i] = IF i <= k THEN s[i] ELSE IF i = k + 1 THEN c ELSE s[i - 1]
WithoutIs(t, s, n, k) ==
  /\ t \in Seq(Keys) /\ Len(t) = n - 1
  /\ \A i \in 1 .. n - 1 : t[i] = IF i <= k THEN s[i] ELSE s[i + 1]

LEMMA TwoParts ==
  ASSUME NEW a \in Seq(Keys), NEW b \in Seq(Keys), NEW n \in Nat, n = Len(a), NEW m \in Nat, m = Len(b)
  PROVE  JoinedIs(a, b, n, m)
BY DEF Joined, JoinedIs

\* A character is put into a text, and one is taken out of it.
LEMMA PutIn ==
  ASSUME NEW s \in Seq(Keys), NEW n \in Nat, n = Len(s), NEW k \in Nat, k <= n, NEW c \in Keys
  PROVE  WithIs(With(s, n, k, c), s, n, k, c)
<1> DEFINE t == With(s, n, k, c)
<1> DEFINE a == SubSeq(s, 1, k)
           b == SubSeq(s, k + 1, n)
           m == <<c>>
<1>1. a \in Seq(Keys) /\ Len(a) = k /\ \A i \in 1 .. k : a[i] = s[i]
  OBVIOUS
<1>2. b \in Seq(Keys) /\ Len(b) = n - k /\ \A i \in 1 .. n - k : b[i] = s[k + i]
  <2>1. b \in Seq(Keys) /\ Len(b) = n - k
    OBVIOUS
  <2>2. ASSUME NEW i \in 1 .. n - k PROVE b[i] = s[k + i]
    <3>1. b[i] = s[(k + 1) + i - 1] /\ (k + 1) + i - 1 = k + i
      OBVIOUS
    <3> QED
      BY <3>1
  <2> QED
    BY <2>1, <2>2
<1>3. m \in Seq(Keys) /\ Len(m) = 1 /\ m[1] = c
  OBVIOUS
<1> HIDE DEF a, b, m
<1> DEFINE am == Joined(a, m)
           one == 1
           k1 == k + 1
           nk == n - k
<1>4. am \in Seq(Keys) /\ Len(am) = k + 1 /\ (\A i \in 1 .. k : am[i] = s[i]) /\ am[k + 1] = c
  <2>0. m \in Seq(Keys)
    BY <1>3
  <2>1. one \in Nat
    OBVIOUS
  <2>2. one = Len(m)
    BY <1>3
  <2>3. /\ am \in Seq(Keys) /\ Len(am) = k + one
        /\ \A i \in 1 .. k : am[i] = a[i]
        /\ \A i \in 1 .. one : am[k + i] = m[i]
    <3> HIDE DEF one
    <3> QED
      BY <1>1, <2>0, <2>1, <2>2, TwoParts DEF JoinedIs
  <2> HIDE DEF am
  <2> QED
    BY <1>1, <1>3, <2>3
<1>5. t = Joined(am, b)
  BY DEF a, b, m, With, Joined
<1> HIDE DEF t
<1>6. /\ t \in Seq(Keys) /\ Len(t) = k1 + nk
      /\ \A i \in 1 .. k1 : t[i] = am[i]
      /\ \A i \in 1 .. nk : t[k1 + i] = b[i]
  <2>1. k1 \in Nat /\ nk \in Nat
    OBVIOUS
  <2>2. k1 = Len(am) /\ nk = Len(b)
    BY <1>2, <1>4
  <2>3. am \in Seq(Keys) /\ b \in Seq(Keys)
    BY <1>2, <1>4
  <2> HIDE DEF am, k1, nk
  <2>4. JoinedIs(am, b, k1, nk)
    BY <2>1, <2>2, <2>3, TwoParts
  <2> QED
    BY <1>5, <2>4 DEF JoinedIs
<1> HIDE DEF am
<1>7. ASSUME NEW i \in 1 .. k + 1 PROVE t[i] = IF i <= k THEN s[i] ELSE c
  <2>1. t[i] = am[i] /\ (i <= k => i \in 1 .. k) /\ (~(i <= k) => i = k + 1)
    BY <1>6
  <2> QED
    BY <1>4, <2>1
<1>8. ASSUME NEW i \in k + 2 .. n + 1 PROVE t[i] = s[i - 1]
  <2>1. i - (k + 1) \in 1 .. n - k /\ k + (i - (k + 1)) = i - 1 /\ (k + 1) + (i - (k + 1)) = i
    OBVIOUS
  <2>2. t[i] = b[i - (k + 1)]
    BY <1>6, <2>1
  <2> QED
    BY <1>2, <2>1, <2>2
<1>9. \A i \in 1 .. n + 1 : t[i] = IF i <= k THEN s[i] ELSE IF i = k + 1 THEN c ELSE s[i - 1]
  <2> SUFFICES ASSUME NEW i \in 1 .. n + 1
               PROVE  t[i] = IF i <= k THEN s[i] ELSE IF i = k + 1 THEN c ELSE s[i - 1]
    OBVIOUS
  <2>1. CASE i \in 1 .. k + 1
    BY <1>7, <2>1
  <2>2. CASE i \in k + 2 .. n + 1
    BY <1>8, <2>2
  <2> QED
    BY <2>1, <2>2
<1>10. k1 + nk = n + 1
  OBVIOUS
<1> QED
  BY <1>6, <1>9, <1>10 DEF t, WithIs

LEMMA TakenOut ==
  ASSUME NEW s \in Seq(Keys), NEW n \in Nat, n = Len(s), NEW k \in Nat, k < n
  PROVE  WithoutIs(Without(s, n, k), s, n, k)
<1> DEFINE t == Without(s, n, k)
<1> DEFINE a == SubSeq(s, 1, k)
           b == SubSeq(s, k + 2, n)
<1>1. a \in Seq(Keys) /\ Len(a) = k /\ \A i \in 1 .. k : a[i] = s[i]
  OBVIOUS
<1>2. b \in Seq(Keys) /\ Len(b) = n - k - 1 /\ \A i \in 1 .. n - k - 1 : b[i] = s[k + 1 + i]
  <2>1. b \in Seq(Keys) /\ Len(b) = n - k - 1
    OBVIOUS
  <2>2. ASSUME NEW i \in 1 .. n - k - 1 PROVE b[i] = s[k + 1 + i]
    <3>1. b[i] = s[(k + 2) + i - 1] /\ (k + 2) + i - 1 = k + 1 + i
      OBVIOUS
    <3> QED
      BY <3>1
  <2> QED
    BY <2>1, <2>2
<1> DEFINE nk == n - k - 1
<1>3. /\ t \in Seq(Keys) /\ Len(t) = k + nk
      /\ \A i \in 1 .. k : t[i] = a[i]
      /\ \A i \in 1 .. nk : t[k + i] = b[i]
  <2>1. nk \in Nat
    OBVIOUS
  <2>2. nk = Len(b) /\ k = Len(a) /\ t = Joined(a, b)
    BY <1>1, <1>2 DEF Without, Joined
  <2> HIDE DEF a, b, nk
  <2> QED
    <3>1. JoinedIs(a, b, k, nk)
      BY <1>1, <1>2, <2>1, <2>2, TwoParts
    <3> QED
      BY <2>2, <3>1 DEF JoinedIs
<1> HIDE DEF a, b
<1>4. ASSUME NEW i \in 1 .. k PROVE t[i] = s[i]
  BY <1>1, <1>3
<1>5. ASSUME NEW i \in k + 1 .. n - 1 PROVE t[i] = s[i + 1]
  <2>1. i - k \in 1 .. n - k - 1 /\ k + 1 + (i - k) = i + 1 /\ k + (i - k) = i
    OBVIOUS
  <2>2. t[i] = b[i - k]
    BY <1>3, <2>1
  <2> QED
    BY <1>2, <2>1, <2>2
<1>6. \A i \in 1 .. n - 1 : t[i] = IF i <= k THEN s[i] ELSE s[i + 1]
  <2> SUFFICES ASSUME NEW i \in 1 .. n - 1 PROVE t[i] = IF i <= k THEN s[i] ELSE s[i + 1]
    OBVIOUS
  <2>1. CASE i \in 1 .. k
    BY <1>4, <2>1
  <2>2. CASE i \in k + 1 .. n - 1
    BY <1>5, <2>2
  <2> QED
    BY <2>1, <2>2
<1>7. k + nk = n - 1
  OBVIOUS
<1> QED
  BY <1>3, <1>6, <1>7 DEF WithoutIs

LEMMA PutInBuffer ==
  ASSUME NEW mem \in [0 .. MemEnd - 1 -> Bytes], NEW s \in Seq(Keys), NEW n \in Nat, n = Len(s),
         n < MemEnd, Holds(mem, s), NEW k \in Nat, k <= n, k + 1 + n < MemEnd, NEW c \in Keys,
         NEW t, t = With(s, n, k, c), NEW after, after = PutAt(mem, n, k, c)
  PROVE  after \in [0 .. MemEnd - 1 -> Bytes] /\ Holds(after, t) /\ PutIs(after, mem, n, k, c)
<1> DEFINE moved == memmove(mem, k + 1, k, n + 1)
           to == k + 1
           size == n + 1
<1>1. MemEnd \in Nat /\ to \in Int /\ size \in Int /\ k + size <= MemEnd
  BY MemoryIs, BufferAssumption
<1>2. /\ t \in Seq(Keys) /\ Len(t) = n + 1
      /\ \A i \in 1 .. n + 1 : t[i] = IF i <= k THEN s[i] ELSE IF i = k + 1 THEN c ELSE s[i - 1]
  <2>1. WithIs(t, s, n, k, c)
    BY PutIn
  <2> QED
    BY <2>1 DEF WithIs
<1>3. /\ moved \in [0 .. MemEnd - 1 -> Bytes]
      /\ \A i \in 0 .. MemEnd - 1 :
           moved[i] = IF i \in to .. to + size - 1 THEN mem[i - to + k] ELSE mem[i]
  <2> HIDE DEF to, size
  <2>1. MovedIs(memmove(mem, to, k, size), mem, to, k, size)
    BY <1>1, BytesMoved
  <2> QED
    BY <2>1 DEF MovedIs, to, size
<1> HIDE DEF moved
<1>4. \A i \in 0 .. MemEnd - 1 : moved[i] = IF k < i /\ i <= k + n + 1 THEN mem[i - 1] ELSE mem[i]
  <2> SUFFICES ASSUME NEW i \in 0 .. MemEnd - 1
               PROVE  moved[i] = IF k < i /\ i <= k + n + 1 THEN mem[i - 1] ELSE mem[i]
    OBVIOUS
  <2>1. i - to + k = i - 1 /\ (i \in to .. to + size - 1 <=> k < i /\ i <= k + n + 1)
    OBVIOUS
  <2> HIDE DEF to, size
  <2> QED
    BY <1>3, <2>1
<1>5. after = [moved EXCEPT ![k] = c]
  BY DEF moved, PutAt
<1>6. /\ after \in [0 .. MemEnd - 1 -> Bytes] /\ after[k] = c
      /\ \A i \in 0 .. MemEnd - 1 : i # k => after[i] = moved[i]
  <2>1. c \in Bytes /\ k \in 0 .. MemEnd - 1
    BY <1>1 DEF Bytes
  <2>2. moved \in [0 .. MemEnd - 1 -> Bytes]
    BY <1>3
  <2> QED
    BY <1>5, <2>1, <2>2
<1>7. mem[n] = "0" /\ \A i \in 0 .. n - 1 : mem[i] = s[i + 1]
  BY DEF Holds
<1>8. after[n + 1] = "0"
  <2>1. n + 1 \in 0 .. MemEnd - 1 /\ n + 1 # k /\ k < n + 1 /\ n + 1 <= k + n + 1 /\ (n + 1) - 1 = n
    BY <1>1
  <2> QED
    BY <1>4, <1>6, <1>7, <2>1
<1>9. ASSUME NEW i \in 0 .. n PROVE after[i] = t[i + 1]
  <2>0. i \in 0 .. MemEnd - 1 /\ i + 1 \in 1 .. n + 1
    BY <1>1
  <2>1. CASE i < k
    <3>1. after[i] = mem[i] /\ i \in 0 .. n - 1 /\ i + 1 <= k
      BY <1>4, <1>6, <2>0, <2>1
    <3> QED
      BY <1>2, <1>7, <2>0, <3>1
  <2>2. CASE i = k
    <3>1. ~(i + 1 <= k) /\ i + 1 = k + 1
      BY <2>2
    <3> QED
      BY <1>2, <1>6, <2>0, <2>2, <3>1
  <2>3. CASE i > k
    <3>1. after[i] = mem[i - 1] /\ i - 1 \in 0 .. n - 1 /\ (i - 1) + 1 = i
      BY <1>4, <1>6, <2>0, <2>3
    <3>2. ~(i + 1 <= k) /\ i + 1 # k + 1 /\ (i + 1) - 1 = i
      BY <2>3
    <3>3. t[i + 1] = s[i]
      BY <1>2, <2>0, <3>2
    <3> QED
      BY <1>7, <3>1, <3>3
  <2> QED
    BY <2>1, <2>2, <2>3
<1>10. after[Len(t)] = "0" /\ \A i \in 0 .. Len(t) - 1 : after[i] = t[i + 1]
  <2>1. 0 .. Len(t) - 1 = 0 .. n
    BY <1>2
  <2> QED
    BY <1>2, <1>8, <1>9, <2>1
<1>11. PutIs(after, mem, n, k, c)
  BY <1>4, <1>6 DEF PutIs
<1> QED
  BY <1>6, <1>10, <1>11 DEF Holds

LEMMA TakenOutOfBuffer ==
  ASSUME NEW mem \in [0 .. MemEnd - 1 -> Bytes], NEW s \in Seq(Keys), NEW n \in Nat, NEW k \in Nat,
         NEW from \in Nat, NEW size \in Nat, NEW t, NEW after, Erased(mem, s, n, k, from, size, t, after),
         n < MemEnd, from + size <= MemEnd, Holds(mem, s)
  PROVE  after \in [0 .. MemEnd - 1 -> Bytes] /\ Holds(after, t) /\ LeftAlone(after, mem, k + size)
<1>0. /\ n = Len(s) /\ k < n /\ from = k + 1 /\ size >= n - k
      /\ t = Without(s, n, k) /\ after = memmove(mem, k, from, size)
  BY DEF Erased
<1>1. MemEnd \in Nat /\ from \in Int /\ size \in Int /\ k \in Int /\ from >= 0 /\ from + size <= MemEnd
  BY <1>0, MemoryIs
<1>2. /\ t \in Seq(Keys) /\ Len(t) = n - 1
      /\ \A i \in 1 .. n - 1 : t[i] = IF i <= k THEN s[i] ELSE s[i + 1]
  <2>1. WithoutIs(t, s, n, k)
    BY <1>0, TakenOut
  <2> QED
    BY <2>1 DEF WithoutIs
<1>3. /\ after \in [0 .. MemEnd - 1 -> Bytes]
      /\ \A i \in 0 .. MemEnd - 1 :
           after[i] = IF i \in k .. k + size - 1 THEN mem[i - k + from] ELSE mem[i]
  <2>1. MovedIs(after, mem, k, from, size)
    BY <1>0, <1>1, BytesMoved
  <2> QED
    BY <2>1 DEF MovedIs
<1>4. \A i \in 0 .. n - 1 : after[i] = IF i < k THEN mem[i] ELSE mem[i + 1]
  <2> SUFFICES ASSUME NEW i \in 0 .. n - 1 PROVE after[i] = IF i < k THEN mem[i] ELSE mem[i + 1]
    OBVIOUS
  <2>1. i \in 0 .. MemEnd - 1 /\ i - k + from = i + 1 /\ (i \in k .. k + size - 1 <=> ~(i < k))
    BY <1>0, <1>1
  <2> QED
    BY <1>3, <2>1
<1>5. mem[n] = "0" /\ \A i \in 0 .. n - 1 : mem[i] = s[i + 1]
  BY <1>0 DEF Holds
<1>6. after[n - 1] = "0"
  <2>1. n - 1 \in 0 .. n - 1 /\ ~(n - 1 < k) /\ (n - 1) + 1 = n
    BY <1>0
  <2> QED
    BY <1>4, <1>5, <2>1
<1>7. ASSUME NEW i \in 0 .. n - 2 PROVE after[i] = t[i + 1]
  <2>0. i \in 0 .. n - 1 /\ i + 1 \in 0 .. n - 1 /\ i + 1 \in 1 .. n - 1 /\ (i < k <=> i + 1 <= k)
    OBVIOUS
  <2> QED
    BY <1>2, <1>4, <1>5, <2>0
<1>8. after[Len(t)] = "0" /\ \A i \in 0 .. Len(t) - 1 : after[i] = t[i + 1]
  <2>1. 0 .. Len(t) - 1 = 0 .. n - 2
    BY <1>2
  <2> QED
    BY <1>2, <1>6, <1>7, <2>1
<1>9. ASSUME NEW i \in k + size .. MemEnd - 1 PROVE after[i] = mem[i]
  <2>1. i \in 0 .. MemEnd - 1 /\ ~(i \in k .. k + size - 1)
    BY <1>1
  <2> QED
    BY <1>3, <2>1
<1> QED
  BY <1>3, <1>8, <1>9 DEF Holds, LeftAlone

\* What is beyond the buffer, and the buffer of an appended text, after a
\* character is put in.
LEMMA PutKeeps ==
  ASSUME NEW mem \in [0 .. MemEnd - 1 -> Bytes], NEW after \in [0 .. MemEnd - 1 -> Bytes],
         NEW n \in Nat, NEW k \in Nat, k <= n, n <= result_len + 1, NEW c \in Keys,
         PutIs(after, mem, n, k, c),
         NEW s \in Seq(Keys), n = Len(s), NEW t, Len(t) = n + 1
  PROVE  /\ 2 * (n + 1) <= result_len /\ BeyondKept(mem) => BeyondKept(after)
         /\ k = n /\ Appended(mem, s, k) => Appended(after, t, k + 1)
<1>1. /\ MemEnd \in Nat /\ MemEnd = 2 * result_len + 4
      /\ result_len \in Nat /\ result_len >= 1 /\ result_len < MemEnd
  BY MemoryIs
<1> USE DEF PutIs
<1>2. ASSUME 2 * (n + 1) <= result_len, BeyondKept(mem) PROVE BeyondKept(after)
  <2> SUFFICES ASSUME NEW i \in result_len .. MemEnd - 1 PROVE after[i] = "other"
    BY DEF BeyondKept
  <2>1. i \in 0 .. MemEnd - 1 /\ i # k /\ ~(i <= k + n + 1)
    BY <1>1, <1>2
  <2>2. mem[i] = "other"
    BY <1>2 DEF BeyondKept
  <2> QED
    BY <2>1, <2>2
<1>3. ASSUME k = n, Appended(mem, s, k) PROVE Appended(after, t, k + 1)
  <2>1. c # "other"
    BY BufferAssumption
  <2>2. \A i \in 0 .. result_len - 1 : mem[i] # "other"
    BY <1>3 DEF Appended
  <2>3. ASSUME NEW i \in 0 .. result_len - 1 PROVE after[i] # "other"
    <3>1. i \in 0 .. MemEnd - 1 /\ (k < i => i - 1 \in 0 .. result_len - 1)
      BY <1>1
    <3> QED
      BY <2>1, <2>2, <3>1
  <2>4. ASSUME 2 * (k + 1) > result_len PROVE after[result_len] # "other"
    <3>1. result_len \in 0 .. MemEnd - 1 /\ result_len - 1 \in 0 .. result_len - 1
      BY <1>1
    <3>2. CASE result_len = k
      BY <2>1, <3>1, <3>2
    <3>3. CASE result_len > k
      <4>1. k < result_len /\ result_len <= k + n + 1 /\ result_len # k
        BY <1>1, <1>3, <2>4, <3>3
      <4>2. after[result_len] = mem[result_len - 1]
        BY <3>1, <4>1
      <4> QED
        BY <2>2, <3>1, <4>2
    <3>4. CASE result_len < k
      <4>1. ~(k < result_len) /\ result_len # k /\ 2 * k > result_len
        BY <1>1, <3>4
      <4>2. after[result_len] = mem[result_len]
        BY <3>1, <4>1
      <4> QED
        BY <1>3, <4>1, <4>2 DEF Appended
    <3> QED
      BY <1>1, <3>2, <3>3, <3>4
  <2> QED
    BY <1>3, <2>3, <2>4 DEF Appended
<1> QED
  BY <1>2, <1>3

LEMMA PutIntoField ==
  ASSUME NEW m \in [0 .. MemEnd - 1 -> Bytes], NEW k \in Nat, NEW s \in Seq(Keys), NEW l \in Nat,
         NEW appended, Edited(m, k, s, l, appended),
         NEW n \in Nat, n = Len(s), n <= result_len + 1, NEW c \in Keys,
         NEW text, text = With(s, n, k, c), NEW mem, mem = PutAt(m, n, k, c),
         NEW at \in Nat, at = k + 1, NEW longest \in Nat, longest = IF l >= n + 1 THEN l ELSE n + 1
  PROVE  Edited(mem, at, text, longest, appended)
<1>1. /\ k <= n /\ n <= l /\ Holds(m, s) /\ appended \in BOOLEAN
      /\ 2 * l <= result_len => BeyondKept(m)
      /\ appended => l = k /\ Appended(m, s, k) /\ k = n
  BY DEF Edited, Appended
<1>2. k + 1 + n < MemEnd /\ n < MemEnd /\ MemEnd \in Nat /\ result_len \in Nat
  BY <1>1, MemoryIs
<1>3. mem \in [0 .. MemEnd - 1 -> Bytes] /\ Holds(mem, text) /\ PutIs(mem, m, n, k, c)
  BY <1>1, <1>2, PutInBuffer
<1>4. text \in Seq(Keys) /\ Len(text) = n + 1
  <2>1. WithIs(text, s, n, k, c)
    BY <1>1, PutIn
  <2> QED
    BY <2>1 DEF WithIs
<1>5. /\ 2 * (n + 1) <= result_len /\ BeyondKept(m) => BeyondKept(mem)
      /\ k = n /\ Appended(m, s, k) => Appended(mem, text, k + 1)
  BY <1>1, <1>3, <1>4, PutKeeps
<1>6. /\ 2 * longest <= result_len => BeyondKept(mem)
      /\ appended => longest = at /\ Appended(mem, text, at)
  BY <1>1, <1>2, <1>5
<1>7. at \in 0 .. Len(text) /\ Len(text) <= result_len + 2 /\ Len(text) <= longest /\ longest \in Int
  BY <1>1, <1>2, <1>4
<1> QED
  BY <1>1, <1>3, <1>4, <1>6, <1>7 DEF Edited

LEMMA Inserts ==
  ASSUME BufferInv, NEW c \in Keys, Insert(c)
  PROVE  BufferInv'
<1> DEFINE n == Len(field.typed)
           k == field.cursor
           l == field.longest
           mem == PutAt(field.mem, n, k, c)
           text == With(field.typed, n, k, c)
           at == k + 1
           n1 == n + 1
           longest == Max({l, n1})
<1>1. use = "field" /\ use' = "field" /\ length - 2 < result_len
  BY DEF Insert, FieldStep
<1>2. InBuffer(field)
  BY <1>1 DEF BufferInv
<1>3. /\ k \in Nat /\ n \in Nat /\ k <= n /\ l \in Nat /\ length = n
      /\ field.typed \in Seq(Keys) /\ field.mem \in [0 .. MemEnd - 1 -> Bytes]
  BY <1>2, FieldIs DEF length
<1>4. n <= result_len + 1 /\ at \in Nat /\ n1 \in Nat
  BY <1>1, <1>3, MemoryIs
<1>5. field' = [field EXCEPT !.mem = mem, !.cursor = at, !.typed = text, !.longest = longest]
  BY <1>3 DEF Insert, FieldStep, PutAt, With
<1>6. longest \in Nat /\ longest = IF l >= n + 1 THEN l ELSE n + 1
  <2>1. longest = IF l >= n1 THEN l ELSE n1
    <3> HIDE DEF l, n1
    <3> QED
      BY <1>3, <1>4, MaxOfTwo
  <2> QED
    BY <1>3, <1>4, <2>1
<1> HIDE DEF mem, text, longest, at
<1>7. field' = [field EXCEPT !.mem = mem, !.cursor = at, !.typed = text, !.longest = longest,
                             !.appended = field.appended]
  BY <1>2, <1>5 DEF InBuffer, FieldRecords
<1> DEFINE appended == field.appended
<1>8. appended = field.appended /\ mem = PutAt(field.mem, n, k, c) /\ text = With(field.typed, n, k, c) /\ at = k + 1 /\ n = Len(field.typed)
  BY DEF mem, text, at
<1>9. k = field.cursor /\ l = field.longest
  OBVIOUS
<1> HIDE DEF n, k, l, appended
<1>10. Edited(mem, at, text, longest, appended)
  <2>1. Edited(field.mem, k, field.typed, l, appended)
    BY <1>2, <1>8, <1>9 DEF InBuffer
  <2> QED
    BY <1>3, <1>4, <1>6, <1>8, <2>1, PutIntoField
<1>11. InBuffer(field')
  BY <1>2, <1>7, <1>8, <1>10, EditedInBuffer
<1> QED
  BY <1>1, <1>11 DEF BufferInv

\* Both erase the character at a place: the one before the cursor or the
\* one under it.
LEMMA TakenOutOfField ==
  ASSUME NEW m \in [0 .. MemEnd - 1 -> Bytes], NEW cursor, NEW s \in Seq(Keys), NEW l \in Nat, NEW appended,
         Edited(m, cursor, s, l, appended),
         NEW n \in Nat, NEW k \in Nat, NEW from \in Nat, NEW size \in Nat, NEW text, NEW mem,
         Erased(m, s, n, k, from, size, text, mem),
         NEW at \in 0 .. k, NEW no, no = FALSE
  PROVE  Edited(mem, at, text, l, no)
<1>0. /\ n = Len(s) /\ k < n /\ from = k + 1 /\ size >= n - k /\ size <= n - k + 1
      /\ text = Without(s, n, k) /\ mem = memmove(m, k, from, size)
  BY DEF Erased
<1>1. /\ n <= result_len + 2 /\ n <= l /\ Holds(m, s)
      /\ 2 * l <= result_len => BeyondKept(m)
  BY <1>0 DEF Edited
<1>2. n < MemEnd /\ from + size <= MemEnd /\ MemEnd \in Nat /\ result_len \in Nat
  BY <1>0, <1>1, MemoryIs
<1>3. mem \in [0 .. MemEnd - 1 -> Bytes] /\ Holds(mem, text) /\ LeftAlone(mem, m, k + size)
  BY <1>1, <1>2, TakenOutOfBuffer
<1>4. text \in Seq(Keys) /\ Len(text) = n - 1
  <2>1. WithoutIs(text, s, n, k)
    BY <1>0, TakenOut
  <2> QED
    BY <1>0, <2>1 DEF WithoutIs
<1>5. at \in 0 .. Len(text) /\ Len(text) <= result_len + 2 /\ Len(text) <= l /\ l \in Int
  BY <1>0, <1>1, <1>2, <1>4
<1>6. ASSUME 2 * l <= result_len PROVE BeyondKept(mem)
  <2>1. BeyondKept(m)
    BY <1>1, <1>6
  <2> SUFFICES ASSUME NEW i \in result_len .. MemEnd - 1 PROVE mem[i] = "other"
    BY DEF BeyondKept
  <2>2. i \in k + size .. MemEnd - 1
    BY <1>0, <1>1, <1>2, <1>6
  <2> QED
    BY <1>3, <2>1, <2>2 DEF BeyondKept, LeftAlone
<1> QED
  BY <1>3, <1>4, <1>5, <1>6 DEF Edited

LEMMA BufferStepped ==
  ASSUME BufferInv, GuiNext
  PROVE  BufferInv'
<1>1. CASE OpenField
  <2>1. PICK init \in Openings :
          field' = [on |-> TRUE, cursor |-> Len(init), typed |-> init, mem |-> strncpy(init),
                    longest |-> Len(init), appended |-> init = <<>>]
    BY <1>1 DEF OpenField
  <2> DEFINE n == Len(init)
             mem == strncpy(init)
             empty == init = <<>>
  <2>2. init \in Seq(Keys) /\ n \in Nat /\ n < result_len /\ (empty => n = 0) /\ empty \in BOOLEAN
    BY BufferAssumption
  <2>3. \A i \in 1 .. n : init[i] \in Keys
    BY <2>2
  <2>4. n \in 0 .. n /\ n \in Int /\ n <= result_len + 2 /\ n < MemEnd /\ result_len \in Nat /\ MemEnd \in Nat
    BY <2>2, MemoryIs
  <2>5. field' = [on |-> TRUE, cursor |-> n, typed |-> init, mem |-> mem, longest |-> n, appended |-> empty]
    BY <2>1
  <2>6. mem = [i \in 0 .. MemEnd - 1 |-> IF i >= result_len THEN "other" ELSE IF i < n THEN init[i + 1] ELSE "0"]
    BY MemoryIs DEF strncpy
  <2> HIDE DEF n, mem, empty
  <2>7. mem \in [0 .. MemEnd - 1 -> Bytes]
    <3> SUFFICES ASSUME NEW i \in 0 .. MemEnd - 1
                 PROVE  (IF i >= result_len THEN "other" ELSE IF i < n THEN init[i + 1] ELSE "0") \in Bytes
      BY <2>6
    <3>1. i < n => i + 1 \in 1 .. n
      BY <2>4
    <3> QED
      BY <2>3, <3>1 DEF Bytes
  <2>8. mem[n] = "0" /\ \A i \in 0 .. n - 1 : mem[i] = init[i + 1]
    BY <2>2, <2>4, <2>6
  <2>9. BeyondKept(mem)
    BY <2>4, <2>6 DEF BeyondKept
  <2>10. ASSUME empty PROVE Appended(mem, init, n)
    <3>1. ASSUME NEW i \in 0 .. result_len - 1 PROVE mem[i] # "other"
      <4>1. i \in 0 .. MemEnd - 1 /\ ~(i >= result_len) /\ ~(i < n)
        BY <2>2, <2>10, MemoryIs
      <4>2. mem[i] = "0"
        BY <2>6, <4>1
      <4> QED
        BY <4>2
    <3>2. ~(2 * n > result_len)
      BY <2>2, <2>4, <2>10
    <3> QED
      BY <3>1, <3>2 DEF Appended, n
  <2>11. /\ field' \in FieldRecords /\ field'.cursor = n /\ field'.typed = init /\ field'.mem = mem
         /\ field'.longest = n /\ field'.appended = empty
    BY <2>2, <2>4, <2>5, <2>7 DEF FieldRecords
  <2> QED
    <3>1. n = Len(init) /\ Holds(mem, init)
      BY <2>8 DEF Holds, n
    <3>2. Edited(mem, n, init, n, empty)
      BY <2>2, <2>4, <2>7, <2>9, <2>10, <3>1 DEF Edited
    <3> QED
      BY <2>11, <3>2 DEF BufferInv, InBuffer
<1>2. CASE \E c \in Keys : Insert(c)
  BY <1>2, Inserts
<1>3. CASE EraseBefore
  <2> DEFINE k == field.cursor - 1
             from == field.cursor
             size == length - field.cursor + 1
             text == SubSeq(field.typed, 1, field.cursor - 1) \o SubSeq(field.typed, field.cursor + 1, Len(field.typed))
             mem == memmove(field.mem, k, from, size)
             n == Len(field.typed)
             l == field.longest
  <2>1. InBuffer(field) /\ use = "field"
    BY <1>3 DEF EraseBefore, BufferInv
  <2>0. field.typed \in Seq(Keys) /\ field.mem \in [0 .. MemEnd - 1 -> Bytes] /\ l \in Nat /\ n \in Nat
    BY <2>1, FieldIs
  <2>2. /\ field.cursor \in Nat /\ n \in Nat /\ field.cursor <= n
        /\ length = n /\ field.cursor > 0
    BY <1>3, <2>1, FieldIs DEF length, EraseBefore
  <2>3. /\ k \in Nat /\ k < n /\ k \in 0 .. k /\ from \in Nat /\ from = k + 1
        /\ size \in Nat /\ size >= n - k /\ size <= n - k + 1
        /\ field.cursor + 1 = k + 2
    BY <2>2
  <2>4. text = Without(field.typed, n, k)
    BY <2>3 DEF Without
  <2>5. use' = "field" /\ field' = [field EXCEPT !.mem = mem, !.cursor = k, !.typed = text, !.appended = FALSE]
    BY <1>3, <2>1 DEF EraseBefore, FieldStep
  <2>6. mem = memmove(field.mem, k, from, size)
    OBVIOUS
  <2> HIDE DEF k, from, size, text, mem
  <2> DEFINE no == FALSE
  <2>7. field' = [field EXCEPT !.mem = mem, !.cursor = k, !.typed = text, !.longest = l, !.appended = no]
    BY <2>1, <2>5 DEF InBuffer, FieldRecords
  <2>8. n = Len(field.typed) /\ l = field.longest /\ no = FALSE
    OBVIOUS
  <2> HIDE DEF n, l, no
  <2>9. Edited(field.mem, field.cursor, field.typed, l, field.appended)
    BY <2>1, <2>8 DEF InBuffer
  <2>10. Edited(mem, k, text, l, no)
    <3>1. ASSUME NEW at \in 0 .. k PROVE Edited(mem, at, text, l, no)
      <4>1. Erased(field.mem, field.typed, n, k, from, size, text, mem)
        BY <2>3, <2>4, <2>6, <2>8 DEF Erased
      <4> QED
        BY <2>0, <2>3, <2>8, <2>9, <4>1, TakenOutOfField
    <3> QED
      BY <2>3, <3>1
  <2>11. InBuffer(field')
    BY <2>1, <2>7, <2>10, EditedInBuffer
  <2> QED
    BY <2>11 DEF BufferInv
<1>4. CASE EraseUnder
  <2> DEFINE k == field.cursor
             from == field.cursor + 1
             size == length - field.cursor + 1
             text == SubSeq(field.typed, 1, field.cursor) \o SubSeq(field.typed, field.cursor + 2, Len(field.typed))
             mem == memmove(field.mem, k, from, size)
             n == Len(field.typed)
             l == field.longest
  <2>1. InBuffer(field) /\ use = "field"
    BY <1>4 DEF EraseUnder, BufferInv
  <2>0. field.typed \in Seq(Keys) /\ field.mem \in [0 .. MemEnd - 1 -> Bytes] /\ l \in Nat /\ n \in Nat
    BY <2>1, FieldIs
  <2>2. /\ field.cursor \in Nat /\ n \in Nat /\ field.cursor < n
        /\ length = n
    BY <1>4, <2>1, FieldIs DEF length, EraseUnder
  <2>3. /\ k \in Nat /\ k < n /\ k \in 0 .. k /\ from \in Nat /\ from = k + 1
        /\ size \in Nat /\ size >= n - k /\ size <= n - k + 1
    BY <2>2
  <2>4. text = Without(field.typed, n, k)
    BY DEF Without
  <2>5. use' = "field" /\ field' = [field EXCEPT !.mem = mem, !.cursor = k, !.typed = text, !.appended = FALSE]
    <3>1. use' = "field" /\ field' = [field EXCEPT !.mem = mem, !.typed = text, !.appended = FALSE]
      BY <1>4, <2>1 DEF EraseUnder, FieldStep
    <3> HIDE DEF mem, text
    <3>2. field' = [field EXCEPT !.mem = mem, !.cursor = k, !.typed = text, !.appended = FALSE]
      BY <2>1, <3>1 DEF InBuffer, FieldRecords
    <3> QED
      BY <3>1, <3>2
  <2>6. mem = memmove(field.mem, k, from, size)
    OBVIOUS
  <2> HIDE DEF k, from, size, text, mem
  <2> DEFINE no == FALSE
  <2>7. field' = [field EXCEPT !.mem = mem, !.cursor = k, !.typed = text, !.longest = l, !.appended = no]
    BY <2>1, <2>5 DEF InBuffer, FieldRecords
  <2>8. n = Len(field.typed) /\ l = field.longest /\ no = FALSE
    OBVIOUS
  <2> HIDE DEF n, l, no
  <2>9. Edited(field.mem, field.cursor, field.typed, l, field.appended)
    BY <2>1, <2>8 DEF InBuffer
  <2>10. Edited(mem, k, text, l, no)
    <3>1. ASSUME NEW at \in 0 .. k PROVE Edited(mem, at, text, l, no)
      <4>1. Erased(field.mem, field.typed, n, k, from, size, text, mem)
        BY <2>3, <2>4, <2>6, <2>8 DEF Erased
      <4> QED
        BY <2>0, <2>3, <2>8, <2>9, <4>1, TakenOutOfField
    <3> QED
      BY <2>3, <3>1
  <2>11. InBuffer(field')
    BY <2>1, <2>7, <2>10, EditedInBuffer
  <2> QED
    BY <2>11 DEF BufferInv
<1>5. CASE CursorRight \/ CursorLeft
  <2>1. InBuffer(field) /\ use = "field" /\ use' = "field"
    BY <1>5 DEF CursorRight, CursorLeft, FieldStep, BufferInv
  <2>2. /\ field.cursor \in Nat /\ field.typed \in Seq(Keys) /\ Len(field.typed) \in Nat
        /\ field.cursor <= Len(field.typed) /\ length = Len(field.typed)
        /\ field.longest \in Int /\ Len(field.typed) <= field.longest /\ Len(field.typed) <= result_len + 2
        /\ field.mem \in [0 .. MemEnd - 1 -> Bytes] /\ Holds(field.mem, field.typed)
    BY <2>1, FieldIs DEF length
  <2>3. /\ field.appended => field.cursor = Len(field.typed)
        /\ 2 * field.longest <= result_len => BeyondKept(field.mem)
    BY <2>1 DEF InBuffer, Edited, Appended
  <2>4. PICK at \in 0 .. Len(field.typed) : field' = [field EXCEPT !.cursor = at, !.appended = FALSE]
    <3>1. CASE CursorRight
      <4>1. field.cursor + 1 \in 0 .. Len(field.typed) /\ field' = [field EXCEPT !.cursor = field.cursor + 1]
        BY <2>2, <3>1 DEF CursorRight, FieldStep
      <4>2. field.appended = FALSE
        BY <2>1, <2>2, <2>3, <4>1 DEF InBuffer, FieldRecords
      <4>3. field' = [field EXCEPT !.cursor = field.cursor + 1, !.appended = FALSE]
        BY <2>1, <4>1, <4>2 DEF InBuffer, FieldRecords
      <4> QED
        BY <4>1, <4>3
    <3>2. CASE CursorLeft
      <4>1. /\ field.cursor - 1 \in 0 .. Len(field.typed)
            /\ field' = [field EXCEPT !.cursor = field.cursor - 1, !.appended = FALSE]
        BY <2>2, <3>2 DEF CursorLeft, FieldStep
      <4> QED
        BY <4>1
    <3> QED
      BY <1>5, <3>1, <3>2
  <2>5. field' = [field EXCEPT !.mem = field.mem, !.cursor = at, !.typed = field.typed, !.longest = field.longest,
                               !.appended = FALSE]
    BY <2>1, <2>4 DEF InBuffer, FieldRecords
  <2>6. FALSE \in BOOLEAN
    OBVIOUS
  <2>7. InBuffer(field')
    BY <2>1, <2>2, <2>3, <2>5, <2>6, EditedInBuffer DEF Edited
  <2> QED
    BY <2>7 DEF BufferInv
<1>6. CASE field' = field /\ use' = use
  BY <1>6 DEF BufferInv, InBuffer, Edited, Holds, FieldRecords, BeyondKept, Appended
<1>7. CASE use' # "field"
  BY <1>7 DEF BufferInv
<1>8. \/ field' = field /\ use' = use
      \/ use' # "field"
      \/ OpenField \/ EraseBefore \/ EraseUnder \/ CursorRight \/ CursorLeft
      \/ \E c \in Keys : Insert(c)
  BY DEF GuiNext, OpenList, MakeList, Remake, SlashKey, EscapeSearch, ErasePattern, EndSearch, MoveInList, LeaveList,
         TypePattern, FindNext, ListStep, OpenButtons, CloseButtons, MoveButton, CloseField, OpenText, CloseText, Scroll
<1> QED
  BY <1>1, <1>2, <1>3, <1>4, <1>5, <1>6, <1>7, <1>8

-----------------------------------------------------------------------------
(* The text: without End, every line down to the last one in the window    *)
(* has been shown.                                                         *)

WinRecords == [on : {TRUE}, total_lines : Nat \ {0}, start_y : Int, upto : Int, jumped : BOOLEAN]

Within(w) == w \in WinRecords /\ w.start_y \in 0 .. w.total_lines - text_lines(w)

(* What is known once the window is drawn, and what of it a move of that   *)
(* window leaves to the next drawing.                                      *)
Seen(w) ==
  /\ w.upto <= w.total_lines - 1
  /\ ~w.jumped => w.upto >= w.start_y + text_lines(w) - 1
Reached(w) ==
  /\ w.upto <= w.total_lines - 1
  /\ ~w.jumped => w.start_y <= w.upto

WinInv == use = "text" => Within(win) /\ Seen(win)

LEMMA TextLinesOf ==
  ASSUME NEW w \in WinRecords
  PROVE  /\ text_lines(w) \in Nat /\ 0 < text_lines(w) /\ text_lines(w) <= w.total_lines
         /\ text_lines(w) = w.total_lines \/ text_lines(w) >= 14
         /\ w.total_lines \in Nat /\ w.start_y \in Int /\ w.upto \in Int
<1> DEFINE most == w.total_lines + 4
           screen == LINES - 2
           window == Min({most, screen})
           lines == window - 4
           none == 0
<1>1. /\ w.total_lines \in Nat /\ w.total_lines > 0 /\ w.start_y \in Int /\ w.upto \in Int
      /\ LINES \in Nat /\ LINES >= 20
  BY ScreenAssumption DEF WinRecords
<1>2. most \in Int /\ screen \in Int /\ screen >= 18 /\ none \in Int
  BY <1>1
<1>3. window = IF most <= screen THEN most ELSE screen
  <2> HIDE DEF most, screen
  <2> QED
    BY <1>2, MinOfTwo
<1>4. lines \in Int /\ 0 < lines /\ lines <= w.total_lines /\ (lines = w.total_lines \/ lines >= 14)
  BY <1>1, <1>2, <1>3
<1>5. Max({lines, none}) = IF lines >= none THEN lines ELSE none
  <2> HIDE DEF lines, none
  <2> QED
    BY <1>2, <1>4, MaxOfTwo
<1>6. text_lines(w) = Max({lines, none})
  BY DEF text_lines
<1>7. text_lines(w) = lines
  <2> HIDE DEF lines
  <2> QED
    BY <1>4, <1>5, <1>6
<1> HIDE DEF lines
<1> QED
  BY <1>1, <1>4, <1>7

LEMMA WinIsDrawn ==
  ASSUME NEW w, Within(w), Reached(w) \/ Seen(w), use' = "text", win' = WinDrawn(w)
  PROVE  WinInv'
<1> DEFINE t == text_lines(w)
           last == LastShown(w) + 1
           to == IF w.start_y <= w.upto THEN Max({w.upto, last}) ELSE w.upto
<1>1. /\ w \in WinRecords /\ t \in Nat /\ 0 < t /\ t <= w.total_lines /\ w.total_lines \in Nat
      /\ w.start_y \in Int /\ w.upto \in Int /\ 0 <= w.start_y /\ w.start_y <= w.total_lines - t
  BY TextLinesOf DEF Within
<1>2. last \in Int /\ last = w.start_y + t - 1
  BY <1>1 DEF LastShown
<1>3. Max({w.upto, last}) = IF w.upto >= last THEN w.upto ELSE last
  <2> HIDE DEF last
  <2> QED
    BY <1>1, <1>2, MaxOfTwo
<1>4. to \in Int /\ to <= w.total_lines - 1 /\ (~w.jumped => to >= w.start_y + t - 1)
  <2> HIDE DEF last, t
  <2>1. last <= w.total_lines - 1 /\ w.upto <= w.total_lines - 1
    BY <1>1, <1>2 DEF Reached, Seen
  <2>2. ASSUME ~w.jumped PROVE w.start_y <= w.upto \/ w.upto >= last
    BY <1>1, <1>2, <2>2 DEF Reached, Seen, t
  <2> QED
    BY <1>1, <1>2, <1>3, <2>1, <2>2
<1>5. win' = [w EXCEPT !.upto = to]
  BY DEF WinDrawn
<1> HIDE DEF to, last
<1>6. /\ win' \in WinRecords /\ win'.total_lines = w.total_lines /\ win'.start_y = w.start_y
      /\ win'.jumped = w.jumped /\ win'.upto = to
  BY <1>1, <1>4, <1>5 DEF WinRecords
<1>7. text_lines(win') = t
  BY <1>6 DEF text_lines
<1> HIDE DEF t
<1>8. Within(win') /\ Seen(win')
  BY <1>1, <1>4, <1>6, <1>7 DEF Within, Seen
<1> QED
  BY <1>8 DEF WinInv, Within, Seen, WinRecords, text_lines

LEMMA Clamps ==
  ASSUME NEW w \in WinRecords, NEW y \in Int
  PROVE  /\ Clamped(w, y) \in 0 .. w.total_lines - text_lines(w)
         /\ y >= 0 => Clamped(w, y) <= y
         /\ y <= 0 => Clamped(w, y) = 0
<1> DEFINE none == 0
           low == Max({y, none})
           high == w.total_lines - text_lines(w)
<1>1. none \in Int /\ high \in Int /\ high >= 0
  BY TextLinesOf
<1>2. low = IF y >= none THEN y ELSE none
  <2> HIDE DEF none
  <2> QED
    BY <1>1, MaxOfTwo
<1>3. low \in Int /\ low >= 0 /\ (y >= 0 => low = y) /\ (y <= 0 => low = 0)
  <2> HIDE DEF low
  <2> QED
    BY <1>2
<1>4. Clamped(w, y) = Min({low, high})
  BY DEF Clamped
<1>5. Min({low, high}) = IF low <= high THEN low ELSE high
  <2> HIDE DEF low, high
  <2> QED
    BY <1>1, <1>3, MinOfTwo
<1> HIDE DEF low, high
<1>6. Clamped(w, y) \in 0 .. high /\ (y >= 0 => Clamped(w, y) <= y) /\ (y <= 0 => Clamped(w, y) = 0)
  BY <1>1, <1>3, <1>4, <1>5
<1> QED
  BY <1>6 DEF high

LEMMA TextScrolled ==
  ASSUME WinInv, NEW key \in {"page_down", "page_up", "home", "end", "down", "up"}, Scroll(key)
  PROVE  WinInv'
<1> DEFINE y == TextMoved(key, win)
           to == Clamped(win, y)
           on == win.jumped \/ key = "end"
           w == [win EXCEPT !.start_y = to, !.jumped = on]
           t == text_lines(win)
<1>1. use = "text" /\ use' = "text" /\ win' = WinDrawn(w) /\ Within(win) /\ Seen(win)
  BY DEF Scroll, WinInv
<1>2. /\ win \in WinRecords /\ t \in Nat /\ 0 < t /\ t <= win.total_lines /\ win.total_lines \in Nat
      /\ (t = win.total_lines \/ t >= 14)
      /\ win.start_y \in Int /\ win.upto \in Int /\ 0 <= win.start_y /\ win.start_y <= win.total_lines - t
  BY <1>1, TextLinesOf DEF Within
<1>3. /\ y \in Int
      /\ key # "end" => y <= 0 \/ y <= win.start_y + t - 1 \/ t = win.total_lines
  <2> HIDE DEF t
  <2>1. CASE key = "page_down"
    BY <1>2, <2>1 DEF TextMoved, t
  <2>2. CASE key = "page_up"
    BY <1>2, <2>2 DEF TextMoved, t
  <2>3. CASE key = "home"
    BY <1>2, <2>3 DEF TextMoved
  <2>4. CASE key = "end"
    BY <1>2, <2>4 DEF TextMoved, t
  <2>5. CASE key = "down"
    BY <1>2, <2>5 DEF TextMoved
  <2>6. CASE key = "up"
    BY <1>2, <2>6 DEF TextMoved
  <2> QED
    BY <2>1, <2>2, <2>3, <2>4, <2>5, <2>6
<1> HIDE DEF y
<1>4. /\ to \in 0 .. win.total_lines - t
      /\ y >= 0 => to <= y
      /\ y <= 0 => to = 0
  BY <1>2, <1>3, Clamps
<1>5. to \in Int /\ to >= 0 /\ on \in BOOLEAN
  BY <1>2, <1>4
<1> HIDE DEF to, on
<1>6. /\ w \in WinRecords /\ w.total_lines = win.total_lines /\ w.start_y = to
      /\ w.jumped = on /\ w.upto = win.upto
  BY <1>2, <1>5 DEF WinRecords
<1> HIDE DEF w
<1>7. text_lines(w) = t
  BY <1>6 DEF text_lines
<1>8. Within(w)
  BY <1>4, <1>6, <1>7 DEF Within
<1>9. Reached(w)
  <2>1. win.upto <= win.total_lines - 1 /\ (~win.jumped => win.upto >= win.start_y + t - 1)
    BY <1>1 DEF Seen
  <2>2. ASSUME ~on PROVE to <= win.upto
    <3>1. ~win.jumped /\ key # "end"
      BY <2>2 DEF on
    <3>2. to <= win.start_y + t - 1
      <4> HIDE DEF t
      <4>1. CASE y <= 0
        BY <1>2, <1>4, <4>1
      <4>2. CASE y > 0 /\ y <= win.start_y + t - 1
        BY <1>2, <1>3, <1>4, <1>5, <4>2
      <4>3. CASE t = win.total_lines
        BY <1>2, <1>4, <4>3
      <4> QED
        BY <1>2, <1>3, <3>1, <4>1, <4>2, <4>3
    <3> HIDE DEF t
    <3> QED
      BY <1>2, <1>5, <2>1, <3>1, <3>2
  <2> QED
    BY <1>6, <2>1, <2>2 DEF Reached
<1> QED
  BY <1>1, <1>8, <1>9, WinIsDrawn

LEMMA WinStepped ==
  ASSUME WinInv, GuiNext
  PROVE  WinInv'
<1>1. CASE OpenText
  <2> DEFINE none == 0
             no == FALSE
  <2>1. PICK n \in TextLines :
          win' = WinDrawn([on |-> TRUE, total_lines |-> n + 1, start_y |-> none, upto |-> none, jumped |-> no])
    BY <1>1 DEF OpenText
  <2> DEFINE total == n + 1
             w == [on |-> TRUE, total_lines |-> total, start_y |-> none, upto |-> none, jumped |-> no]
  <2>2. total \in Nat \ {0} /\ none \in Int /\ no \in BOOLEAN /\ 0 <= total - 1
    BY ScreenAssumption
  <2>3. win' = WinDrawn(w) /\ use' = "text"
    BY <1>1, <2>1 DEF OpenText
  <2> HIDE DEF total, no, none
  <2>4. w \in WinRecords /\ w.total_lines = total /\ w.start_y = none /\ w.upto = none
    BY <2>2 DEF WinRecords
  <2> HIDE DEF w
  <2>5. Within(w) /\ Reached(w)
    BY <2>2, <2>4, TextLinesOf DEF Within, Reached, none
  <2> QED
    BY <2>3, <2>5, WinIsDrawn
<1>2. CASE \E key \in {"page_down", "page_up", "home", "end", "down", "up"} : Scroll(key)
  BY <1>2, TextScrolled
<1>3. CASE win' = win /\ use' = use
  BY <1>3 DEF WinInv, Within, Seen, WinRecords, text_lines
<1>4. CASE use' # "text"
  BY <1>4 DEF WinInv
<1>5. \/ win' = win /\ use' = use
      \/ use' # "text"
      \/ OpenText
      \/ \E key \in {"page_down", "page_up", "home", "end", "down", "up"} : Scroll(key)
  BY DEF GuiNext, OpenList, MakeList, Remake, SlashKey, EscapeSearch, ErasePattern, EndSearch, MoveInList, LeaveList,
         TypePattern, FindNext, ListStep, OpenButtons, CloseButtons, MoveButton, CloseText, OpenField, Insert,
         EraseBefore, EraseUnder, CursorRight, CursorLeft, FieldStep, CloseField
<1> QED
  BY <1>1, <1>2, <1>3, <1>4, <1>5

-----------------------------------------------------------------------------
(* What the invariants are for.                                            *)

LEMMA GuiInductive ==
  /\ DialogsInit => SearchInv /\ BufferInv /\ WinInv
  /\ SearchInv /\ [DialogsNext]_<<vars, gvars, program>> => SearchInv'
  /\ BufferInv /\ [DialogsNext]_<<vars, gvars, program>> => BufferInv'
  /\ WinInv /\ [DialogsNext]_<<vars, gvars, program>> => WinInv'
<1>1. DialogsInit => SearchInv /\ BufferInv /\ WinInv
  BY DEF DialogsInit, GuiInit, SearchInv, BufferInv, WinInv
<1> SUFFICES ASSUME [DialogsNext]_<<vars, gvars, program>>
             PROVE  /\ SearchInv => SearchInv'
                    /\ BufferInv => BufferInv'
                    /\ WinInv => WinInv'
  BY <1>1
<1>2. CASE UNCHANGED gvars
  <2>1. use' = use /\ list' = list /\ field' = field /\ win' = win
    BY <1>2 DEF gvars
  <2>2. SearchInv => SearchInv'
    BY <2>1 DEF SearchInv, ListTyped, InItems, Standstill, Searched, Matching
  <2>3. BufferInv => BufferInv'
    BY <2>1 DEF BufferInv, InBuffer, Edited, Holds, FieldRecords, BeyondKept, Appended
  <2>4. WinInv => WinInv'
    BY <2>1 DEF WinInv, Within, Seen, WinRecords, text_lines
  <2> QED
    BY <2>2, <2>3, <2>4
<1>3. CASE GuiNext
  BY <1>3, SearchStepped, BufferStepped, WinStepped
<1> QED
  BY <1>2, <1>3 DEF DialogsNext

(* In nconf, whatever is typed, erased and searched on, the current item   *)
(* matches the pattern, or as much of its beginning as any item does: for  *)
(* every menu and every pattern (do_match).                                *)
THEOREM SearchAlwaysOnMatch == DialogsSpec => []StaysOnMatch
<1>1. SearchInv => StaysOnMatch
  BY DEF SearchInv, StaysOnMatch, Searched
<1> QED
  BY <1>1, GuiInductive, PTL DEF DialogsSpec

(* The search of nconf comes to no end only in an empty menu, or when      *)
(* nothing matches and it goes on past the first or the last item          *)
(* (get_mext_match).                                                       *)
THEOREM SearchStuckOnlyAtAnEnd == DialogsSpec => []StuckAtAnEnd
<1>1. SearchInv => StuckAtAnEnd
  <2> SUFFICES ASSUME SearchInv, use = "list"
               PROVE  CASE list.stuck = "no" -> TRUE
                        [] list.stuck = "division_by_zero" -> list.items = <<>>
                        [] list.stuck = "endless_loop" ->
                             Matching(list, list.pattern) = {} /\ list.current \in {0, Len(list.items) - 1}
    BY DEF StuckAtAnEnd
  <2>1. list.stuck \in {"no", "division_by_zero", "endless_loop"} /\ Standstill(list)
    BY DEF SearchInv, ListTyped, ListRecords
  <2> QED
    BY <2>1 DEF Standstill
<1> QED
  BY <1>1, GuiInductive, PTL DEF DialogsSpec

(* The memory from the buffer of an input field of nconf on holds the text *)
(* as it was edited, and the cursor stays in it; what lies beyond the      *)
(* buffer is overwritten only when the text has been longer than half the  *)
(* buffer, and always when such a text was typed into an empty field: for  *)
(* every size of the buffer and every order of the keys (the moves of      *)
(* memory in dialog_inputbox).                                             *)
THEOREM BufferAlwaysEdited == DialogsSpec => []EditsText
<1>1. BufferInv => EditsText
  <2> SUFFICES ASSUME BufferInv, use = "field"
               PROVE  /\ CString(field.mem) = field.typed /\ field.cursor \in 0 .. Len(field.typed)
                      /\ Overrun => 2 * field.longest > result_len
                      /\ field.appended /\ 2 * field.longest > result_len => Overrun
    BY DEF EditsText
  <2>1. InBuffer(field)
    BY DEF BufferInv
  <2>2. /\ field.typed \in Seq(Keys) /\ field.mem \in [0 .. MemEnd - 1 -> Bytes] /\ Len(field.typed) \in Nat
        /\ Len(field.typed) <= result_len + 2 /\ Holds(field.mem, field.typed) /\ field.longest \in Nat
    BY <2>1, FieldIs
  <2>3. Len(field.typed) < MemEnd /\ result_len \in Nat /\ Memory = 0 .. MemEnd - 1 /\ result_len \in Memory
    BY <2>2, MemoryIs
  <2>4. CString(field.mem) = field.typed
    BY <2>2, <2>3, TextInBuffer
  <2>5. ASSUME Overrun PROVE 2 * field.longest > result_len
    <3>1. PICK i \in Memory : i >= result_len /\ field.mem[i] # "other"
      BY <2>5 DEF Overrun
    <3>2. i \in result_len .. MemEnd - 1
      BY <2>3, <3>1, MemoryIs
    <3>3. ~BeyondKept(field.mem)
      BY <3>1, <3>2 DEF BeyondKept
    <3> QED
      BY <2>1, <2>2, <2>3, <3>3 DEF InBuffer, Edited
  <2>6. ASSUME field.appended, 2 * field.longest > result_len PROVE Overrun
    <3>1. field.mem[result_len] # "other"
      BY <2>1, <2>6 DEF InBuffer, Edited, Appended
    <3> QED
      BY <2>3, <3>1 DEF Overrun
  <2> QED
    BY <2>1, <2>4, <2>5, <2>6 DEF InBuffer, Edited
<1> QED
  BY <1>1, GuiInductive, PTL DEF DialogsSpec

(* Whoever reaches the end of a text of nconf without the key End has been *)
(* shown every line of it, although the window copies a line less than it  *)
(* counts: for every length of the text and every terminal (text_lines and *)
(* the keys of show_scroll_win).                                           *)
THEOREM EveryLineShown == DialogsSpec => []ShowsEveryLine
<1>1. WinInv => ShowsEveryLine
  <2> SUFFICES ASSUME WinInv, use = "text", ~win.jumped, win.start_y = win.total_lines - text_lines(win)
               PROVE  win.upto = win.total_lines - 1
    BY DEF ShowsEveryLine
  <2> DEFINE t == text_lines(win)
  <2>1. /\ win.upto <= win.total_lines - 1 /\ win.upto >= win.start_y + t - 1 /\ win.start_y = win.total_lines - t
        /\ t \in Nat /\ win.total_lines \in Nat /\ win.start_y \in Int /\ win.upto \in Int
    BY TextLinesOf DEF WinInv, Within, Seen
  <2> HIDE DEF t
  <2> QED
    BY <2>1
<1> QED
  BY <1>1, GuiInductive, PTL DEF DialogsSpec
=============================================================================
