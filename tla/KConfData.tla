----------------------------- MODULE KConfData -----------------------------
(* Reading and writing configurations, support/kconfig/confdata.c.          *)
EXTENDS KSymbol

Warned(t) == [t EXCEPT !.warned = TRUE]
WarnedIf(b, t) == IF b THEN Warned(t) ELSE t

\* What a line means for the value of a symbol; ok is FALSE when the rest of
\* the treatment of the line is skipped.
conf_set_sym_val(t, s, x) ==
  IF ~Logical(s)
  THEN IF x # "unset" /\ ~Spelled(s, x) THEN [t |-> Warned(t), ok |-> FALSE]
       ELSE [t |-> IF x = "unset" THEN t ELSE [t EXCEPT !.sym[s].user = TRUE, !.sym[s].uval = x], ok |-> TRUE]
  ELSE LET v == IF x = "unset" THEN "n" ELSE x
       IN  [t |-> IF v \in {"n", "y"} \/ (v = "m" /\ SymType[s] = "tristate")
                  THEN [t EXCEPT !.sym[s].user = TRUE, !.sym[s].utri = v] ELSE Warned(t),
            ok |-> TRUE]

\* A value of a choice also becomes the choice's, the last one that is y.
ForChoice(t, s, c) ==
  LET v == t.sym[s].utri
      w == t.sym[c].utri
      u == [t EXCEPT !.sym[c].utri = Most({v, w})]
  IN  CASE v = "n" -> u
        [] v = "m" -> IF w = "y" THEN Warned([u EXCEPT !.sym[c].user = FALSE]) ELSE u
        [] v = "y" -> WarnedIf(w # "n", [u EXCEPT !.sym[c].uval = s])

SetSym(r, s) == IF r.ok /\ IsValue(s) THEN ForChoice(r.t, s, ChoiceOf(s)) ELSE r.t
ReadLine(t, line) ==
  IF line[1] \notin AllSyms THEN [t EXCEPT !.changed = TRUE]
  ELSE SetSym(conf_set_sym_val(WarnedIf(t.sym[line[1]].user, t), line[1], line[2]), line[1])

Forget(t) ==
  [t EXCEPT !.warned = FALSE,
            !.sym = Evaluated([s \in AllSyms |->
              [t.sym[s] EXCEPT !.valid = FALSE, !.user = IsChoice(s), !.utri = "n", !.uval = NoSym]])]
conf_read_simple(t, file) == sym_calc_value(FoldLeft(ReadLine, Forget(t), file), Modules)

\* The saved value of a symbol agrees with the one that is calculated, or
\* there is neither.
Agrees(t, s) ==
  LET x == t.sym[s]
  IN  IF x.user /\ x.write THEN (IF Logical(s) THEN x.utri = x.tri ELSE x.uval = x.val)
      ELSE ~x.user /\ ~x.write

\* A choice is new while one of its visible values is.
CheckAgrees(t, s) ==
  IF IsChoice(s)
  THEN [t EXCEPT !.sym[s].user = @ /\ \A v \in AllSyms : ChoiceOf(v) = s /\ t.sym[v].visible # "n" => t.sym[v].user]
  ELSE [t EXCEPT !.unsaved = @ \/ ~(s \in AutoSyms \/ Agrees(t, s))]
CheckSaved(t, s) == CheckAgrees(sym_calc_value(t, s), s)

\* The value of a symbol that is not shown is forgotten when nothing else
\* has changed, and a number out of range always.
OutOfRange(r, s) == IF r.v THEN r.t ELSE [r.t EXCEPT !.sym[s].valid = FALSE, !.sym[s].user = FALSE, !.unsaved = TRUE]
CheckShown(t, s) ==
  LET u == IF t.sym[s].visible = "n" /\ ~t.unsaved THEN [t EXCEPT !.sym[s].user = FALSE] ELSE t
  IN  IF ~t.sym[s].user \/ IsValue(s) THEN t
      ELSE IF Logical(s) THEN u
      ELSE OutOfRange(sym_string_within_range(u, s, t.sym[s].uval), s)

Concluded(t) == [t EXCEPT !.changed = @ \/ t.warned \/ t.unsaved]
CheckAllSaved(t) == CASE Ready(t) -> FoldLeft(CheckSaved, t, Order)
CheckAllShown(t) == CASE Ready(t) -> FoldLeft(CheckShown, t, Order)
conf_read(t, file) ==
  IF file = Absent THEN sym_calc_value([t EXCEPT !.changed = TRUE], Modules)
  ELSE Concluded(CheckAllShown(CheckAllSaved(
         conf_read_simple([t EXCEPT !.changed = FALSE, !.unsaved = FALSE], file))))

(* -------------------------------- writing ------------------------------- *)

RECURSIVE PreOrder(_)
PreOrder(id) == FoldLeft(LAMBDA acc, k : acc \o PreOrder(k), <<id>>, Parsed.menu[id].kids)
\* The symbols in the order of the menu, more than once when they have
\* several entries.
Listed == SelectSeq([i \in DOMAIN PreOrder(1) |-> Parsed.menu[PreOrder(1)[i]].sym],
                    LAMBDA s : s # NoSym /\ ~IsChoice(s))

Line(t, s) == <<s, IF Text(t, s) = "n" /\ Logical(s) THEN "unset" ELSE Text(t, s)>>

SetOnly(t, lines, s) ==     \* mutant: what is not set is not written
  IF ~t.sym[s].write \/ Text(t, s) = "n" THEN Pair(t, lines)
  ELSE Pair([t EXCEPT !.sym[s].write = FALSE], Append(lines, Line(t, s)))
\* Every symbol is written once, at its first entry.
WriteOnce(t, lines, s) ==
  IF ~t.sym[s].write THEN Pair(t, lines)
  ELSE Pair([t EXCEPT !.sym[s].write = FALSE], Append(lines, Line(t, s)))
WriteSymbol(r, s) == WriteOnce(sym_calc_value(r.t, s), r.v, s)
Unchanged(r) == Pair([r.t EXCEPT !.changed = FALSE], r.v)
conf_write(t) ==
  Unchanged(FoldLeft(WriteSymbol, Pair(IF t.changed THEN t ELSE sym_clear_all_valid(t), <<>>), Listed))

\* The symbol is left out: it has its default value, or is the value its
\* choice has anyway.
IsChoiceDefault(d, s) ==
  Pair(d.t, ChoiceOf(s) \notin Optional /\ d.v = s /\ SymType[s] = "bool" /\ d.t.sym[s].tri = "y")
TakenByChoice(t, s) ==
  IF IsValue(s) THEN IsChoiceDefault(sym_choice_default(t, ChoiceOf(s)), s) ELSE Pair(t, FALSE)
IsDefault(r, s) == IF Text(r.t, s) = r.v THEN Pair(r.t, TRUE) ELSE TakenByChoice(r.t, s)
KeepSet(r, lines, s) == Pair(r.t, IF r.v \/ Text(r.t, s) = "n" THEN lines ELSE Append(lines, Line(r.t, s)))     \* mutant
Keep(r, lines, s) == Pair(r.t, IF r.v THEN lines ELSE Append(lines, Line(r.t, s)))
WriteChanged(t, lines, s) ==
  LET u == [t EXCEPT !.sym[s].write = FALSE]
  IN  IF ~t.sym[s].write \/ ~sym_is_changable(t, s) THEN Pair(u, lines)
      ELSE Keep(IsDefault(sym_get_string_default(u, s), s), lines, s)
WriteMinimal(r, s) == WriteChanged(sym_calc_value(r.t, s), r.v, s)
conf_write_defconfig(t) == FoldLeft(WriteMinimal, Pair(sym_clear_all_valid(t), <<>>), Listed)

\* auto.conf and the header have what is set only, in the order of the hash.
WriteUnsetToo(t, lines, s) ==     \* mutant
  Pair(t, IF t.sym[s].write THEN Append(lines, Line(t, s)) ELSE lines)
WriteIfSet(t, lines, s) ==
  Pair(t, IF t.sym[s].write /\ ~(Logical(s) /\ Text(t, s) = "n") THEN Append(lines, Line(t, s)) ELSE lines)
WriteAuto(r, s) == WriteIfSet(sym_calc_value(r.t, s), r.v, s)
AutoLines(t) == FoldLeft(WriteAuto, Pair(t, <<>>), SelectSeq(Order, LAMBDA s : ~IsChoice(s))).v

(* ----------------------------- new symbols ------------------------------ *)

\* A logical symbol without a value gets one; with random values a choice
\* stays new.
NewValue(t, v, random) ==
  [t EXCEPT !.sym = Evaluated([s \in AllSyms |->
     IF t.sym[s].user \/ s \notin DOMAIN v THEN t.sym[s]
     ELSE [t.sym[s] EXCEPT !.utri = v[s], !.user = ~(IsChoice(s) /\ random)]])]
NewSymbols(t) == {s \in AllSyms : Logical(s) /\ ~t.sym[s].user}

\* Only the choice is calculated again: a value of it that was calculated
\* before, because another choice depends on it, stays what it was.
CalculatedEarly(t, c, pick) ==
  {v \in AllSyms : ChoiceOf(v) = c /\ t.sym[v].valid /\ t.sym[v].tri # (IF v = pick[c] THEN "y" ELSE "n")}
randomize_choice_values(t, c, pick) ==
  IF t.sym[c].tri # "y" THEN t
  ELSE [t EXCEPT !.early = @ \cup CalculatedEarly(t, c, pick), !.sym = Evaluated([s \in AllSyms |->
          CASE s = c -> [t.sym[c] EXCEPT !.uval = pick[c], !.user = TRUE, !.valid = FALSE]
            [] ChoiceOf(s) = c -> [t.sym[s] EXCEPT !.utri = IF s = pick[c] THEN "y" ELSE "n"]
            [] OTHER -> t.sym[s]])]
set_all_choice_values(t, c) ==
  [t EXCEPT !.sym = Evaluated([s \in AllSyms |->
     CASE s = c -> [t.sym[c] EXCEPT !.user = TRUE, !.valid = FALSE]
       [] ChoiceOf(s) = c /\ ~t.sym[s].user -> [t.sym[s] EXCEPT !.utri = "n"]
       [] OTHER -> t.sym[s]])]

SetValues(t, c, pick) ==
  IF DOMAIN pick = {} THEN set_all_choice_values(t, c) ELSE randomize_choice_values(t, c, pick)
SetChoice(t, c, pick) == IF t.sym[c].user THEN t ELSE SetValues(sym_calc_value(t, c), c, pick)
\* value has the new values of the symbols, and pick the random values of
\* the choices, which get theirs in a second loop.
SetChoices(t, pick) ==
  CASE Ready(t) -> FoldLeft(LAMBDA u, c : SetChoice(u, c, pick), t, SelectSeq(Order, LAMBDA s : s \in ChoiceSyms))
conf_set_all_new_symbols(t, value, pick) ==
  SetChoices(sym_clear_all_valid(NewValue(t, value, DOMAIN pick # {})), pick)
=============================================================================
