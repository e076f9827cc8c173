------------------------------ MODULE KSymbol ------------------------------
(* The values of the symbols of Kconfig, support/kconfig/symbol.c, on a     *)
(* finished menu.  A table holds what the code keeps in the symbols: the    *)
(* value and whether it is valid, the value of the user, the visibility and *)
(* the dependencies.  sym_calc_value calls itself through the expressions,  *)
(* so every operator takes the table and returns the next one.              *)
EXTENDS KFinalize, Integers, TLC

CONSTANTS
  Parsed,   \* what menu_finalize made: the menu, the properties, the symbols
  Order,    \* the symbols in the order of the hash table
  Number    \* what strtol makes of the texts of each type of number

Modules == "modules_sym"
NameTri == {"bool", "tristate"}
Logical(s) == SymType[s] \in NameTri
ChoiceOf(s) == Parsed.symbol[s].choice
IsValue(s) == ChoiceOf(s) # NoSym
ValuesOf(c) == Parsed.symbol[c].values
Cond(p) == Parsed.prop[p].vis

Owner(p) == IF Parsed.prop[p].menu = 0 THEN Modules ELSE Parsed.menu[Parsed.prop[p].menu].sym
Kinds == {"prompt", "default", "range"}
\* for_all_prompts (that of a menuconfig is a menu), for_all_defaults and
\* for_all_properties(P_RANGE)
OfKind(p, k) == Parsed.prop[p].kind \in IF k = "prompt" THEN {"prompt", "menu"} ELSE {k}
PropsWith == [s \in AllSyms, k \in Kinds |->
                SelectSeq([p \in DOMAIN Parsed.prop |-> p], LAMBDA p : Owner(p) = s /\ OfKind(p, k))]

\* f itself, which TLC then evaluates once; and TRUE for every table, which
\* TLC then evaluates before it goes on.
Evaluated(f) == f @@ [s \in {} |-> NoSym]
Ready(t) == t.changed \in BOOLEAN

NewSym == [valid |-> FALSE, write |-> FALSE, tri |-> "n", val |-> "", visible |-> "n", dir |-> "n", rev |-> "n",
           user |-> FALSE, utri |-> "n", uval |-> NoSym]
NewTable == [sym |-> [s \in AllSyms |-> NewSym], prompt |-> [p \in DOMAIN Parsed.prop |-> "n"],
             modules |-> "n", changed |-> TRUE, warned |-> FALSE, unsaved |-> FALSE, early |-> {}]

Tri(t, s) == IF s \in AllSyms THEN t.sym[s].tri ELSE IF s \in Consts THEN s ELSE "n"   \* sym_get_tristate_value
Text(t, s) ==                                                                        \* sym_get_string_value
  IF s \notin AllSyms THEN s ELSE IF SymType[s] \in NameTri THEN t.sym[s].tri ELSE t.sym[s].val

sym_get_type(t, s) ==
  IF SymType[s] = "tristate" /\ ((IsValue(s) /\ t.sym[s].visible = "y") \/ t.modules = "n")
  THEN "bool" ELSE SymType[s]

(* ----------------------------- calculation ------------------------------ *)

Pair(t, v) == [t |-> t, v |-> v]
RECURSIVE sym_calc_value(_, _), CalcExpr(_, _), CalcAll(_, _, _), CalcSyms(_, _)

\* expr_calc_value evaluates every operand, and with it the symbols in it.
JoinedBy(t, v, c) == Pair(c.t, IF t = "and" THEN Least({v, c.v}) ELSE Most({v, c.v}))
CalcAll(r, es, t) == IF es = <<>> THEN r ELSE CalcAll(JoinedBy(t, r.v, CalcExpr(r.t, es[1])), Tail(es), t)

\* A symbol has its value, and a comparison looks at the texts.
CalcSyms(t, ss) == IF Ready(t) /\ ss # <<>> THEN CalcSyms(sym_calc_value(t, ss[1]), Tail(ss)) ELSE t
Named(e) == IF e.t = "sym" THEN <<e.s>> ELSE <<e.s, e.v>>
Leaf(t, e) ==
  Pair(t, IF e.t = "sym" THEN Tri(t, e.s) ELSE IF (Text(t, e.s) = Text(t, e.v)) = (e.t = "eq") THEN "y" ELSE "n")

Negate(r) == Pair(r.t, Inverted(r.v))

CalcExpr(t, e) ==
  CASE e = None -> Pair(t, "y")
    [] e.t = "not" -> Negate(CalcExpr(t, e.e))
    [] IsNary(e) -> CalcAll(Pair(t, IF e.t = "and" THEN "y" ELSE "n"), e.es, e.t)
    [] OTHER -> Leaf(CalcSyms(t, Named(e)), e)

\* The first of some properties whose condition is not n, with 0 for none.
RECURSIVE FirstVisible(_, _), ThisOrNext(_, _)
ThisOrNext(c, ps) == IF c.v # "n" THEN [t |-> c.t, p |-> ps[1], v |-> c.v] ELSE FirstVisible(c.t, Tail(ps))
FirstVisible(t, ps) ==
  IF ps = <<>> THEN [t |-> t, p |-> 0, v |-> "n"] ELSE ThisOrNext(CalcExpr(t, Cond(ps[1])), ps)
sym_get_default_prop(t, s) == FirstVisible(t, PropsWith[s, "default"])
sym_get_range_prop(t, s) == FirstVisible(t, PropsWith[s, "range"])

RECURSIVE CalcPrompts(_, _)
PromptSeen(p, v, c) == Pair([c.t EXCEPT !.prompt[p] = c.v], Most({v, c.v}))
CalcPrompts(r, ps) ==
  IF ps = <<>> THEN r ELSE CalcPrompts(PromptSeen(ps[1], r.v, CalcExpr(r.t, Cond(ps[1]))), Tail(ps))

WithVisible(r, s) ==
  [r.t EXCEPT !.sym[s].visible = IF r.v = "m" /\ (SymType[s] # "tristate" \/ r.t.modules = "n") THEN "y" ELSE r.v]
WithDir(r, s) == [r.t EXCEPT !.sym[s].dir = IF r.v = "m" THEN "y" ELSE r.v]
WithRev(r, s) == [r.t EXCEPT !.sym[s].rev = IF r.v = "m" /\ sym_get_type(r.t, s) = "bool" THEN "y" ELSE r.v]
RevOf(s) == IF Parsed.symbol[s].rev_dep = None THEN Sym("n") ELSE Parsed.symbol[s].rev_dep

WithDeps(t, s) ==
  IF IsValue(s) THEN t
  ELSE WithRev(CalcExpr(WithDir(CalcExpr(t, Parsed.symbol[s].dir_dep), s), RevOf(s)), s)
sym_calc_visibility(t, s) == WithDeps(WithVisible(CalcPrompts(Pair(t, "n"), PropsWith[s, "prompt"]), s), s)

FirstShown(t, ss) == LET shown == SelectSeq(ss, LAMBDA s : t.sym[s].visible # "n")
                     IN  IF shown = <<>> THEN NoSym ELSE shown[1]
DefaultSym(p) == Parsed.prop[p].value.s

\* The default of a choice whose condition holds and that is shown, or the
\* first value that is shown.
RECURSIVE ShownDefault(_, _), ShownOrNext(_, _)
ShownOrNext(c, ps) ==
  IF c.v # "n" /\ c.t.sym[DefaultSym(ps[1])].visible # "n" THEN Pair(c.t, DefaultSym(ps[1]))
  ELSE ShownDefault(c.t, Tail(ps))
ShownDefault(t, ps) == IF ps = <<>> THEN Pair(t, NoSym) ELSE ShownOrNext(CalcExpr(t, Cond(ps[1])), ps)
OrFirstShown(r, c) == IF r.v # NoSym THEN r ELSE Pair(r.t, FirstShown(r.t, ValuesOf(c)))
sym_choice_default(t, c) == OrFirstShown(ShownDefault(t, PropsWith[c, "default"]), c)

WithChoice(r, c) == [r.t EXCEPT !.sym[c].val = r.v, !.sym[c].tri = IF r.v = NoSym THEN "n" ELSE @]
UserOrDefault(t, c) ==
  LET user == t.sym[c].uval
  IN  IF user # NoSym /\ t.sym[user].visible # "n" THEN Pair(t, user) ELSE sym_choice_default(t, c)
sym_calc_choice(t, c) == WithChoice(UserOrDefault(FoldLeft(LAMBDA a, v : sym_calc_visibility(a, v), t, ValuesOf(c)), c), c)

Begin(t, s) == [t EXCEPT !.sym[s].valid = TRUE, !.sym[s].write = @ /\ IsValue(s)]
\* The value that is seen when the symbol is calculated recursively.
Reset(t, s) == [t EXCEPT !.sym[s].tri = "n", !.sym[s].val = IF Logical(s) THEN NoSym ELSE ""]

AtMost(v, c) == Pair(c.t, Least({c.v, v}))
DefaultTri(d, s) ==
  IF d.p = 0 THEN Pair(d.t, "n")
  ELSE AtMost(d.v, CalcExpr([d.t EXCEPT !.sym[s].write = TRUE], Parsed.prop[d.p].value))
OwnTri(t, s) ==
  IF t.sym[s].visible # "n" /\ t.sym[s].user THEN Pair(t, Least({t.sym[s].utri, t.sym[s].visible}))
  ELSE IF IsChoice(s) THEN Pair(t, "n") ELSE DefaultTri(sym_get_default_prop(t, s), s)
WithTri(r, s, tri) ==
  [r EXCEPT !.sym[s].tri = IF tri = "m" /\ sym_get_type(r, s) = "bool" THEN "y" ELSE tri]
OrSelected(r, s) == WithTri(r.t, s, Most({r.v, r.t.sym[s].rev}))

OwnCounts(t, s) ==     \* mutant: the choice of a value is not looked at
  OrSelected(OwnTri([t EXCEPT !.sym[s].write = @ \/ {t.sym[s].visible, t.sym[s].rev} # {"n"}], s), s)
CalcTri(t, s) ==
  IF IsValue(s) /\ t.sym[s].visible = "y"
  THEN WithTri(t, s, IF t.sym[ChoiceOf(s)].val = s THEN "y" ELSE "n")
  ELSE OrSelected(OwnTri([t EXCEPT !.sym[s].write = @ \/ {t.sym[s].visible, t.sym[s].rev} # {"n"}], s), s)

LikeDefault(t, s, d) == [t EXCEPT !.sym[s].val = IF d \in AllSyms THEN t.sym[d].val ELSE d]
DefaultText(d, s) ==
  IF d.p = 0 THEN d.t
  ELSE LikeDefault(sym_calc_value([d.t EXCEPT !.sym[s].write = TRUE], DefaultSym(d.p)), s, DefaultSym(d.p))
CalcText(t, s) ==
  LET u == [t EXCEPT !.sym[s].write = @ \/ t.sym[s].visible # "n"]
  IN  IF u.sym[s].visible # "n" /\ u.sym[s].user THEN [u EXCEPT !.sym[s].val = u.sym[s].uval]
      ELSE DefaultText(sym_get_default_prop(u, s), s)

Numeric == {"int", "hex"}
HexDigits == <<"0", "1", "2", "3", "4", "5", "6", "7", "8", "9", "a", "b", "c", "d", "e", "f">>
RECURSIVE Hex(_)
Hex(n) == (IF n < 16 THEN "" ELSE Hex(n \div 16)) \o HexDigits[(n % 16) + 1]
Printed(s, n) == IF SymType[s] = "int" THEN ToString(n) ELSE "0x" \o Hex(n)

\* Below the range the value becomes its lower end, above it its upper end.
\* An end that is a number itself is read in its own base.
RangeVal(t, end, s) ==
  Number[IF end \in AllSyms /\ SymType[end] \in Numeric THEN SymType[end] ELSE SymType[s]][Text(t, end)]
Limited(t, s, n, p) ==
  LET lo == RangeVal(t, Parsed.prop[p].lo, s)
      hi == RangeVal(t, Parsed.prop[p].hi, s)
  IN  IF n < lo THEN [t EXCEPT !.sym[s].val = Printed(s, lo)]
      ELSE IF n > hi THEN [t EXCEPT !.sym[s].val = Printed(s, hi)] ELSE t
Ends(t, p) == CalcSyms(t, <<Parsed.prop[p].lo, Parsed.prop[p].hi>>)
LimitedBy(d, s) == IF d.p = 0 THEN d.t ELSE Limited(Ends(d.t, d.p), s, Number[SymType[s]][d.t.sym[s].val], d.p)
sym_validate_range(t, s) ==
  IF SymType[s] \notin Numeric THEN t ELSE LimitedBy(sym_get_range_prop(t, s), s)

\* A choice makes its visible values written, and a symbol of the
\* environment is never written.
Publish(t, s) ==
  LET u == [t EXCEPT !.sym = Evaluated([v \in AllSyms |->
              IF IsChoice(s) /\ ChoiceOf(v) = s /\ t.sym[s].write /\ t.sym[v].visible # "n"
              THEN [t.sym[v] EXCEPT !.write = TRUE] ELSE t.sym[v]]),
            !.modules = IF s = Modules THEN t.sym[s].tri ELSE @]
  IN  [u EXCEPT !.sym[s].write = @ /\ s \notin AutoSyms]

WithOwnChoice(t, s) == IF IsChoice(s) /\ t.sym[s].tri = "y" THEN sym_calc_choice(t, s) ELSE t
Calculated(t, s) == IF Logical(s) THEN CalcTri(t, s) ELSE CalcText(t, s)

sym_calc_value(t, s) ==
  IF s \notin AllSyms THEN t
  ELSE IF t.sym[s].valid THEN t
  ELSE Publish(sym_validate_range(WithOwnChoice(
         Calculated(Reset(sym_calc_visibility(Begin(t, s), s), s), s), s), s), s)

Invalid(t) == [t EXCEPT !.sym = Evaluated([s \in AllSyms |-> [t.sym[s] EXCEPT !.valid = FALSE]])]
sym_clear_all_valid(t) == sym_calc_value([Invalid(t) EXCEPT !.changed = TRUE], Modules)

(* ------------------------------- setting -------------------------------- *)

sym_is_changable(t, s) == Rank(t.sym[s].visible) > Rank(t.sym[s].rev)

sym_tristate_within_range(t, s, v) ==
  /\ t.sym[s].visible # "n"
  /\ Logical(s)
  /\ ~(sym_get_type(t, s) = "bool" /\ v = "m")
  /\ sym_is_changable(t, s)
  /\ IF IsValue(s) /\ t.sym[s].visible = "y" THEN v = "y"
     ELSE Rank(v) \in Rank(t.sym[s].rev)..Rank(t.sym[s].visible)

MaySetTristate(t, s, v) == t.sym[s].tri = v \/ sym_tristate_within_range(t, s, v)

\* Setting a choice value to y also makes the choice and all its visible
\* values known.
AlsoKnown(t, s, v) ==
  IF ~(IsValue(s) /\ v = "y") THEN t
  ELSE [t EXCEPT !.sym = Evaluated([u \in AllSyms |->
          IF u = ChoiceOf(s) THEN [t.sym[u] EXCEPT !.user = TRUE, !.uval = s]
          ELSE IF ChoiceOf(u) = ChoiceOf(s) /\ t.sym[u].visible # "n" THEN [t.sym[u] EXCEPT !.user = TRUE]
          ELSE t.sym[u]])]

SetWithoutClear(t, s, v) ==     \* mutant
  [AlsoKnown([t EXCEPT !.sym[s].user = TRUE], s, v) EXCEPT !.sym[s].utri = v, !.changed = TRUE]
sym_set_tristate_value(t, s, v) ==
  LET u == AlsoKnown([t EXCEPT !.sym[s].user = TRUE], s, v)
      w == [u EXCEPT !.sym[s].utri = v]
  IN  IF t.sym[s].tri # v THEN sym_clear_all_valid(w) ELSE w

\* The values are tried in turn, and the first that may be set is set.
Following(v) == CASE v = "n" -> "m" [] v = "m" -> "y" [] v = "y" -> "n"
Toggled(t, s) ==
  LET v1 == Following(t.sym[s].tri)
  IN  IF MaySetTristate(t, s, v1) THEN v1
      ELSE IF MaySetTristate(t, s, Following(v1)) THEN Following(v1) ELSE t.sym[s].tri
sym_toggle_tristate_value(t, s) == sym_set_tristate_value(t, s, Toggled(t, s))

Spelled(s, x) == SymType[s] = "string" \/ x \in DOMAIN Number[SymType[s]] \ {"", "other"}   \* sym_string_valid
InRange(t, s, x, p) ==
  Number[SymType[s]][x] \in RangeVal(t, Parsed.prop[p].lo, s)..RangeVal(t, Parsed.prop[p].hi, s)
ChecksEnds(t, s, x, p) == Pair(t, InRange(t, s, x, p))
ChecksRange(d, s, x) == IF d.p = 0 THEN Pair(d.t, TRUE) ELSE ChecksEnds(Ends(d.t, d.p), s, x, d.p)
sym_string_within_range(t, s, x) ==
  IF SymType[s] = "string" \/ ~Spelled(s, x) THEN Pair(t, Spelled(s, x))
  ELSE ChecksRange(sym_get_range_prop(t, s), s, x)

\* A hexadecimal number gets its 0x, and then counts as a new value.
HasPrefix(x) == Len(x) > 1 /\ SubSeq(x, 1, 2) \in {"0x", "0X"}
sym_set_string_value(t, s, x) ==
  LET bare == SymType[s] = "hex" /\ ~HasPrefix(x)
      u == [t EXCEPT !.sym[s].user = TRUE, !.sym[s].uval = IF bare THEN "0x" \o x ELSE x]
  IN  IF bare \/ t.sym[s].uval # x THEN sym_clear_all_valid(u) ELSE u

\* What the symbol would be without a value of the user; the range is not
\* looked at.
TextOf(t, s) == Pair(t, Text(t, s))
TextDefault(d) == IF d.p = 0 THEN Pair(d.t, "") ELSE TextOf(sym_calc_value(d.t, DefaultSym(d.p)), DefaultSym(d.p))
TriDefault(d) == IF d.p = 0 THEN Pair(d.t, "n") ELSE AtMost(d.v, CalcExpr(d.t, Parsed.prop[d.p].value))
AsType(r, s) ==
  LET v == Most({r.v, r.t.sym[s].rev})
  IN  Pair(r.t, IF v = "m" /\ (SymType[s] = "bool" \/ (~IsValue(s) /\ r.t.sym[Modules].tri = "n")) THEN "y" ELSE v)
DefaultOf(d, s) == IF Logical(s) THEN AsType(TriDefault(d), s) ELSE TextDefault(d)
sym_get_string_default(t, s) ==
  DefaultOf(sym_get_default_prop(sym_calc_value(sym_calc_visibility(t, s), Modules), s), s)
=============================================================================
