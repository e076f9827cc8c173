------------------------------- MODULE KExpr -------------------------------
(* The dependency expressions of Kconfig, support/kconfig/expr.c.           *)
(*                                                                          *)
(* Chains of && and of || are kept as one node with the sequence of its     *)
(* operands: the code walks such a chain operand by operand whatever the    *)
(* shape of its binary nodes is, so only their order matters.             *)
EXTENDS Naturals, Sequences, SequencesExt

CONSTANT SymType    \* the declared type of every symbol

Consts == {"n", "m", "y"}                        \* symbol_no, _mod and _yes
TypeOf(s) == IF s \in Consts THEN "tristate" ELSE SymType[s]

None == [t |-> "none"]                           \* NULL
Sym(s) == [t |-> "sym", s |-> s]
Not(e) == [t |-> "not", e |-> e]
Comp(t, s, v) == [t |-> t, s |-> s, v |-> v]     \* t is "eq" or "ne"

IsNary(e) == e.t \in {"and", "or"}
Dual(t) == IF t = "and" THEN "or" ELSE "and"
Unit(t) == Sym(IF t = "and" THEN "y" ELSE "n")
Zero(t) == Sym(IF t = "and" THEN "n" ELSE "y")

Operands(t, e) == IF e.t = t THEN e.es ELSE <<e>>
Two(t, es) == [t |-> t, es |-> FlattenSeq([i \in DOMAIN es |-> Operands(t, es[i])])]
And(e1, e2) == IF e1 = None THEN e2 ELSE IF e2 = None THEN e1 ELSE Two("and", <<e1, e2>>)
Or(e1, e2)  == IF e1 = None THEN e2 ELSE IF e2 = None THEN e1 ELSE Two("or", <<e1, e2>>)

WithOperands(t, e, es) == IF e.t = t THEN [e EXCEPT !.es = es] ELSE es[1]

Single(t, es) == IF Len(es) = 1 THEN es[1] ELSE [t |-> t, es |-> es]

RECURSIVE EliminateYn(_), Equal(_, _)

\* Removes the constants from a chain of && or ||, bottom up.
Remaining(t, es) ==
  CASE Zero(t) \in Range(es) -> Zero(t)
    [] SelectSeq(es, LAMBDA x : x # Unit(t)) = <<>> -> Unit(t)
    [] OTHER -> Single(t, SelectSeq(es, LAMBDA x : x # Unit(t)))
EliminateYn(e) ==
  IF IsNary(e) THEN Remaining(e.t, Two(e.t, [i \in DOMAIN e.es |-> EliminateYn(e.es[i])]).es) ELSE e

\* Every operand of the first chain from the i-th on takes the first operand
\* of the second one that is equal to it out of the comparison: both become
\* the unit.  Without consts, y and n are left alone.
Strike(t, es, fs, i, hits) ==
  IF hits = {} THEN <<es, fs>>
  ELSE <<[es EXCEPT ![i] = Unit(t)], [fs EXCEPT ![CHOOSE j \in hits : \A k \in hits : j <= k] = Unit(t)]>>

RECURSIVE Cancel(_, _, _, _)
Cancel(t, p, i, consts) ==
  IF i > Len(p[1]) THEN p
  ELSE Cancel(t, Strike(t, p[1], p[2], i,
                        {j \in DOMAIN p[2] : /\ consts \/ p[1][i] \notin {Sym("y"), Sym("n")}
                                             /\ Equal(p[1][i], p[2][j])}), i + 1, consts)

\* Takes out what two expressions have in common, as chains of the type of
\* the first and then, when it differs, of the type of the second.
Rebuilt(t, p, r) == <<WithOperands(t, p[1], r[1]), WithOperands(t, p[2], r[2])>>
RECURSIVE CancelBy(_, _)
CancelBy(k, p) ==
  IF k > 2 THEN <<EliminateYn(p[1]), EliminateYn(p[2])>>
  ELSE CancelBy(k + 1, IF IsNary(p[k]) /\ (k = 1 \/ p[1].t # p[2].t)
                       THEN Rebuilt(p[k].t, p, Cancel(p[k].t, <<Operands(p[k].t, p[1]), Operands(p[k].t, p[2])>>, 1, FALSE))
                       ELSE p)

EliminateEq(e1, e2) ==
  IF e1 = None \/ e2 = None THEN <<e1, e2>> ELSE CancelBy(1, <<e1, e2>>)

\* Equality up to the order of operands.
SameSymbol(p) == p[1].t = "sym" /\ p[1] = p[2]
Equal(e1, e2) ==
  /\ e1.t = e2.t
  /\ CASE e1.t \in {"eq", "ne", "sym"} -> e1 = e2
       [] e1.t = "not" -> Equal(e1.e, e2.e)
       [] OTHER -> SameSymbol(EliminateEq(e1, e2))

\* FOO != n becomes FOO, for a tristate FOO.
RECURSIVE TransBool(_)
TransBool(e) ==
  CASE IsNary(e) -> Two(e.t, [i \in DOMAIN e.es |-> TransBool(e.es[i])])
    [] e.t = "not" -> Not(TransBool(e.e))
    [] e.t = "ne" /\ TypeOf(e.s) = "tristate" /\ e.v = "n" -> Sym(e.s)
    [] OTHER -> e

Simple(e) == e.t \in {"sym", "eq", "ne"}

\* Both operands are about one boolean or tristate symbol, in one of the
\* forms that can be joined.
SameSubject(e1, e2) ==
  /\ Simple(e1) \/ (e1.t = "not" /\ Simple(e1.e))
  /\ Simple(e2) \/ (e2.t = "not" /\ e2.e.t = "sym")
  /\ LET Subject(e) == IF e.t = "not" THEN e.e.s ELSE e.s
     IN  /\ Subject(e1) = Subject(e2)
         /\ TypeOf(Subject(e1)) \in {"bool", "tristate"}

SubjectOf(e) == IF e.t = "not" THEN e.e.s ELSE e.s

\* The third of the three constants.
Third(a, b) == CHOOSE c \in Consts : c \notin {a, b}
TwoConsts(e1, e2) == {e1.v, e2.v} \subseteq Consts /\ e1.v # e2.v

\* e1 || e2 as one expression, None when there is none.
JoinOr(e1, e2) ==
  LET s == SubjectOf(e1)
  IN  CASE TypeOf(s) = "tristate" /\ e1.t = "eq" /\ e2.t = "eq" /\ TwoConsts(e1, e2)
             -> Comp("ne", s, Third(e1.v, e2.v))
        [] TypeOf(s) = "bool" /\ {e1, e2} = {Sym(s), Not(Sym(s))} -> Sym("y")
        [] OTHER -> None

\* e1 && e2 as one expression, None when there is none.
JoinAnd(e1, e2) ==
  LET s    == SubjectOf(e1)
      both == {e1, e2}
      tri  == TypeOf(s) = "tristate"
  IN  CASE both = {Sym(s), Comp("eq", s, "y")} -> Comp("eq", s, "y")
        [] both = {Sym(s), Comp("ne", s, "n")} -> Sym(s)
        [] both = {Sym(s), Comp("ne", s, "m")} -> Comp("eq", s, "y")
        [] tri /\ {e1.t, e2.t} = {"eq", "ne"} /\ {e1.v, e2.v} \subseteq Consts
             -> IF e1.v = e2.v THEN Sym("n") ELSE CHOOSE e \in both : e.t = "eq"
        [] tri /\ e1.t = "ne" /\ e2.t = "ne" /\ TwoConsts(e1, e2)
             -> Comp("eq", s, Third(e1.v, e2.v))
        [] OTHER -> None

Join(t, e1, e2) ==
  IF Equal(e1, e2) THEN e1
  ELSE IF ~SameSubject(e1, e2) THEN None
  ELSE IF t = "or" THEN JoinOr(e1, e2) ELSE JoinAnd(e1, e2)

RECURSIVE Transform(_)

\* The negation of an expression that is transformed already.
Negated(x) ==
  CASE x.t = "not" -> Transform(x.e)
    [] x.t = "eq"  -> [x EXCEPT !.t = "ne"]
    [] x.t = "ne"  -> [x EXCEPT !.t = "eq"]
    [] IsNary(x)   -> Transform(Two(Dual(x.t), [i \in DOMAIN x.es |-> Not(x.es[i])]))
    [] x.t = "sym" -> CASE x.s = "y" -> Sym("n")
                        [] x.s = "m" -> Sym("m")
                        [] x.s = "n" -> Sym("y")
                        [] OTHER -> Not(x)

\* Negations move to the symbols; a boolean symbol is not compared.
Transform(e) ==
  CASE IsNary(e) -> Two(e.t, [i \in DOMAIN e.es |-> Transform(e.es[i])])
    [] e.t = "not" -> Negated(Transform(e.e))
    [] e.t \in {"eq", "ne"} /\ TypeOf(e.s) = "bool" /\ e.v \in Consts ->
         IF e.v = "m" THEN Sym(IF e.t = "eq" THEN "n" ELSE "y")
         ELSE IF (e.v = "y") = (e.t = "eq") THEN Sym(e.s) ELSE Not(Sym(e.s))
    [] OTHER -> e

\* One pass over all ordered pairs of operands, from pair k on, that joins
\* the ones it can; n counts what changed (trans_count).
AfterJoin(e, n, i, j, inner, both) ==
  IF both = None THEN [e |-> [e EXCEPT !.es[i] = inner.e], n |-> n + inner.n]
  ELSE [e |-> [e EXCEPT !.es[i] = Unit(e.t), !.es[j] = both], n |-> n + inner.n + 1]
JoinInto(e, n, i, j, inner) == AfterJoin(e, n, i, j, inner, Join(e.t, inner.e, e.es[j]))

RECURSIVE JoinPairs(_, _)
JoinPair(r, i, j) ==
  IF i = j THEN r
  ELSE JoinInto(r.e, r.n, i, j, IF IsNary(r.e.es[i]) THEN JoinPairs([e |-> r.e.es[i], n |-> 0], 0)
                                ELSE [e |-> r.e.es[i], n |-> 0])
JoinPairs(r, k) ==
  IF k = Len(r.e.es) * Len(r.e.es) THEN r
  ELSE JoinPairs(JoinPair(r, (k \div Len(r.e.es)) + 1, (k % Len(r.e.es)) + 1), k + 1)

\* (FOO || BAR) && (!FOO && !BAR) is n, (FOO && BAR) || (!FOO || !BAR) is y:
\* an operand, from the i-th on, whose negation is among the others becomes
\* the zero.
AfterStrike(e, n, i, left) ==
  IF Range(left) = {Unit(e.t)} THEN [e |-> [e EXCEPT !.es[i] = Zero(e.t)], n |-> n + 1]
  ELSE [e |-> e, n |-> n]
StrikeNegated(e, n, i, neg) == AfterStrike(e, n, i, Cancel(e.t, <<Operands(e.t, neg), e.es>>, 1, TRUE)[1])
ContradictInner(e, n, i, inner) ==
  StrikeNegated([e EXCEPT !.es[i] = inner.e], n + inner.n, i, Transform(Not(inner.e)))

RECURSIVE Contradict(_, _)
Contradict(r, i) ==
  IF i > Len(r.e.es) THEN r
  ELSE Contradict(IF IsNary(r.e.es[i])
                  THEN ContradictInner(r.e, r.n, i, Contradict([e |-> r.e.es[i], n |-> 0], 1))
                  ELSE r, i + 1)

RECURSIVE EliminateDups(_)
NextRound(r) == IF r.n = 0 THEN r.e ELSE EliminateDups(EliminateYn(r.e))
EliminateDups(e) ==
  IF IsNary(e) THEN NextRound(Contradict(JoinPairs([e |-> e, n |-> 0], 0), 1)) ELSE e

RECURSIVE ContainsSymbol(_, _), DependsSymbol(_, _)
ContainsSymbol(e, s) ==
  CASE IsNary(e) -> \E i \in DOMAIN e.es : ContainsSymbol(e.es[i], s)
    [] e.t = "not" -> ContainsSymbol(e.e, s)
    [] e.t = "sym" -> e.s = s
    [] e.t \in {"eq", "ne"} -> s \in {e.s, e.v}
    [] OTHER -> FALSE

\* The expression holds only when the symbol is set, as far as a look at the
\* operands of its && shows.
DependsSymbol(e, s) ==
  CASE e.t = "and" -> \E i \in DOMAIN e.es : DependsSymbol(e.es[i], s)
    [] e.t = "sym" -> e.s = s
    [] e.t = "eq"  -> e.s = s /\ e.v \in {"y", "m"}
    [] e.t = "ne"  -> e.s = s /\ e.v = "n"
    [] OTHER -> FALSE

\* The expression e = v (or e != v) as comparisons of the symbols.
RECURSIVE TransCompare(_, _, _)
TransCompare(e, t, v) ==
  LET Sign(x) == IF t = "ne" THEN Not(x) ELSE x
      Each(u) == Two(u, [i \in DOMAIN e.es |-> TransCompare(e.es[i], "eq", v)])
  IN  CASE e = None -> Sign(Sym(v))
        [] IsNary(e) -> Sign(CASE v = "y" -> Each(e.t) [] v = "n" -> Each(Dual(e.t)) [] OTHER -> e)
        [] e.t = "not" -> TransCompare(e.e, IF t = "eq" THEN "ne" ELSE "eq", v)
        [] e.t \in {"eq", "ne"} ->
             IF v = "m" THEN Sym(IF t = "eq" THEN "n" ELSE "y")
             ELSE IF (v = "y") = (t = "eq") THEN e ELSE Not(e)
        [] e.t = "sym" -> Comp(t, e.s, v)

Rank(v) == CASE v = "n" -> 0 [] v = "m" -> 1 [] v = "y" -> 2
Least(S) == IF "n" \in S THEN "n" ELSE IF "m" \in S THEN "m" ELSE "y"
Most(S) == IF "y" \in S THEN "y" ELSE IF "m" \in S THEN "m" ELSE "n"
Inverted(v) == CASE v = "n" -> "y" [] v = "m" -> "m" [] v = "y" -> "n"

\* The value of an expression when the symbols have the tristate values tri
\* and the strings str.
RECURSIVE ValueWith(_, _, _)
ValueWith(e, tri, str) ==
  LET StringOf(s) == IF s \in Consts THEN s ELSE str[s]
  IN  CASE e = None -> "y"
        [] e.t = "sym" -> IF e.s \in Consts THEN e.s ELSE tri[e.s]
        [] e.t = "and" -> Least({ValueWith(e.es[i], tri, str) : i \in DOMAIN e.es})
        [] e.t = "or"  -> Most({ValueWith(e.es[i], tri, str) : i \in DOMAIN e.es})
        [] e.t = "not" -> Inverted(ValueWith(e.e, tri, str))
        [] e.t = "eq"  -> IF StringOf(e.s) = StringOf(e.v) THEN "y" ELSE "n"
        [] e.t = "ne"  -> IF StringOf(e.s) = StringOf(e.v) THEN "n" ELSE "y"

\* What is left of rev_dep e1 to name in the warning about an unmet
\* dependency e2.  The loop looks for a symbol only: it follows the left side
\* of a comparison, a symbol, as if it were an expression.
Undefined == [t |-> "undefined"]
RECURSIVE Leftmost(_), SimplifyUnmetDep(_, _)
Leftmost(e) ==
  CASE e = None -> None
    [] IsNary(e) -> Leftmost(e.es[1])
    [] e.t = "not" -> Leftmost(e.e)
    [] e.t = "sym" -> e
    [] OTHER -> Undefined

AllOf(es) == IF es = <<>> THEN None ELSE IF Len(es) = 1 THEN es[1] ELSE Two("and", es)
SimplifyUnmetDep(e1, e2) ==
  IF e1.t = "or"
  THEN AllOf(SelectSeq([i \in DOMAIN e1.es |-> SimplifyUnmetDep(e1.es[i], e2)], LAMBDA x : x # None))
  ELSE Leftmost(IF e1.t = "and" /\ Equal(EliminateDups(And(e1, e2)), e1) THEN None ELSE e1)

\* The tokens expr_print writes; an operand that binds less tightly than what
\* surrounds it goes into parentheses.
Tightness(t) == CASE t \in {"eq", "ne"} -> 4 [] t = "not" -> 3 [] t = "and" -> 2 [] t = "or" -> 1 [] OTHER -> 0
LooserOnly(prev, t) == t # "sym" /\ Tightness(t) = 1 /\ prev = "not"     \* mutant
Parenthesised(prev, t) == t # "sym" /\ Tightness(prev) > Tightness(t)

RECURSIVE Tokens(_, _)
Tokens(e, prev) ==
  LET text == CASE e = None -> <<"y">>
                [] e.t = "sym" -> <<e.s>>
                [] e.t = "eq" -> <<e.s, "=", e.v>>
                [] e.t = "ne" -> <<e.s, "!=", e.v>>
                [] e.t = "not" -> <<"!">> \o Tokens(e.e, "not")
                [] OTHER -> FoldLeft(LAMBDA ts, x : (IF ts = <<>> THEN ts ELSE Append(ts, IF e.t = "and" THEN "&&" ELSE "||"))
                                                    \o Tokens(x, e.t), <<>>, e.es)
  IN  IF Parenthesised(prev, e.t) THEN <<"(">> \o text \o <<")">> ELSE text

\* The symbols of an expression, from left to right.
RECURSIVE SymsIn(_)
SymsIn(e) ==
  CASE IsNary(e) -> FlattenSeq([i \in DOMAIN e.es |-> SymsIn(e.es[i])])
    [] e.t = "not" -> SymsIn(e.e)
    [] e.t \in {"eq", "ne"} -> SelectSeq(<<e.s, e.v>>, LAMBDA s : s \notin Consts)
    [] e.t = "sym" -> SelectSeq(<<e.s>>, LAMBDA s : s \notin Consts)
    [] OTHER -> <<>>

\* What is reached from S along the edges E.
RECURSIVE Reach(_, _)
Reach(E, S) == LET T == S \cup {e[2] : e \in {e \in E : e[1] \in S}} IN IF T = S THEN S ELSE Reach(E, T)
=============================================================================
