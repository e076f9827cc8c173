----------------------------- MODULE KFinalize -----------------------------
(* menu_finalize of support/kconfig/menu.c on a menu tree: a record of the  *)
(* entries (menu), the properties (prop) and what is known of each symbol.  *)
EXTENDS KExpr, ConfText, FiniteSets

CONSTANT Optional      \* the choices that are optional

NoSym == "no symbol"
NoDeps == [s \in AllSyms |-> [rev_dep |-> None, dir_dep |-> None, values |-> <<>>, choice |-> NoSym]]

IsChoice(s) == s \in ChoiceSyms
PropsOf(t, id) == SelectSeq([i \in DOMAIN t.prop |-> i], LAMBDA i : t.prop[i].menu = id)
PromptVis(t, id) == t.prop[t.menu[id].prompt].vis
HasPrompt(t, id) == t.menu[id].prompt # 0

\* What an entry hands down to the entries in it.
ParentDep(t, id) ==
  IF IsChoice(t.menu[id].sym) THEN Sym(t.menu[id].sym)
  ELSE IF HasPrompt(t, id) THEN PromptVis(t, id)
  ELSE t.menu[id].dep

OwnDepOnly(t, id, parentdep) ==     \* mutant
  LET base == EliminateDups(Transform(t.menu[id].dep))
  IN  FoldLeft(LAMBDA u, i : [u EXCEPT !.prop[i].vis = EliminateDups(And(base, Transform(@)))],
               [t EXCEPT !.menu[id].dep = base], PropsOf(t, id))

\* The dependency of an entry goes into all its properties, and a select
\* into the reverse dependency of its target.
Propagate(t, id, parentdep) ==
  LET s    == t.menu[id].sym
      base == EliminateDups(And(parentdep, Transform(t.menu[id].dep)))
      Each(u, i) ==
        LET e   == EliminateDups(And(base, Transform(u.prop[i].vis)))
            vis == IF s # NoSym /\ TypeOf(s) # "tristate" THEN TransBool(e) ELSE e
            v   == [u EXCEPT !.prop[i].vis = vis]
        IN  IF u.prop[i].kind # "select" THEN v
            ELSE [v EXCEPT !.symbol[u.prop[i].target].rev_dep = Or(@, And(Sym(s), vis))]
  IN  FoldLeft(Each, [t EXCEPT !.menu[id].dep = base], PropsOf(t, id))

After(t, id) ==
  LET ks == t.menu[t.menu[id].parent].kids
      k  == CHOOSE k \in DOMAIN ks : ks[k] = id
  IN  SubSeq(ks, k + 1, Len(ks))

NotNo(e) == EliminateDups(Transform(TransCompare(e, "ne", "n")))

NamesSymbol(t, base, s, id) ==     \* mutant
  ContainsSymbol(IF HasPrompt(t, id) THEN PromptVis(t, id) ELSE t.menu[id].dep, s)

\* The entry is shown only if the symbol is set, or names the symbol and is
\* shown only if the symbol's own entry is.
BelongsUnder(t, base, s, id) ==
  LET dep == IF HasPrompt(t, id) THEN PromptVis(t, id) ELSE t.menu[id].dep
  IN  /\ ContainsSymbol(dep, s)
      /\ \/ DependsSymbol(dep, s)
         \/ EliminateEq(NotNo(dep), base)[2] \in {None, Sym("y")}

MoveUnder(t, id, k) ==
  [t EXCEPT !.menu[t.menu[id].parent].kids = SelectSeq(@, LAMBDA x : x # k),
            !.menu[id].kids = Append(@, k),
            !.menu[k].parent = id]

\* A non-tristate value of a tristate choice needs the choice to be y.
NeedsY(t, id, s) ==
  IF ~(TypeOf(s) = "tristate" /\ TypeOf(t.menu[id].sym) # "tristate") THEN t
  ELSE FoldLeft(LAMBDA u, i : [u EXCEPT !.prop[i].vis = And(Comp("eq", s, "y"), @)],
                [t EXCEPT !.menu[id].dep = And(Comp("eq", s, "y"), @)], PropsOf(t, id))

\* A symbol in a choice becomes one of its values.
AddValue(t, id, s) ==
  LET v == t.menu[id].sym
  IN  IF ~IsChoice(s) \/ v = NoSym THEN t
      ELSE IF t.symbol[v].choice # NoSym THEN t
      ELSE [NeedsY(t, id, s) EXCEPT !.symbol[v].choice = s, !.symbol[s].values = Append(@, v)]

ParentsKept(t, id, k) ==     \* mutant
  LET kid == t.menu[id].kids[k]
  IN  IF HasPrompt(t, kid) THEN t
      ELSE [t EXCEPT !.menu[id].kids = SubSeq(@, 1, k) \o t.menu[kid].kids \o SubSeq(@, k + 1, Len(@)),
                     !.menu[kid].kids = <<>>]

\* The contents of an entry without a prompt follow it in its parent.
LiftContents(t, id, k) ==
  LET kid == t.menu[id].kids[k]
      sub == t.menu[kid].kids
      up  == FoldLeft(LAMBDA u, c : [u EXCEPT !.menu[c].parent = id], t, sub)
  IN  IF HasPrompt(t, kid) THEN t
      ELSE [up EXCEPT !.menu[id].kids = SubSeq(@, 1, k) \o sub \o SubSeq(@, k + 1, Len(@)),
                      !.menu[kid].kids = <<>>]

RECURSIVE Finalize(_, _), FinalizeFrom(_, _, _), TakeFollowers(_, _, _), Settle(_, _, _)

FinalizeFrom(t, id, k) ==
  IF k > Len(t.menu[id].kids) THEN t
  ELSE FinalizeFrom(Finalize(t, t.menu[id].kids[k]), id, k + 1)

TakeFollowers(t, id, base) ==
  LET s == t.menu[id].sym
      next == After(t, id)
  IN  IF next = <<>> \/ ~BelongsUnder(t, base, s, next[1])
      THEN [t EXCEPT !.symbol[s].dir_dep = t.menu[id].dep]
      ELSE TakeFollowers(MoveUnder(Finalize(t, next[1]), id, next[1]), id, base)

Settle(t, id, k) ==
  IF k > Len(t.menu[id].kids) THEN t
  ELSE Settle(LiftContents(AddValue(t, t.menu[id].kids[k], t.menu[id].sym), id, k), id, k + 1)

Finalize(t, id) ==
  LET s == t.menu[id].sym
      kids == t.menu[id].kids
      base == NotNo(IF HasPrompt(t, id) THEN PromptVis(t, id) ELSE None)
      down == IF kids # <<>>
              THEN FinalizeFrom(FoldLeft(LAMBDA u, k : Propagate(u, k, ParentDep(t, id)), t, kids), id, 1)
              ELSE IF s # NoSym THEN TakeFollowers(t, id, base) ELSE t
      done == Settle(down, id, 1)
  IN  IF IsChoice(s) /\ s \notin Optional /\ HasPrompt(done, id)
      THEN [done EXCEPT !.symbol[s].rev_dep = Or(@, And(PromptVis(done, id), Sym("m")))]
      ELSE done
=============================================================================
