------------------------------- MODULE KMenu -------------------------------
(* The menu tree of Kconfig, support/kconfig/menu.c: how the parser builds  *)
(* it, one statement at a time, and how menu_finalize hands dependencies    *)
(* down, collects the reverse dependencies, makes entries the submenu of    *)
(* the symbol they depend on and lifts the contents of entries without a    *)
(* prompt.  The types of the symbols are given; "visible if", the options   *)
(* of a symbol and the warnings are left out.                               *)
EXTENDS KFinalize

CONSTANTS
  Deps,         \* expressions written after "depends on" and "if"
  Conditions,   \* conditions of prompts and selects, None among them
  Selectable,   \* symbols that are selected
  Defaults,     \* values of defaults
  Declarations, \* bounds the entries of a symbol, and the ones without one
  MaxEntries,   \* bound on the entries of one configuration
  MaxAttributes \* bound on their dependencies, prompts, defaults and selects

VARIABLES
  menu,           \* the entries, in the order of the files; entry 1 is rootmenu
  prop,           \* the properties, in the order of the files
  current_entry,
  current_menu,
  final           \* what menu_finalize makes of it, and what sym_check_deps reports

vars == <<menu, prop, current_entry, current_menu, final>>

NotYet == [menu |-> <<>>]

Entry(s, p) == [sym |-> s, parent |-> p, kids |-> <<>>, dep |-> None, prompt |-> 0]

Init ==
  /\ menu = <<[Entry(NoSym, 0) EXCEPT !.prompt = 1]>>
  /\ prop = <<[kind |-> "menu", menu |-> 1, vis |-> None, target |-> NoSym]>>
  /\ current_entry = 1
  /\ current_menu = 1
  /\ final = NotYet

(* ------------------------- what the parser calls ------------------------ *)

Here == Len(menu)       \* the entry whose attributes are being read
WithDep == {id \in DOMAIN menu : menu[id].dep # None}
Budget == Cardinality({i \in DOMAIN prop : prop[i].kind # "symbol"}) + Cardinality(WithDep) <= MaxAttributes
Parsing == final = NotYet
Open == Parsing /\ current_entry = Here /\ current_menu # Here
HasProp(k) == \E i \in DOMAIN prop : prop[i].menu = Here /\ prop[i].kind = k

RECURSIVE InChoice(_)
InChoice(id) == id # 0 /\ (menu[id].sym \in ChoiceSyms \/ InChoice(menu[id].parent))

\* The statement is over: a choice or an if has opened its block, and an
\* entry without a symbol and without a block is a comment.
Complete ==
  \/ ~Open
  \/ menu[Here].sym \in Symbols
  \/ menu[Here].sym = NoSym /\ menu[Here].prompt # 0

menu_add_entry(s) ==
  /\ Parsing /\ Complete
  /\ Here < MaxEntries
  /\ s \in ChoiceSyms => ~InChoice(current_menu)
  /\ Cardinality({id \in DOMAIN menu : menu[id].sym = s}) < Declarations[s]
  /\ menu' = Append([menu EXCEPT ![current_menu].kids = Append(@, Here + 1)], Entry(s, current_menu))
  /\ prop' = IF s = NoSym THEN prop
             ELSE Append(prop, [kind |-> "symbol", menu |-> Here + 1, vis |-> None, target |-> NoSym])
  /\ current_entry' = Here + 1
  /\ UNCHANGED <<current_menu, final>>

\* A bare m means m && MODULES.
RECURSIVE menu_check_dep(_)
menu_check_dep(e) ==
  CASE IsNary(e) -> Two(e.t, [i \in DOMAIN e.es |-> menu_check_dep(e.es[i])])
    [] e.t = "not" -> Not(menu_check_dep(e.e))
    [] e = Sym("m") -> And(e, Sym("MODULES"))
    [] OTHER -> e

menu_add_dep(e) ==
  /\ Open /\ Budget
  /\ menu[Here].dep = None /\ menu[Here].prompt = 0 /\ ~HasProp("default") /\ ~HasProp("select")
  /\ menu' = [menu EXCEPT ![Here].dep = And(@, menu_check_dep(e))]
  /\ UNCHANGED <<prop, current_entry, current_menu, final>>

menu_add_prop(kind, target, e) ==
  /\ Open /\ Budget
  /\ ~HasProp(kind)
  /\ prop' = Append(prop, [kind |-> kind, menu |-> Here, vis |-> menu_check_dep(e), target |-> target])
  /\ menu' = [menu EXCEPT ![Here].prompt = IF kind \in {"prompt", "menu"} THEN Len(prop) + 1 ELSE @]
  /\ UNCHANGED <<current_entry, current_menu, final>>

menu_add_prompt(e) ==
  /\ ~HasProp("default") /\ ~HasProp("select")
  /\ menu_add_prop(IF menu[Here].sym = NoSym THEN "menu" ELSE "prompt", NoSym, e)

\* The default of a choice is one symbol, and its value is not rewritten.
AddDefault(value, e) ==
  /\ Open /\ Budget
  /\ menu[Here].sym # NoSym
  /\ IsChoice(menu[Here].sym) => value.t = "sym"
  /\ ~HasProp("default") /\ ~HasProp("select")
  /\ prop' = Append(prop, [kind |-> "default", menu |-> Here, vis |-> menu_check_dep(e), target |-> NoSym,
                           value |-> value])
  /\ UNCHANGED <<menu, current_entry, current_menu, final>>

AddSelect(s, e) == menu[Here].sym \in Symbols \ {s} /\ menu_add_prop("select", s, e)

\* Menus, if blocks and choices have entries of their own in the files.
menu_add_menu ==
  /\ Open
  /\ menu[Here].sym \notin Symbols
  /\ menu[Here].dep # None \/ menu[Here].prompt # 0
  /\ menu[Here].sym # NoSym => menu[Here].prompt # 0      \* else it is warned about
  /\ menu[Here].prompt # 0 => ~InChoice(menu[Here].parent)
  /\ current_menu' = Here
  /\ UNCHANGED <<menu, prop, current_entry, final>>

menu_end_menu ==
  /\ Parsing /\ Complete
  /\ current_menu # 1
  /\ current_menu' = menu[current_menu].parent
  /\ current_entry' = 0
  /\ UNCHANGED <<menu, prop, final>>

(* ----------------------------- sym_check_deps --------------------------- *)

\* The search follows the condition of every property but a select, and the
\* value of a default unless that is the default of a choice.
DepsOfProp(p, s) == SymsIn(p.vis) \o (IF p.kind = "default" /\ ~IsChoice(s) THEN SymsIn(p.value) ELSE <<>>)
DepsOf(t, s) ==
  LET own == SelectSeq(t.prop, LAMBDA p : t.menu[p.menu].sym = s /\ p.kind # "select")
  IN  SymsIn(IF s \in AllSyms THEN t.symbol[s].rev_dep ELSE None)
        \o FlattenSeq([i \in DOMAIN own |-> DepsOfProp(own[i], s)])

ChoiceOf(t, s) == IF s \in AllSyms THEN t.symbol[s].choice ELSE NoSym
ValuesOf(t, s) == {v \in AllSyms : ChoiceOf(t, v) = s}

\* A depth first search with the symbols on the path (check), the ones seen
\* (checked), the ones reported and the symbol found (ret).
RECURSIVE sym_check_deps(_, _, _), CheckList(_, _, _)

CheckList(t, ss, d) ==
  IF ss = <<>> THEN d
  ELSE LET r == sym_check_deps(t, ss[1], d)
       IN  IF r.ret # NoSym THEN r ELSE CheckList(t, Tail(ss), r)

sym_check_sym_deps(t, s, d) == CheckList(t, DepsOf(t, s), d)

ChoiceOnly(t, c, d) ==     \* mutant: the values are not looked into
  [sym_check_sym_deps(t, c, [d EXCEPT !.check = @ \cup {c}, !.checked = @ \cup {c}]) EXCEPT !.check = @ \ {c}]

\* A choice and its values are one group; the values stay on the path until
\* the last of them is done.
sym_check_choice_deps(t, c, d) ==
  LET vs    == t.symbol[c].values
      group == ValuesOf(t, c) \cup {c}
      own   == sym_check_sym_deps(t, c, [d EXCEPT !.check = @ \cup group, !.checked = @ \cup group])
      each  == FoldLeft(LAMBDA r, v : IF r.ret # NoSym THEN r ELSE sym_check_sym_deps(t, v, r),
                        [own EXCEPT !.check = @ \ {c}], vs)
  IN  [each EXCEPT !.check = @ \ ValuesOf(t, c), !.ret = IF @ \in ValuesOf(t, c) THEN c ELSE @]

sym_check_deps(t, s, d) ==
  LET choice == ChoiceOf(t, s)
      sub == IF choice # NoSym THEN sym_check_deps(t, choice, d)
             ELSE IF IsChoice(s) THEN sym_check_choice_deps(t, s, d)
             ELSE [sym_check_sym_deps(t, s, [d EXCEPT !.check = @ \cup {s}, !.checked = @ \cup {s}])
                     EXCEPT !.check = @ \ {s}]
  IN  IF s \in d.check THEN [d EXCEPT !.ret = s, !.reported = @ \cup {s}]
      ELSE IF s \in d.checked THEN d
      ELSE [sub EXCEPT !.ret = IF @ = s THEN NoSym ELSE @]

NothingSeen == [check |-> {}, checked |-> {}, reported |-> {}, ret |-> NoSym]

RECURSIVE CheckAll(_, _, _)
CheckAll(t, ss, d) ==
  IF ss = <<>> THEN d.reported
  ELSE CheckAll(t, Tail(ss), [sym_check_deps(t, ss[1], d) EXCEPT !.ret = NoSym])
Checked(t) ==
  [menu |-> t.menu, prop |-> t.prop, symbol |-> t.symbol, reported |-> CheckAll(t, SetToSeq(AllSyms), NothingSeen)]

\* conf_parse: at the end of the files finish the menu, then look for
\* recursive dependencies.
conf_parse ==
  /\ Parsing /\ Complete
  /\ current_menu = 1
  /\ final' = Checked(Finalize([menu |-> menu, prop |-> prop, symbol |-> NoDeps], 1))
  /\ UNCHANGED <<menu, prop, current_entry, current_menu>>

Next ==
  \/ \E s \in AllSyms \cup {NoSym} : menu_add_entry(s)
  \/ \E e \in Deps : menu_add_dep(e)
  \/ \E e \in Conditions : menu_add_prompt(e)
  \/ \E value \in Defaults, e \in Conditions : AddDefault(value, e)
  \/ \E s \in Selectable, e \in Conditions : AddSelect(s, e)
  \/ menu_add_menu
  \/ menu_end_menu
  \/ conf_parse

Spec == Init /\ [][Next]_vars

(* ------------------------------ properties ------------------------------ *)

RECURSIVE PreOrder(_, _)
PreOrder(t, id) == FoldLeft(LAMBDA acc, k : acc \o PreOrder(t, k), <<id>>, t.menu[id].kids)

\* The finished menu shows every entry exactly once and in the order of the
\* files, whatever menu_finalize moved, and the links up agree with the
\* lists down.
TreeKeepsOrder ==
  ~Parsing => LET t == final IN
    /\ PreOrder(t, 1) = [i \in DOMAIN menu |-> i]
    /\ \A id \in DOMAIN menu : \A k \in Range(t.menu[id].kids) : t.menu[k].parent = id

\* sym_check_deps reports a recursion exactly when there is one, where a
\* choice and its values count as one and a value may name its choice.
Edges(t) ==
  LET Group(s) == IF ChoiceOf(t, s) # NoSym THEN ChoiceOf(t, s) ELSE s
  IN  UNION {{<<Group(s), Group(u)>> : u \in (Range(DepsOf(t, s)) \cap AllSyms) \ {ChoiceOf(t, s)}} :
             s \in AllSyms}
RecursionReported ==
  ~Parsing => LET t == final
               E == Edges(t)
           IN  (t.reported # {}) <=> (\E e \in E : e[1] \in Reach(E, {e[2]}))

Values(s) == IF TypeOf(s) = "tristate" THEN Consts ELSE {"n", "y"}
Assignments == {tri \in [DOMAIN SymType -> Consts] : \A s \in DOMAIN SymType : tri[s] \in Values(s)}
Value(e, tri) == ValueWith(e, tri, tri)
Vis(t, id, tri) == Value(PromptVis(t, id), tri)
IsSet(t, id, tri) == t.menu[id].sym # NoSym /\ tri[t.menu[id].sym] # "n"

\* Whoever sees an entry can get to it: the entry it is listed under is
\* visible too, or is a symbol that is set.  (A recursive dependency is
\* reported as an error, but conf goes on.)
VisibleIsReachable ==
  ~Parsing /\ final.reported = {} => LET t == final IN
    \A id \in DOMAIN menu \ {1} : HasPrompt(t, id) =>
      LET p == t.menu[id].parent IN
      \A tri \in Assignments : Vis(t, id, tri) # "n" => Vis(t, p, tri) # "n" \/ IsSet(t, p, tri)

\* What was written: the condition of a property, the dependency of its
\* entry and what the entries around it hand down.
RECURSIVE Written(_, _), Handed(_, _)
Handed(id, tri) ==
  IF id = 1 THEN "y"
  ELSE IF menu[id].sym \in ChoiceSyms THEN tri[menu[id].sym]
  ELSE IF menu[id].prompt # 0 THEN Written(menu[id].prompt, tri)
  ELSE Least({Value(menu[id].dep, tri), Handed(menu[id].parent, tri)})
Written(i, tri) ==
  LET id == prop[i].menu
  IN  IF id = 1 THEN "y"
      ELSE Least({Value(prop[i].vis, tri), Value(menu[id].dep, tri), Handed(menu[id].parent, tri)})

\* The simplified condition of a property agrees with what was written: it
\* is n exactly then, but for a conflict over a module, which is rounded
\* down, and it is never more than what was written.
ConditionsKept ==
  ~Parsing => LET t == final IN
    \A i \in DOMAIN prop, tri \in Assignments :
      LET was == Written(i, tri)
          is  == Value(t.prop[i].vis, tri)
      IN  /\ Rank(is) <= Rank(was)
          /\ was = "y" => is # "n"
          /\ (\A s \in DOMAIN SymType : tri[s] # "m") => is = was

\* The grammar of zconf.y: || binds least, then &&, a comparison and ! .
RECURSIVE Reads(_, _)
ReadsMore(t, r) ==
  IF r.rest # <<>> /\ r.rest[1] = (IF t = "or" THEN "||" ELSE "&&")
  THEN LET next == Reads(t, Tail(r.rest)) IN [e |-> Two(t, <<r.e, next.e>>), rest |-> next.rest]
  ELSE r
ReadsOne(ts) ==
  CASE ts[1] = "!" -> LET r == Reads("not", Tail(ts)) IN [r EXCEPT !.e = Not(@)]
    [] ts[1] = "(" -> LET r == Reads("or", Tail(ts)) IN [r EXCEPT !.rest = Tail(@)]
    [] Len(ts) > 1 /\ ts[2] \in {"=", "!="} ->
         [e |-> Comp(IF ts[2] = "=" THEN "eq" ELSE "ne", ts[1], ts[3]), rest |-> SubSeq(ts, 4, Len(ts))]
    [] OTHER -> [e |-> Sym(ts[1]), rest |-> Tail(ts)]
Reads(t, ts) ==
  CASE t = "or" -> ReadsMore("or", Reads("and", ts))
    [] t = "and" -> ReadsMore("and", Reads("not", ts))
    [] OTHER -> ReadsOne(ts)

\* The dependencies that the help of a symbol prints are the ones that a
\* reader, or the parser, would read there: no parenthesis is missing.
PrintsBack ==
  ~Parsing => LET t == final
                 shown == {t.prop[i].vis : i \in DOMAIN t.prop} \cup {t.symbol[s].rev_dep : s \in AllSyms}
             IN  \A e \in shown \ {None} : Reads("or", Tokens(e, "none")) = [e |-> e, rest |-> <<>>]
=============================================================================
