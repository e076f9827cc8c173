------------------------------- MODULE KConf -------------------------------
(* The program conf, support/kconfig/conf.c, as the targets oldconfig,      *)
(* defconfig, silentoldconfig ... of the Makefile run it, one after the     *)
(* other on the same files.  A run reads a configuration, asks what is new, *)
(* or sets it, and writes.  The recursion of conf and check_conf over the   *)
(* menu is a list of calls that are still to be made.  The files are those  *)
(* of ConfFiles, which says how they follow each other.                     *)
EXTENDS KVisible, ConfFiles

CONSTANTS
  InitialFiles,  \* what .config may be at first
  InitialAutos,  \* what auto.conf and autoconf.h may be at first
  Modes,         \* the modes conf is run in
  PackageSets,   \* what the Makefile takes out of .config for KCONFIG_ALLCONFIG
  Texts,         \* what the user may answer for a number or a string
  Draws,         \* what rand() may draw: the symbols that become y, and those that become m
  MaxRuns        \* bound on the runs of conf

VARIABLES
  defconfig,     \* the file savedefconfig wrote
  mode, sync,    \* input_mode and sync_kconfig
  t,             \* the symbols of the running process
  todo,          \* the calls of conf and check_conf to be made
  root,          \* rootEntry
  conf_cnt,      \* a round has asked something
  saved,         \* the values that were last written to .config and to defconfig
  runs           \* how often conf was started

files == <<config, old, tmp, defconfig, auto, header, touched, current, saved>>
vars == <<files, mode, sync, phase, t, todo, root, conf_cnt, runs>>

NoValues == [s \in {} |-> ""]

Init ==
  /\ config \in InitialFiles
  /\ old = Absent /\ tmp = Absent /\ defconfig = Absent
  /\ auto \in InitialAutos /\ header = auto
  /\ touched = {} /\ current = FALSE
  /\ saved = [config |-> NoValues, early |-> {}, defconfig |-> NoValues]
  /\ mode = "none" /\ sync = FALSE /\ phase = "idle"
  /\ t = NewTable /\ todo = <<>> /\ root = 1 /\ conf_cnt = FALSE
  /\ runs = 0

Exit ==
  /\ phase' = "idle" /\ mode' = "none" /\ sync' = FALSE
  /\ t' = NewTable /\ todo' = <<>> /\ root' = 1 /\ conf_cnt' = FALSE
  /\ runs' = runs

(* ------------------------------- starting ------------------------------- *)

Call(op, id) == [op |-> op, id |-> id]
Asking == {"oldaskconfig", "oldconfig", "silentoldconfig", "listnewconfig", "oldnoconfig"}
Setting == {"allnoconfig", "allyesconfig", "allmodconfig", "alldefconfig", "randconfig"}

\* .config.nopkg, which the Makefile makes for allyespackageconfig and its
\* like: .config without the packages.
WithoutPackages(packages) == SelectSeq(config, LAMBDA line : line[1] \notin packages)

Start(m, u, calls) ==
  /\ runs < MaxRuns
  /\ runs' = runs + 1
  /\ mode' = m
  /\ sync' = (m = "silentoldconfig")
  /\ phase' = IF m \in Asking THEN "ask" ELSE IF m = "savedefconfig" THEN "write" ELSE "set"
  /\ t' = u
  /\ todo' = calls
  /\ root' = 1 /\ conf_cnt' = FALSE
  /\ UNCHANGED files

FirstCalls(m) ==
  IF m \notin Asking THEN <<>> ELSE <<Call(IF m = "oldaskconfig" THEN "conf" ELSE "check", 1)>>
RunReading ==
  /\ phase = "idle"
  /\ \E m \in Modes \cap (Asking \cup {"savedefconfig", "defconfig"}) :
       /\ m = "silentoldconfig" => config # Absent
       /\ m = "defconfig" => defconfig # Absent
       /\ Start(m, conf_read(NewTable, IF m = "defconfig" THEN defconfig ELSE config), FirstCalls(m))

RunSetting ==
  /\ phase = "idle"
  /\ \E m \in Modes \cap Setting, packages \in PackageSets :
       /\ packages # {} => config # Absent
       /\ Start(m, IF packages = {} THEN NewTable ELSE conf_read_simple(NewTable, WithoutPackages(packages)), <<>>)

ValueFor(m) == IF m = "allnoconfig" THEN "n" ELSE IF m = "allmodconfig" THEN "m" ELSE "y"
NoPick == [c \in {} |-> NoSym]
Picks == {pick \in [ChoiceSyms -> AllSyms] : \A c \in ChoiceSyms : ChoiceOf(pick[c]) = c}
\* Where m is drawn for a symbol that is no tristate it becomes y.
RandomValue(s, draw) ==
  IF s \in draw.yes THEN "y" ELSE IF s \notin draw.mod THEN "n"
  ELSE IF sym_get_type(t, s) = "tristate" THEN "m" ELSE "y"
RandomValues == {[s \in NewSymbols(t) |-> RandomValue(s, draw)] : draw \in Draws}

NewValues ==
  CASE mode \in {"alldefconfig", "defconfig"} -> {NoPick}
    [] mode = "randconfig" -> RandomValues
    [] OTHER -> {[s \in NewSymbols(t) |-> ValueFor(mode)]}

SetNew ==
  /\ phase = "set"
  /\ \E value \in NewValues, pick \in IF mode = "randconfig" THEN Picks ELSE {NoPick} :
       t' = conf_set_all_new_symbols(t, value, pick)
  /\ phase' = "write"
  /\ UNCHANGED <<files, mode, sync, todo, root, conf_cnt, runs>>

(* -------------------------------- asking -------------------------------- *)

Kids(op, id) == [i \in DOMAIN Menu(id).kids |-> Call(op, Menu(id).kids[i])]

IsMenu(id) == Menu(id).prompt # 0 /\ Parsed.prop[Menu(id).prompt].kind = "menu"
RECURSIVE menu_get_parent_menu(_)
menu_get_parent_menu(id) ==
  IF id = 1 \/ IsMenu(id) THEN id
  ELSE menu_get_parent_menu(Menu(id).parent)

Asked == phase = "ask" /\ todo # <<>>
At(op) == Asked /\ todo[1].op = op
Here == todo[1].id
HereSym == Menu(Here).sym
\* The call is done, with the calls it leads to.
Go(u, calls) ==
  /\ t' = u
  /\ todo' = calls \o Tail(todo)
  /\ UNCHANGED <<files, mode, sync, phase, runs>>
GoOn(u, calls) == Go(u, calls) /\ UNCHANGED <<root, conf_cnt>>

IsSubmenu(id) == IsMenu(id) /\ mode \in {"silentoldconfig", "listnewconfig", "oldnoconfig"} /\ root # id
ConfCalls(id) ==
  IF IsSubmenu(id) THEN <<Call("check", id)>>
  ELSE IF Menu(id).sym = NoSym THEN Kids("conf", id)
  ELSE <<Call(IF IsChoice(Menu(id).sym) THEN "choice" ELSE "value", id)>>
conf ==
  /\ At("conf")
  /\ \E r \in {menu_is_visible(t, Here)} : GoOn(r.t, IF r.v THEN ConfCalls(Here) ELSE <<>>)

AsksAgain(s) == sym_is_changable(t, s)     \* mutant

\* conf_askvalue only asks for what may be changed, and in the modes of
\* oldconfig for what has no value.
ToAsk(s) == sym_is_changable(t, s) /\ (mode = "oldaskconfig" \/ ~t.sym[s].user)

AnswerText(x) ==
  \E r \in {sym_string_within_range(t, HereSym, x)} :
    r.v /\ GoOn(sym_set_string_value(r.t, HereSym, x), Kids("conf", Here))
conf_string ==
  /\ At("value") /\ ~Logical(HereSym)
  /\ ToAsk(HereSym)
  /\ \E x \in Texts \cup {Text(t, HereSym)} : AnswerText(x)
conf_sym ==
  /\ At("value") /\ Logical(HereSym)
  /\ ToAsk(HereSym)
  /\ \E v \in Consts : /\ MaySetTristate(t, HereSym, v)
                      /\ GoOn(sym_set_tristate_value(t, HereSym, v), Kids("conf", Here))
NotAsked ==
  /\ At("value")
  /\ ~ToAsk(HereSym)
  /\ GoOn(t, Kids("conf", Here))

\* An optional choice is first asked for its own value.
Pick(new) == Call(IF new THEN "picknew" ELSE "pick", Here)
SetsChoice(new) ==
  IF sym_is_changable(t, HereSym) /\ ToAsk(HereSym)
  THEN \E v \in Consts : MaySetTristate(t, HereSym, v) /\ GoOn(sym_set_tristate_value(t, HereSym, v), <<Pick(new)>>)
  ELSE GoOn(t, <<Pick(new)>>)
conf_choice == At("choice") /\ SetsChoice(~t.sym[HereSym].user)

\* The entries of the choice that are shown, with the table that leaves.
IfShown(c, ks, k) == Pair(c.t, IF c.v /\ Menu(k).sym # NoSym THEN Append(ks, k) ELSE ks)
Shown(u) == FoldLeft(LAMBDA r, k : IfShown(menu_is_visible(r.t, k), r.v, k), Pair(u, <<>>), Menu(Here).kids)
\* Whether the user is asked: one entry is taken without, and so is the old
\* one unless the choice is new.
MayPick(u, new, k, shown) ==
  \/ Len(shown) = 1
  \/ mode = "oldaskconfig" \/ new
  \/ Menu(k).sym = u.sym[HereSym].val
PickIn(u, new) ==
  \E r \in {Shown(u)} :
      \E k \in Range(r.v) :
        /\ MayPick(r.t, new, k, r.v)
        /\ GoOn(IF MaySetTristate(r.t, Menu(k).sym, "y")
                THEN sym_set_tristate_value(r.t, Menu(k).sym, "y") ELSE r.t, Kids("conf", k))
PickFrom(u, new) ==
  \/ u.sym[HereSym].tri = "n" /\ GoOn(u, <<>>)
  \/ u.sym[HereSym].tri = "m" /\ GoOn(u, Kids("conf", Here))
  \/ u.sym[HereSym].tri = "y" /\ PickIn(u, new)
pick_value ==
  /\ At("pick") \/ At("picknew")
  /\ \E u \in {sym_calc_value(t, HereSym)} : PickFrom(u, todo[1].op = "picknew")

NewForEver(u, s) == s # NoSym /\ sym_is_changable(u, s)     \* mutant
IsNew(u, s) ==
  s # NoSym /\ ~u.sym[s].user /\ (sym_is_changable(u, s) \/ (IsChoice(s) /\ u.sym[s].tri = "y"))
check_conf ==
  /\ At("check")
  /\ \E r \in {menu_is_visible(t, Here)} :
     LET ask == r.v /\ IsNew(r.t, HereSym) /\ mode \notin {"listnewconfig", "oldnoconfig"}
         top == menu_get_parent_menu(Here)
     IN  /\ Go(r.t, IF ~r.v THEN <<>>
                    ELSE (IF ask THEN <<Call("conf", top)>> ELSE <<>>) \o Kids("check", Here))
         /\ conf_cnt' = (conf_cnt \/ ask)
         /\ root' = IF ask THEN top ELSE root

\* Rounds of check_conf, until one has asked nothing.
NextRoundOf ==
  /\ phase = "ask" /\ todo = <<>>
  /\ conf_cnt \/ mode = "oldaskconfig"
  /\ mode' = IF mode = "oldaskconfig" THEN "silentoldconfig" ELSE mode
  /\ todo' = <<Call("check", 1)>>
  /\ conf_cnt' = FALSE
  /\ UNCHANGED <<files, sync, phase, t, root, runs>>
Settled ==
  /\ phase = "ask" /\ todo = <<>>
  /\ ~conf_cnt /\ mode # "oldaskconfig"
  /\ phase' = "write"
  /\ UNCHANGED <<files, mode, sync, t, todo, root, conf_cnt, runs>>

\* silentoldconfig gives up when it should ask and its input is no terminal,
\* and when the configuration must not be updated silently.
GiveUp ==
  /\ sync
  /\ \/ (At("value") \/ At("choice")) /\ ToAsk(HereSym)
     \/ At("picknew") /\ \E u \in {sym_calc_value(t, HereSym)} :
                           u.sym[HereSym].tri = "y" /\ Len(Shown(u).v) # 1
     \/ phase = "ask" /\ t.changed /\ todo = <<Call("check", 1)>> /\ ~conf_cnt
  /\ Exit
  /\ UNCHANGED files

(* -------------------------------- writing ------------------------------- *)

\* conf_write makes a temporary file, keeps the old .config and puts the new
\* one in its place.
WriteTmp ==
  /\ phase = "write"
  /\ mode \notin {"savedefconfig", "listnewconfig"}
  /\ sync => t.changed
  /\ \E r \in {conf_write(t)} : t' = r.t /\ tmp' = r.v
  /\ phase' = "rename old"
  /\ UNCHANGED <<config, old, defconfig, auto, header, touched, current, saved, mode, sync, todo, root, conf_cnt, runs>>
RemoveOld ==     \* mutant: the old .config is removed
  /\ phase = "rename old"
  /\ config' = Absent /\ current' = FALSE
  /\ phase' = "rename new"
  /\ UNCHANGED <<old, tmp, defconfig, auto, header, touched, saved, mode, sync, t, todo, root, conf_cnt, runs>>
RenameOld ==
  /\ phase = "rename old"
  /\ old' = IF config = Absent THEN old ELSE config
  /\ config' = Absent
  /\ current' = FALSE
  /\ phase' = "rename new"
  /\ UNCHANGED <<tmp, defconfig, auto, header, touched, saved, mode, sync, t, todo, root, conf_cnt, runs>>
RenameNew ==
  /\ phase = "rename new"
  /\ config' = tmp
  /\ tmp' = Absent
  /\ current' = FALSE
  /\ saved' = [saved EXCEPT !.config = Values(Fresh(t)), !.early = t.early]
  /\ IF sync THEN phase' = "write auto" /\ UNCHANGED <<mode, sync, t, todo, root, conf_cnt, runs>> ELSE Exit
  /\ UNCHANGED <<old, defconfig, auto, header, touched>>
SkipsChanged ==     \* mutant: what has changed is not written first
  /\ phase = "write" /\ sync
  /\ phase' = "write auto"
  /\ UNCHANGED <<files, mode, sync, t, todo, root, conf_cnt, runs>>
NothingToWrite ==
  /\ phase = "write"
  /\ sync /\ ~t.changed
  /\ phase' = "write auto"
  /\ UNCHANGED <<files, mode, sync, t, todo, root, conf_cnt, runs>>
OnlyListed == phase = "write" /\ mode = "listnewconfig" /\ Exit /\ UNCHANGED files
WriteDefconfig ==
  /\ phase = "write" /\ mode = "savedefconfig"
  /\ defconfig' = conf_write_defconfig(t).v
  /\ saved' = [saved EXCEPT !.defconfig = Values(Fresh(t))]
  /\ Exit
  /\ UNCHANGED <<config, old, tmp, auto, header, touched, current>>

\* conf_write_autoconf touches the headers of what has changed since the
\* last auto.conf, writes temporary files and renames auto.conf last.
InOrder(S) == SelectSeq(Order, LAMBDA s : s \in S)
OnlyWhatIsSet(lines) ==     \* mutant: what is no longer set is forgotten
  InOrder({s \in Differing(Content(auto), lines) : TextIn(lines, s) # "none"} \ touched)
ToTouch(lines) == InOrder(Differing(Content(auto), lines) \ touched)
TouchNext(lines, left) ==
  IF left = <<>> THEN phase' = "rename header" /\ tmp' = lines /\ UNCHANGED touched
  ELSE phase' = phase /\ touched' = touched \cup {left[1]} /\ UNCHANGED tmp
Touch ==
  /\ phase = "write auto"
  /\ \E lines \in {AutoLines(sym_clear_all_valid(t))} : TouchNext(lines, ToTouch(lines))
  /\ UNCHANGED <<config, old, defconfig, auto, header, current, saved, mode, sync, t, todo, root, conf_cnt, runs>>
RenameHeader ==
  /\ phase = "rename header"
  /\ header' = tmp
  /\ phase' = "rename auto"
  /\ UNCHANGED <<config, old, tmp, defconfig, auto, touched, current, saved, mode, sync, t, todo, root, conf_cnt, runs>>
RenameAuto ==
  /\ phase = "rename auto"
  /\ auto' = tmp
  /\ tmp' = Absent
  /\ touched' = {}
  /\ current' = TRUE
  /\ Exit
  /\ UNCHANGED <<config, old, defconfig, header, saved>>

Crash ==
  /\ phase \notin {"idle", "ask", "set"}
  /\ Exit
  /\ UNCHANGED files

NoMoreRuns == phase = "idle" /\ runs = MaxRuns /\ UNCHANGED vars

Process ==
  \/ SetNew
  \/ conf \/ NotAsked \/ pick_value \/ check_conf \/ NextRoundOf \/ Settled
  \/ conf_string \/ conf_sym \/ conf_choice
  \/ WriteTmp \/ RenameOld \/ RenameNew \/ NothingToWrite \/ OnlyListed \/ WriteDefconfig
  \/ Touch \/ RenameHeader \/ RenameAuto

Next ==
  \/ RunReading \/ RunSetting
  \/ Process
  \/ GiveUp
  \/ Crash
  \/ NoMoreRuns

\* A process that is not idle goes on.  There is no deadlock, so this is weak
\* fairness of Process, without the expensive ENABLED.
Fairness == []<>(phase = "idle") \/ []<><<TRUE>>_vars
Spec == Init /\ [][Next]_vars /\ Fairness

(* ------------------------------ properties ------------------------------ *)

\* What the value of a symbol is made of: its dependencies, the conditions
\* and values of its properties, its choice, and the values of a choice.
MadeOf(s) ==
  LET p == {Parsed.prop[i] : i \in {i \in DOMAIN Parsed.prop : Owner(i) = s /\ Parsed.prop[i].kind # "select"}}
      es == {Parsed.symbol[s].rev_dep, Parsed.symbol[s].dir_dep} \cup {q.vis : q \in p}
              \cup {q.value : q \in {q \in p : q.kind = "default"}}
  IN  UNION {Range(SymsIn(e)) : e \in es} \cup UNION {{q.lo, q.hi} : q \in {q \in p : q.kind = "range"}}
        \cup {ChoiceOf(s)} \cup Range(ValuesOf(s))
Influences == UNION {{<<u, s>> : u \in MadeOf(s)} : s \in AllSyms}

Stale(u) == {s \in AllSyms : t.sym[s].valid /\ (t.sym[s].val # u.sym[s].val \/ t.sym[s].tri # u.sym[s].tri)}
\* A value that is marked as valid is the one that a calculation from
\* nothing but the values of the user would give: no symbol is left with a
\* stale value when a question is asked or the result is written.  The one
\* exception is randconfig where a choice depends on a value of another one
\* that got its random value later: that value, and what is made of it, may
\* be stale, and nothing else.
CacheFresh ==
  phase = "write" \/ At("value") \/ At("pick") \/ At("picknew") =>
    \A s \in Stale(Fresh(t)) : s \in Reach(Influences, t.early)

Written == phase = "idle" /\ config # Absent /\ saved.config # NoValues
ChosenIn(lines, c) == {s \in AllSyms : ChoiceOf(s) = c /\ TextIn(lines, s) = "y"}
\* Of the values of a choice at most one is y in a .config that conf wrote,
\* not counting those randconfig calculated before it gave their choice
\* another value: the comment at confdata.c:1073-1076, which has one value set
\* to yes and the rest to no, is not true of them.
OneValue == Written => \A c \in ChoiceSyms : Cardinality(ChosenIn(config, c) \ saved.early) <= 1

AlsoNew(c, v, id) == Pair(c.t, v \/ (c.v /\ IsNew(c.t, Menu(id).sym)))
New(u) == FoldLeft(LAMBDA r, id : AlsoNew(menu_is_visible(r.t, id), r.v, id), Pair(u, FALSE), PreOrder(1)).v

\* A .config that conf wrote is read back as it was: every symbol has the
\* value it had, nothing is asked again, and the same lines would be
\* written.  Lines about values of a choice that are no longer shown may be
\* left from before; they only say that the value is not set.  A .config in
\* which randconfig left two values of a choice is not meant.
SameLines(lines) ==
  /\ lines \subseteq Range(config)
  /\ \A line \in Range(config) \ lines : IsValue(line[1]) /\ line[2] = "unset"
SameAgain(u) == Values(Fresh(u)) = saved.config /\ ~New(u) /\ SameLines(Range(conf_write(u).v))
ReadsBack == Written /\ saved.early = {} => \E u \in {conf_read(NewTable, config)} : SameAgain(u)

\* A minimal configuration makes defconfig restore every value.
DefconfigRestores ==
  phase = "idle" /\ defconfig # Absent =>
    \E u \in {conf_read(NewTable, defconfig)} :
      Values(Fresh(conf_set_all_new_symbols(u, NoPick, NoPick))) = saved.defconfig

StandsIn(u) ==
  \A s \in AllSyms \ ChoiceSyms :
    ~IsValue(s) /\ u.sym[s].user => t.sym[s].utri = u.sym[s].utri /\ t.sym[s].uval = u.sym[s].uval
\* oldconfig asks only what is new: what .config said of a symbol outside a
\* choice stands, whatever was answered to the other questions.
KeepsAnswers ==
  phase = "write" /\ mode = "oldconfig" /\ config # Absent =>
    \E u \in {conf_read(NewTable, config)} : StandsIn(u)

\* conf comes to its end, however the questions are answered.
ConfEnds == (phase # "idle") ~> (phase = "idle")
=============================================================================
