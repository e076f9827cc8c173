------------------------------ MODULE MakePlan ------------------------------
(***************************************************************************)
(* How GNU make comes to the targets of PkgTargets for a sequence of       *)
(* goals: one goal after the other, depth first, each target once.  The    *)
(* recipes in this order are the value of the constant Plan of PkgBuild.   *)
(***************************************************************************)
EXTENDS PkgTargets

(* The targets make is in the middle of, the innermost last, each with the *)
(* number of the prerequisite it considers next; those it has come to; and *)
(* the recipes whose turn it was.                                          *)
Frame(t, i) == [target |-> t, next |-> i]
Start(line) == [goals |-> line, stack |-> <<>>, seen |-> {}, order |-> <<>>]

Top(s) == s.stack[Len(s.stack)]
Outer(s) == SubSeq(s.stack, 1, Len(s.stack) - 1)
Ended(s) == s.goals = <<>> /\ s.stack = <<>>

Enter(s, t) == [s EXCEPT !.stack = Append(@, Frame(t, 1)), !.seen = @ \cup {t}]
Advanced(stack) == [stack EXCEPT ![Len(stack)].next = @ + 1]

NextGoal(s) ==
    LET rest == [s EXCEPT !.goals = Tail(@)] IN
    IF Head(s.goals) \in s.seen THEN rest ELSE Enter(rest, Head(s.goals))

NextPrereq(s) ==
    LET q == Prereqs[Top(s).target][Top(s).next] IN
    IF q \in s.seen THEN [s EXCEPT !.stack = Advanced(@)] ELSE Enter(s, q)

(* All prerequisites are done: now the recipe, if the target has one.      *)
Leave(s) ==
    LET t == Top(s).target IN
    [s EXCEPT !.stack = IF Len(@) = 1 THEN <<>> ELSE Advanced(Outer(s)),
              !.order = IF t \in RecipeTarget THEN Append(@, t) ELSE @]

Consider(s) ==
    IF Ended(s) THEN s
    ELSE IF s.stack = <<>> THEN NextGoal(s)
    ELSE IF Top(s).next <= Len(Prereqs[Top(s).target]) THEN NextPrereq(s)
    ELSE Leave(s)

Walk(line) == LET s[n \in Nat] == IF n = 0 THEN Start(line) ELSE Consider(s[n - 1]) IN s

(* What make comes to for the goals of a line, when it comes to an end.    *)
IsPlanOf(script, line) == \E n \in Nat : Ended(Walk(line)[n]) /\ script = Walk(line)[n].order

-----------------------------------------------------------------------------
(* What the theorems ask of packages and command lines.  No package        *)
(* depends on itself, directly or through others; and of the goals of a    *)
(* line, those of packages or of the whole build, only the last is not a   *)
(* dirclean.                                                               *)
Ranks(rank) ==
    /\ rank \in [Pkg -> Nat]
    /\ \A p \in Pkg : \A i \in DOMAIN Dependencies[p] : rank[Dependencies[p][i]] < rank[p]
Acyclic == \E rank : Ranks(rank)

Goal == (Phony \X Pkg) \cup (TopLevel \X {World})
DircleansFirst(line) ==
    line \in Seq(Goal) /\ \A i \in 1..Len(line) - 1 : line[i][1] = "dirclean"
=============================================================================
