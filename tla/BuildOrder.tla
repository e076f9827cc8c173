----------------------------- MODULE BuildOrder -----------------------------
(***************************************************************************)
(* What the package infrastructure promises, with make, stamps and build   *)
(* directories left out: packages become installed one at a time, each     *)
(* only while all of its dependencies are, and may be withdrawn at will.   *)
(***************************************************************************)
EXTENDS Naturals, Sequences

CONSTANTS
    Pkg,
    Dependencies,   \* p -> the sequence of packages it depends on
    Given           \* packages that install nothing

VARIABLE ready      \* the packages that are completely installed

Init == ready = Given

Provide(p) == /\ p \notin ready
              /\ \A i \in DOMAIN Dependencies[p] : Dependencies[p][i] \in ready
              /\ ready' = ready \cup {p}

Withdraw(p) == p \in ready /\ ready' = ready \ {p}

Next == \E p \in Pkg : Provide(p) \/ Withdraw(p)

Spec == Init /\ [][Next]_ready
=============================================================================
