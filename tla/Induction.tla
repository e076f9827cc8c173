------------------------------ MODULE Induction -----------------------------
(***************************************************************************)
(* Induction over the natural numbers, for sets instead of predicates, and *)
(* what follows from it for the proofs about this project's modules: that  *)
(* a function defined by recursion exists, and that a bounded set of       *)
(* numbers has a least and a greatest element.                             *)
(***************************************************************************)
EXTENDS Integers, FiniteSetsExt, WellFoundedInduction, TLAPS

(* A set of naturals that has 0 and the successor of each of its elements  *)
(* has all of them.                                                        *)
LEMMA SetInduction ==
  ASSUME NEW S, S \subseteq Nat, 0 \in S, \A n \in S : n + 1 \in S
  PROVE  S = Nat
<1> DEFINE T == Nat \ S
           Lt == {ss \in Nat \X Nat : ss[1] < ss[2]}
<1> SUFFICES ASSUME T # {} PROVE FALSE
  OBVIOUS
<1>1. PICK x \in T : \A y \in T : ~(<<y, x>> \in Lt)
  <2>1. Lt = OpToRel(<, Nat)
    BY Zenon DEF OpToRel
  <2>2. IsWellFoundedOn(Lt, Nat)
    BY NatLessThanWellFounded, <2>1
  <2>3. T \subseteq Nat
    BY DEF T
  <2> HIDE DEF T, Lt
  <2> QED
    BY <2>2, <2>3, WFMin
<1>2. \A y \in T : ~(y < x)
  BY <1>1
<1>3. x - 1 \in Nat /\ x - 1 \notin T
  BY <1>2
<1> QED
  BY <1>3

(* Every nonempty set of naturals has a least element.                     *)
LEMMA LeastExists ==
  ASSUME NEW T, T \subseteq Nat, T # {}
  PROVE  \E x \in T : \A y \in T : x <= y
<1> DEFINE S == {n \in Nat : \A y \in T : n <= y}
<1>1. 0 \in S
  OBVIOUS
<1>2. S # Nat
  <2>1. PICK y \in T : TRUE
    OBVIOUS
  <2>2. y + 1 \in Nat /\ y + 1 \notin S
    BY <2>1
  <2> QED
    BY <2>2
<1>3. PICK n \in S : n + 1 \notin S
  <2>1. S \subseteq Nat
    OBVIOUS
  <2> HIDE DEF S
  <2> QED
    BY <1>1, <1>2, <2>1, SetInduction
<1>4. PICK y \in T : ~(n + 1 <= y)
  BY <1>3
<1>5. y = n
  BY <1>3, <1>4
<1> QED
  BY <1>3, <1>5

(* And one that is bounded has a greatest.                                 *)
LEMMA GreatestExists ==
  ASSUME NEW T, NEW b \in Nat, T \subseteq 0 .. b, T # {}
  PROVE  \E x \in T : \A y \in T : x >= y
<1> DEFINE U == {u \in Nat : b - u \in T}
<1>1. U \subseteq Nat /\ U # {}
  <2>1. PICK y \in T : TRUE
    OBVIOUS
  <2>2. b - y \in Nat /\ b - (b - y) = y
    BY <2>1
  <2> QED
    BY <2>1, <2>2
<1>2. PICK u \in U : \A v \in U : u <= v
  <2> HIDE DEF U
  <2> QED
    BY <1>1, LeastExists
<1>3. u \in Nat /\ b - u \in T
  BY <1>2
<1>4. ASSUME NEW y \in T PROVE b - u >= y
  <2>1. b - y \in Nat /\ b - (b - y) = y
    OBVIOUS
  <2>2. b - y \in U
    BY <2>1
  <2> QED
    BY <2>2, <2>1, <1>2, <1>3
<1> QED
  BY <1>3, <1>4

LEMMA MinOfBounded ==
  ASSUME NEW T, T \subseteq Nat, T # {}
  PROVE  Min(T) \in T /\ \A y \in T : Min(T) <= y
BY LeastExists DEF Min

LEMMA MaxOfBounded ==
  ASSUME NEW T, NEW b \in Nat, T \subseteq 0 .. b, T # {}
  PROVE  Max(T) \in T /\ \A y \in T : Max(T) >= y
BY GreatestExists DEF Max

LEMMA MinOfTwo == ASSUME NEW a \in Int, NEW b \in Int
                  PROVE  Min({a, b}) = IF a <= b THEN a ELSE b
<1>1. \E x \in {a, b} : \A y \in {a, b} : x <= y
  OBVIOUS
<1>2. Min({a, b}) \in {a, b} /\ \A y \in {a, b} : Min({a, b}) <= y
  BY <1>1 DEF Min
<1> QED
  BY <1>2

LEMMA MaxOfTwo == ASSUME NEW a \in Int, NEW b \in Int
                  PROVE  Max({a, b}) = IF a >= b THEN a ELSE b
<1>1. \E x \in {a, b} : \A y \in {a, b} : x >= y
  OBVIOUS
<1>2. Max({a, b}) \in {a, b} /\ \A y \in {a, b} : Max({a, b}) >= y
  BY <1>1 DEF Max
<1> QED
  BY <1>2

(* The run from a in which the i-th step is F[i].                          *)
IsRun(f, S, a, F) ==
  /\ f = [i \in Nat |-> f[i]]
  /\ f[0] = a
  /\ \A i \in Nat : f[i] \in S
  /\ \A i \in Nat : f[i + 1] = F[i + 1][f[i]]

(* Every start and all steps on a set S give an endless run.               *)
LEMMA RunExists ==
  ASSUME NEW S, NEW a, a \in S, NEW F, \A i \in Nat : \A x \in S : F[i][x] \in S
  PROVE  \E f : IsRun(f, S, a, F)
<1> DEFINE Upto(n) == {g \in [0 .. n -> S] : g[0] = a /\ \A i \in 1 .. n : g[i] = F[i][g[i - 1]]}
           Good == {n \in Nat : /\ Upto(n) # {}
                                /\ \A g, h \in Upto(n) : g = h}
<1>1. 0 \in Good
  <2>1. [i \in 0 .. 0 |-> a] \in Upto(0)
    OBVIOUS
  <2>2. \A g, h \in Upto(0) : g = h
    <3> SUFFICES ASSUME NEW g \in Upto(0), NEW h \in Upto(0) PROVE g = h
      OBVIOUS
    <3>1. g \in [{0} -> S] /\ h \in [{0} -> S] /\ g[0] = h[0]
      BY 0 .. 0 = {0}
    <3> QED
      BY <3>1
  <2> QED
    BY <2>1, <2>2
<1>2. ASSUME NEW n \in Good PROVE n + 1 \in Good
  <2>1. PICK g : g \in Upto(n)
    BY <1>2
  <2>2. \A h \in Upto(n + 1) : [i \in 0 .. n |-> h[i]] \in Upto(n)
    BY 0 .. n \subseteq 0 .. n + 1, n \in 0 .. n
  <2>3. [i \in 0 .. n + 1 |-> IF i = n + 1 THEN F[n + 1][g[n]] ELSE g[i]] \in Upto(n + 1)
    <3> DEFINE h == [i \in 0 .. n + 1 |-> IF i = n + 1 THEN F[n + 1][g[n]] ELSE g[i]]
    <3>1. g[n] \in S /\ n + 1 \in Nat
      BY <2>1
    <3>2. h \in [0 .. n + 1 -> S]
      BY <2>1, <3>1
    <3>3. \A i \in 1 .. n + 1 : h[i] = F[i][h[i - 1]]
      BY <2>1
    <3> QED
      BY <3>2, <3>3, <2>1
  <2>4. ASSUME NEW h \in Upto(n + 1), NEW k \in Upto(n + 1) PROVE h = k
    <3>1. [i \in 0 .. n |-> h[i]] = [i \in 0 .. n |-> k[i]]
      BY <2>2, <1>2, <2>4
    <3>2. \A i \in 0 .. n : h[i] = k[i]
      BY <3>1
    <3>3. h[n + 1] = k[n + 1]
      BY <3>2, n + 1 \in 1 .. n + 1, n \in 0 .. n, (n + 1) - 1 = n
    <3>4. 0 .. n + 1 = 0 .. n \cup {n + 1}
      OBVIOUS
    <3> QED
      BY <3>2, <3>3, <3>4
  <2>5. n + 1 \in Nat
    BY <1>2
  <2>6. Upto(n + 1) # {} /\ \A h, k \in Upto(n + 1) : h = k
    <3> HIDE DEF Upto
    <3> QED
      BY <2>3, <2>4
  <2> QED
    BY <2>5, <2>6
<1>3. Good = Nat
  <2>1. Good \subseteq Nat
    OBVIOUS
  <2> HIDE DEF Good
  <2> QED
    BY <1>1, <1>2, <2>1, SetInduction
<1> DEFINE run(n) == CHOOSE g : g \in Upto(n)
           f == [n \in Nat |-> run(n)[n]]
<1>4. \A n \in Nat : run(n) \in Upto(n)
  BY <1>3
<1>5. \A n \in Nat : \A i \in 0 .. n : run(n)[i] = run(i)[i]
  <2> SUFFICES ASSUME NEW n \in Nat, NEW i \in 0 .. n PROVE run(n)[i] = run(i)[i]
    OBVIOUS
  <2> DEFINE g == run(n)
             h == [j \in 0 .. i |-> g[j]]
  <2>1. g \in Upto(n) /\ run(i) \in Upto(i)
    <3> HIDE DEF run, Upto
    <3> QED
      BY <1>4
  <2> HIDE DEF g, run
  <2>2. h \in Upto(i)
    <3>1. 0 .. i \subseteq 0 .. n /\ 1 .. i \subseteq 1 .. n /\ \A j \in 1 .. i : j - 1 \in 0 .. i
      OBVIOUS
    <3> QED
      BY <2>1, <3>1
  <2>3. h = run(i)
    <3> HIDE DEF h, Upto
    <3> QED
      BY <2>2, <2>1, <1>3
  <2>4. h[i] = g[i]
    BY i \in 0 .. i
  <2> QED
    BY <2>3, <2>4 DEF g
<1>6. \A i \in Nat : run(i)[i] \in S
  <2> HIDE DEF run
  <2> QED
    BY <1>4
<1>7. run(0)[0] = a /\ \A i \in Nat : run(i + 1)[i + 1] = F[i + 1][run(i)[i]]
  <2>1. \A i \in Nat : run(i + 1) \in Upto(i + 1) /\ run(i + 1)[i] = run(i)[i] /\ i + 1 \in 1 .. i + 1
    <3> HIDE DEF run, Upto
    <3> QED
      BY <1>4, <1>5
  <2> HIDE DEF run
  <2>2. run(0)[0] = a
    BY <1>4
  <2>3. ASSUME NEW i \in Nat PROVE run(i + 1)[i + 1] = F[i + 1][run(i)[i]]
    <3>1. run(i + 1)[i + 1] = F[i + 1][run(i + 1)[(i + 1) - 1]]
      BY <2>1
    <3>2. (i + 1) - 1 = i
      OBVIOUS
    <3> QED
      BY <3>1, <3>2, <2>1
  <2> QED
    BY <2>2, <2>3
<1>8. f = [i \in Nat |-> f[i]] /\ f[0] = a /\ \A i \in Nat : f[i] = run(i)[i]
  <2> HIDE DEF run
  <2> QED
    BY <1>7
<1>9. \A i \in Nat : f[i] \in S /\ f[i + 1] = F[i + 1][f[i]]
  <2> HIDE DEF f, run
  <2> QED
    BY <1>6, <1>7, <1>8
<1> HIDE DEF f
<1> QED
  BY <1>8, <1>9 DEF IsRun
=============================================================================
