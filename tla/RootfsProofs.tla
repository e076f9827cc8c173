---------------------------- MODULE RootfsProofs ---------------------------
(* What holds of the images and of makedevs for every table, every number   *)
(* of builds and wherever they are cut short.                               *)
EXTENDS Rootfs, Induction

(* Between the removal of the warning and the end of fakeroot nothing puts  *)
(* it back, so what was made is without it.                                 *)
ImagesByName == image = [f \in ToSet(Images) |-> image[f]]
WarningInv ==
  /\ ImagesByName
  /\ step \in {"script", "fakeroot"} => ~warning
  /\ WarningKeptOut

\* No image is whole before the first build.
LEMMA WarningInit == Init => WarningInv
<1> SUFFICES ASSUME Init PROVE WarningInv
  OBVIOUS
<1>1. step = "none" /\ image = [f \in ToSet(Images) |-> NoImage]
  BY DEF Init
<1>2. \A f \in ToSet(Images) : image[f].state # "whole"
  BY <1>1 DEF NoImage
<1>3. ImagesByName
  BY <1>1 DEF ImagesByName
<1> QED
  BY <1>1, <1>2, <1>3 DEF WarningInv, WarningKeptOut, Whole

\* What an assignment to the image being made leaves of the others.
LEMMA OneImage ==
  ASSUME ImagesByName, NEW v, image' = [image EXCEPT ![Name] = v]
  PROVE  /\ ImagesByName'
         /\ \A f \in ToSet(Images) : image'[f] = v \/ image'[f] = image[f]
BY DEF ImagesByName

\* Steps that change neither the images nor the warning, and do not reach
\* the lines of the recipe in which it must be gone.
LEMMA WarningSame ==
  ASSUME WarningInv, image' = image, warning' = warning,
         step' \in {"script", "fakeroot"} => step \in {"script", "fakeroot"}
  PROVE  WarningInv'
BY DEF WarningInv, WarningKeptOut, Whole, ImagesByName

\* Every step of the recipe, and every way it ends, keeps the invariant.
LEMMA WarningStep == WarningInv /\ [Next]_vars => WarningInv'
<1> SUFFICES ASSUME WarningInv, [Next]_vars PROVE WarningInv'
  OBVIOUS
<1>1. CASE make
  BY <1>1, WarningSame DEF make
<1>2. CASE PreGenHooks
  BY <1>2, WarningSame DEF PreGenHooks, Goes
<1>3. CASE RemoveOld
  BY <1>3 DEF RemoveOld, Goes, WarningInv, WarningKeptOut, Whole, ImagesByName
<1>4. CASE WriteScript
  BY <1>4, WarningSame DEF WriteScript, Goes
<1>5. CASE ChownAll
  BY <1>5, WarningSame DEF ChownAll, Commanded, Goes
<1>6. CASE StartMakedevs
  BY <1>6, WarningSame DEF StartMakedevs, Commanded, Goes
<1>7. CASE ReadLine
  BY <1>7, WarningSame DEF ReadLine, Commanded, Goes
<1>8. CASE EndMakedevs
  BY <1>8, WarningSame DEF EndMakedevs, Commanded, Goes
<1>9. CASE MakeImage
  <2>1. ~warning /\ step' = "restore" /\ warning' = warning
    BY <1>9 DEF MakeImage, Goes, WarningInv
  <2>2. image' = [image EXCEPT ![Name] = Made(tree, warning)]
    BY <1>9 DEF MakeImage
  <2>3. ~Made(tree, warning).warning
    BY <2>1 DEF Made
  <2>4. ImagesByName' /\ \A f \in ToSet(Images) : image'[f] = Made(tree, warning) \/ image'[f] = image[f]
    BY <2>2, OneImage DEF WarningInv
  <2> QED
    BY <2>1, <2>3, <2>4 DEF WarningInv, WarningKeptOut, Whole
<1>10. CASE ImageFails
  <2>1. image' = [image EXCEPT ![Name] = Partial] /\ step' = "none" /\ warning' = warning
    BY <1>10 DEF ImageFails, Stopped
  <2>2. ImagesByName' /\ \A f \in ToSet(Images) : image'[f] = Partial \/ image'[f] = image[f]
    BY <2>1, OneImage DEF WarningInv
  <2>3. Partial.state # "whole"
    BY DEF Partial
  <2> QED
    BY <2>1, <2>2, <2>3 DEF WarningInv, WarningKeptOut, Whole
<1>11. CASE Interrupt
  <2>1. PICK left \in CutShort : image' = [image EXCEPT ![Name] = left]
    BY <1>11 DEF Interrupt
  <2>2. left = image[Name] \/ left.state # "whole"
    BY <2>1 DEF CutShort, Partial, NoImage
  <2>3. step' = "none" /\ warning' = warning
    BY <1>11 DEF Interrupt, Stopped
  <2>4. ImagesByName' /\ \A f \in ToSet(Images) : image'[f] = left \/ image'[f] = image[f]
    BY <2>1, OneImage DEF WarningInv
  <2>5. \A f \in ToSet(Images) : left = image[Name] => image'[f] = image[f]
    BY <2>1 DEF WarningInv, ImagesByName
  <2> QED
    BY <2>2, <2>3, <2>4, <2>5 DEF WarningInv, WarningKeptOut, Whole
<1>12. CASE Restore
  BY <1>12 DEF Restore, Finish, WarningInv, WarningKeptOut, Whole, ImagesByName
<1>13. CASE UNCHANGED vars
  BY <1>13, WarningSame DEF vars
<1> QED
  BY <1>1, <1>2, <1>3, <1>4, <1>5, <1>6, <1>7, <1>8, <1>9, <1>10, <1>11, <1>12, <1>13 DEF Next, Recipe

(* No image of the root filesystem has the warning file of the target       *)
(* directory in it, whatever fails or is interrupted (common.mk:48-60).     *)
THEOREM WarningNeverShipped == Spec => []WarningKeptOut
<1>1. WarningInv => WarningKeptOut
  BY DEF WarningInv
<1> QED
  BY <1>1, WarningInit, WarningStep, PTL DEF Spec

(* The arithmetic of a series, where the last of its minor numbers fits an  *)
(* unsigned int (makedevs.c:502).                                           *)
LEMMA MinorOfSeries ==
  ASSUME NEW l, l.minor \in Nat, l.increment \in Nat, l.count \in Nat,
         l.minor + (l.count - 1) * l.increment < Word,
         NEW i \in 0 .. l.count - 1
  PROVE  MinorOf(l, i) = l.minor + i * l.increment
<1> DEFINE rest == (l.count - 1) - i
<1>1. rest \in Nat /\ rest * l.increment \in Nat
  <2>1. rest \in Nat
    OBVIOUS
  <2> QED
    BY <2>1
<1>2. (l.count - 1) * l.increment = i * l.increment + rest * l.increment
  OBVIOUS
<1>3. l.minor + i * l.increment \in 0 .. Word - 1
  BY <1>1, <1>2, Widths
<1>4. \A n \in 0 .. Word - 1 : n % Word = n
  BY Widths
<1> QED
  BY <1>3, <1>4 DEF MinorOf

(* -------------------------- the way to a path --------------------------- *)
WayEquation(W) == W = [p \in Paths |-> IF p = Root THEN <<>> ELSE Append(W[Parent[p]], p)]

(* A set with the root and, with every directory, what is in it has all.    *)
LEMMA PathInduction ==
  ASSUME NEW S, Root \in S, \A p \in Paths \ {Root} : Parent[p] \in S => p \in S
  PROVE  Paths \subseteq S
<1> DEFINE T == {p \in Paths \ {Root} : p \notin S}
<1>1. \A p \in T : Parent[p] \in T
  BY RootIsAPath
<1>2. T \in SUBSET (Paths \ {Root})
  OBVIOUS
<1>3. T = {}
  <2> HIDE DEF T
  <2> QED
    BY <1>1, <1>2, Rooted
<1> QED
  BY <1>3

(* The ways to the paths at a bounded distance from the root, which further *)
(* rounds leave alone, give the way to every path.                          *)
LEMMA WayDefined == WayEquation(Way)
<1> DEFINE S == [Paths -> Seq(Paths)]
           Longer(x) == [p \in Paths |-> IF p = Root THEN <<>> ELSE Append(x[Parent[p]], p)]
           F == [i \in Nat |-> [x \in S |-> Longer(x)]]
           a == [p \in Paths |-> <<>>]
<1>1. a \in S
  OBVIOUS
<1>2. \A i \in Nat : \A x \in S : F[i][x] \in S /\ F[i][x] = Longer(x)
  BY RootIsAPath
<1>3. PICK f : IsRun(f, S, a, F)
  <2> HIDE DEF S, F, a
  <2> QED
    BY <1>1, <1>2, RunExists
<1>4. \A i \in Nat : f[i + 1] = Longer(f[i])
  <2> HIDE DEF S, F, a, Longer
  <2>1. \A i \in Nat : f[i + 1] = F[i + 1][f[i]] /\ f[i] \in S /\ i + 1 \in Nat
    BY <1>3 DEF IsRun
  <2> QED
    BY <2>1, <1>2
<1>5. \A i \in Nat : \A p \in Paths : f[i + 1][p] = IF p = Root THEN <<>> ELSE Append(f[i][Parent[p]], p)
  BY <1>4
<1> DEFINE Fixed(p, n) == \A m \in Nat : m >= n => f[m][p] = f[n][p]
           G == {p \in Paths : \E n \in Nat : Fixed(p, n)}
<1>6. Root \in G
  <2>1. \A m \in Nat : m >= 1 => f[m][Root] = <<>>
    <3> SUFFICES ASSUME NEW m \in Nat, m >= 1 PROVE f[m][Root] = <<>>
      OBVIOUS
    <3>1. m - 1 \in Nat /\ (m - 1) + 1 = m
      OBVIOUS
    <3> QED
      BY <3>1, <1>5, RootIsAPath
  <2>2. Fixed(Root, 1)
    BY <2>1
  <2> QED
    BY <2>2, RootIsAPath
<1>7. ASSUME NEW p \in Paths \ {Root}, Parent[p] \in G PROVE p \in G
  <2>1. PICK n \in Nat : Fixed(Parent[p], n)
    BY <1>7
  <2>2. \A m \in Nat : m >= n + 1 => f[m][p] = Append(f[n][Parent[p]], p)
    <3> SUFFICES ASSUME NEW m \in Nat, m >= n + 1 PROVE f[m][p] = Append(f[n][Parent[p]], p)
      OBVIOUS
    <3>1. m - 1 \in Nat /\ (m - 1) + 1 = m /\ m - 1 >= n
      OBVIOUS
    <3> QED
      BY <3>1, <2>1, <1>5
  <2>3. n + 1 \in Nat /\ n + 1 >= n + 1
    OBVIOUS
  <2>4. f[n + 1][p] = Append(f[n][Parent[p]], p)
    BY <2>2, <2>3
  <2>5. Fixed(p, n + 1)
    BY <2>2, <2>4
  <2> QED
    BY <2>3, <2>5
<1>8. \A p \in Paths : p \in G
  <2> HIDE DEF G
  <2> QED
    BY <1>6, <1>7, PathInduction
<1> DEFINE depth(p) == CHOOSE n \in Nat : Fixed(p, n)
           W == [p \in Paths |-> f[depth(p)][p]]
<1>9. \A p \in Paths : depth(p) \in Nat /\ Fixed(p, depth(p))
  BY <1>8
<1>10. \A p \in Paths : \A n \in Nat : n >= depth(p) => f[n][p] = W[p]
  <2> HIDE DEF depth
  <2> QED
    BY <1>9
<1>11. ASSUME NEW p \in Paths PROVE W[p] = IF p = Root THEN <<>> ELSE Append(W[Parent[p]], p)
  <2> HIDE DEF W, depth, Fixed, G
  <2>1. CASE p = Root
    <3>1. depth(p) + 1 \in Nat /\ depth(p) + 1 >= depth(p) /\ depth(p) \in Nat
      BY <1>9
    <3> QED
      BY <3>1, <2>1, <1>10, <1>5
  <2>2. CASE p # Root
    <3>1. Parent[p] \in Paths
      BY <2>2, RootIsAPath
    <3>2. PICK n \in Nat : n >= depth(p) /\ n >= depth(Parent[p])
      <4>1. depth(p) \in Nat /\ depth(Parent[p]) \in Nat
        BY <3>1, <1>9
      <4>2. depth(p) + depth(Parent[p]) \in Nat /\ depth(p) + depth(Parent[p]) >= depth(p) /\ depth(p) + depth(Parent[p]) >= depth(Parent[p])
        BY <4>1
      <4> QED
        BY <4>2
    <3>3. f[n][Parent[p]] = W[Parent[p]]
      BY <3>1, <3>2, <1>10
    <3>4. f[n + 1][p] = W[p]
      <4>1. n + 1 \in Nat /\ n + 1 >= depth(p)
        BY <3>2, <1>9
      <4> QED
        BY <4>1, <1>10
    <3> QED
      BY <3>3, <3>4, <2>2, <1>5
  <2> QED
    BY <2>1, <2>2
<1>12. W = [p \in Paths |-> W[p]]
  OBVIOUS
<1>13. WayEquation(W)
  <2> HIDE DEF W
  <2> QED
    BY <1>11, <1>12 DEF WayEquation
<1>14. Way = CHOOSE w : WayEquation(w)
  BY Zenon DEF Way, WayEquation
<1> HIDE DEF W
<1> QED
  BY <1>13, <1>14

(* The way to a path goes down from the root directory by directory.        *)
Downward(w, p) ==
  /\ w \in Seq(Paths \ {Root})
  /\ Len(w) > 0 /\ w[Len(w)] = p
  /\ \A i \in 1 .. Len(w) : IF i = 1 THEN Parent[w[1]] = Root ELSE Parent[w[i]] = w[i - 1]

LEMMA WayDownward ==
  /\ Way[Root] = <<>>
  /\ \A p \in Paths \ {Root} : Downward(Way[p], p)
<1>1. \A p \in Paths : Way[p] = IF p = Root THEN <<>> ELSE Append(Way[Parent[p]], p)
  BY WayDefined DEF WayEquation
<1> DEFINE G == {p \in Paths : p = Root \/ Downward(Way[p], p)}
<1>2. Root \in G
  BY RootIsAPath
<1>3. ASSUME NEW p \in Paths \ {Root}, Parent[p] \in G PROVE p \in G
  <2>1. CASE Parent[p] = Root
    <3>1. Way[Root] = <<>> /\ Way[p] = Append(Way[Parent[p]], p)
      BY <1>1, RootIsAPath
    <3>2. Way[p] = <<p>>
      <4>1. Way[p] = Append(<<>>, p)
        BY <3>1, <2>1
      <4>2. Append(<<>>, p) = <<p>>
        OBVIOUS
      <4> QED
        BY <4>1, <4>2
    <3>3. <<p>> \in Seq(Paths \ {Root}) /\ Len(<<p>>) = 1 /\ <<p>>[1] = p
      OBVIOUS
    <3>4. Downward(<<p>>, p)
      BY <3>3, <2>1 DEF Downward
    <3> QED
      BY <3>2, <3>4
  <2>2. CASE Parent[p] # Root
    <3> DEFINE v == Way[Parent[p]]
    <3>1. v \in Seq(Paths \ {Root}) /\ Len(v) > 0 /\ v[Len(v)] = Parent[p]
      BY <1>3, <2>2 DEF Downward
    <3>2. \A i \in 1 .. Len(v) : IF i = 1 THEN Parent[v[1]] = Root ELSE Parent[v[i]] = v[i - 1]
      BY <1>3, <2>2 DEF Downward
    <3>3. Way[p] = Append(v, p)
      BY <1>1
    <3> HIDE DEF v
    <3>4. Append(v, p) \in Seq(Paths \ {Root}) /\ Len(Append(v, p)) = Len(v) + 1
      BY <3>1
    <3>5. \A i \in 1 .. Len(v) : Append(v, p)[i] = v[i]
      BY <3>1
    <3>6. Append(v, p)[Len(v) + 1] = p
      BY <3>1
    <3>7. Len(v) \in Nat
      BY <3>1
    <3>8. ASSUME NEW i \in 1 .. Len(v) + 1
          PROVE  IF i = 1 THEN Parent[Append(v, p)[1]] = Root
                 ELSE Parent[Append(v, p)[i]] = Append(v, p)[i - 1]
      <4>1. CASE i = Len(v) + 1
        BY <4>1, <3>1, <3>5, <3>6, <3>7
      <4>2. CASE i # Len(v) + 1
        BY <4>2, <3>1, <3>2, <3>5, <3>7
      <4> QED
        BY <4>1, <4>2
    <3>9. Downward(Append(v, p), p)
      BY <3>4, <3>6, <3>7, <3>8 DEF Downward
    <3> QED
      BY <3>3, <3>9
  <2> QED
    BY <2>1, <2>2
<1>4. \A p \in Paths : p \in G
  <2> HIDE DEF G
  <2> QED
    BY <1>2, <1>3, PathInduction
<1> QED
  BY <1>1, <1>4, RootIsAPath

(* ---------------------- directories that are made ----------------------- *)

LEMMA OneElement == ASSUME NEW x PROVE (CHOOSE w \in {x} : TRUE) = x
  OBVIOUS

\* What bb_make_directory computes, one directory after the other.
WayRun(r, T, p, mode) ==
  r = [n \in 0 .. Len(Way[p]) |->
         IF n = 0 THEN Done(T, TRUE) ELSE With(r[n - 1], LAMBDA x : MakeOne(x, Way[p][n], p, mode))]

LEMMA WithMakeOne ==
  ASSUME NEW r, NEW q, NEW p, NEW mode
  PROVE  With(r, LAMBDA x : MakeOne(x, q, p, mode)) = MakeOne(r, q, p, mode)
<1>1. {MakeOne(x, q, p, mode) : x \in {r}} = {MakeOne(r, q, p, mode)}
  OBVIOUS
<1> QED
  BY <1>1, OneElement DEF With

\* The recursion of bb_make_directory is defined.
LEMMA MakeDirectoryRun ==
  ASSUME NEW T, NEW p, NEW mode, Len(Way[p]) \in Nat
  PROVE  \E r : WayRun(r, T, p, mode) /\ bb_make_directory(T, p, mode) = r[Len(Way[p])]
<1> DEFINE Step(x, n) == With(x, LAMBDA y : MakeOne(y, Way[p][n], p, mode))
           Upto(r, N) == r = [n \in 0 .. N |-> IF n = 0 THEN Done(T, TRUE) ELSE Step(r[n - 1], n)]
           Good == {N \in Nat : \E r : Upto(r, N)}
<1>1. 0 \in Good
  <2> HIDE DEF Step
  <2>1. Upto([n \in 0 .. 0 |-> Done(T, TRUE)], 0)
    OBVIOUS
  <2> QED
    BY <2>1
<1>2. ASSUME NEW N \in Good PROVE N + 1 \in Good
  <2> HIDE DEF Step
  <2>1. PICK r : Upto(r, N)
    BY <1>2
  <2> DEFINE s == [n \in 0 .. N + 1 |-> IF n = N + 1 THEN Step(r[N], N + 1) ELSE r[n]]
  <2>2. N \in Nat
    BY <1>2
  <2>3. ASSUME NEW n \in 0 .. N + 1
        PROVE  s[n] = IF n = 0 THEN Done(T, TRUE) ELSE Step(s[n - 1], n)
    <3>1. CASE n = N + 1
      <4>1. n # 0 /\ n - 1 = N /\ N \in 0 .. N + 1 /\ N # N + 1
        BY <3>1, <2>2
      <4>2. s[n] = Step(r[N], N + 1) /\ s[N] = r[N]
        BY <3>1, <4>1
      <4> QED
        BY <4>1, <4>2, <3>1
    <3>2. CASE n # N + 1
      <4>1. n \in 0 .. N /\ (n # 0 => n - 1 \in 0 .. N + 1 /\ n - 1 # N + 1)
        BY <3>2, <2>2
      <4>2. s[n] = r[n] /\ (n # 0 => s[n - 1] = r[n - 1])
        BY <3>2, <4>1
      <4>3. r[n] = IF n = 0 THEN Done(T, TRUE) ELSE Step(r[n - 1], n)
        BY <2>1, <4>1
      <4> QED
        BY <4>2, <4>3
    <3> QED
      BY <3>1, <3>2
  <2>4. Upto(s, N + 1)
    BY <2>3
  <2>5. N + 1 \in Nat
    BY <2>2
  <2> HIDE DEF Upto, s
  <2> QED
    BY <2>4, <2>5
<1>3. Good = Nat
  <2>1. Good \subseteq Nat
    OBVIOUS
  <2> HIDE DEF Good
  <2> QED
    BY <1>1, <1>2, <2>1, SetInduction
<1>4. \E r : Upto(r, Len(Way[p]))
  <2> HIDE DEF Upto
  <2> QED
    BY <1>3
<1>5. bb_make_directory(T, p, mode) = (CHOOSE r : Upto(r, Len(Way[p])))[Len(Way[p])]
  BY Zenon DEF bb_make_directory
<1>6. \A r : Upto(r, Len(Way[p])) <=> WayRun(r, T, p, mode)
  BY Zenon DEF WayRun
<1> HIDE DEF Upto
<1> QED
  BY <1>4, <1>5, <1>6

\* What is under a name, and a tree: one for each path.
Value(v) == v = Absent \/ (v = Node(v.type, v.mode, v.owner, v.rdev) /\ v.type # "none")
ATree(T) == T = [p \in Paths |-> T[p]] /\ \A p \in Paths : Value(T[p])

NewDir(q, p, mode) == Node("dir", IF q = p THEN mode ELSE "777", Super, NoDev)
OnceMade(T, q, p, mode) == IF T[q] = Absent THEN NewDir(q, p, mode) ELSE T[q]

LEMMA NodeFields ==
  ASSUME NEW ty, NEW m, NEW o, NEW r
  PROVE  /\ Node(ty, m, o, r).type = ty /\ Node(ty, m, o, r).mode = m
         /\ Node(ty, m, o, r).owner = o /\ Node(ty, m, o, r).rdev = r
         /\ [Node(ty, m, o, r) EXCEPT !.owner = o] = Node(ty, m, o, r)
         /\ \A x : [Node(ty, m, o, r) EXCEPT !.mode = x] = Node(ty, x, o, r)
         /\ \A x : [Node(ty, m, o, r) EXCEPT !.owner = x] = Node(ty, m, x, r)
         /\ ty # "none" => Node(ty, m, o, r) # Absent /\ Value(Node(ty, m, o, r))
BY DEF Node, Absent, Value

LEMMA AbsentType == Absent.type = "none" /\ Value(Absent)
BY DEF Absent, Value

LEMMA ValueIs ==
  ASSUME NEW v, Value(v), v # Absent
  PROVE  v = Node(v.type, v.mode, v.owner, v.rdev) /\ v.type # "none"
BY DEF Value

AfterOne(T, q, p, mode) == [T EXCEPT ![q] = OnceMade(T, q, p, mode)]

\* One directory is made in the one above it, or was there.
LEMMA MakeOneWorks ==
  ASSUME NEW T, ATree(T), NEW q \in Paths \ {Root}, NEW p, NEW mode,
         T[q] = Absent \/ T[q].type = "dir", T[Parent[q]].type = "dir"
  PROVE  MakeOne(Done(T, TRUE), q, p, mode) = Done(AfterOne(T, q, p, mode), TRUE)
<1>1. Done(T, TRUE).tree = T /\ Done(T, TRUE).ok = TRUE
  BY DEF Done
<1>2. IsDir(T, q) <=> T[q] # Absent
  BY AbsentType DEF IsDir, Exists
<1>3. CASE T[q] # Absent
  <2>1. MakeOne(Done(T, TRUE), q, p, mode) = Done(T, TRUE)
    BY <1>1, <1>2, <1>3 DEF MakeOne
  <2>2. AfterOne(T, q, p, mode) = T
    BY <1>3 DEF OnceMade, ATree, AfterOne
  <2> QED
    BY <2>1, <2>2
<1>4. CASE T[q] = Absent
  <2> DEFINE D == Node("dir", "777", Super, NoDev)
             U == [T EXCEPT ![q] = D]
  <2>1. Parent[q] \in Paths /\ T[Parent[q]] # Absent
    BY RootIsAPath, AbsentType
  <2>2. InDir(T, q)
    BY <2>1 DEF InDir, IsDir, Exists
  <2>3. mkdir(T, q) = Done(U, TRUE)
    BY <2>2, <1>4 DEF mkdir, Exists
  <2>4. MakeOne(Done(T, TRUE), q, p, mode)
          = IF q = p THEN chmod(U, q, mode) ELSE Done(U, TRUE)
    <3>1. Done(U, TRUE).tree = U /\ Done(U, TRUE).ok = TRUE
      BY DEF Done
    <3> HIDE DEF U
    <3>2. CASE q = p
      BY <3>1, <3>2, <2>3, <1>1, <1>2, <1>4 DEF MakeOne
    <3>3. CASE q # p
      BY <3>1, <3>3, <2>3, <1>1, <1>2, <1>4 DEF MakeOne
    <3> QED
      BY <3>2, <3>3
  <2>5. T = [x \in Paths |-> T[x]]
    BY DEF ATree
  <2>6. U[q] = D /\ D # Absent
    BY <2>5, NodeFields
  <2>7. chmod(U, q, mode) = Done([U EXCEPT ![q] = [D EXCEPT !.mode = mode]], TRUE)
    BY <2>6 DEF chmod, Exists
  <2>8. [D EXCEPT !.mode = mode] = Node("dir", mode, Super, NoDev)
    BY NodeFields
  <2>9. CASE q = p
    <3>1. OnceMade(T, q, p, mode) = Node("dir", mode, Super, NoDev)
      BY <2>9, <1>4 DEF OnceMade, NewDir
    <3>2. [U EXCEPT ![q] = Node("dir", mode, Super, NoDev)] = [T EXCEPT ![q] = Node("dir", mode, Super, NoDev)]
      BY <2>5
    <3> QED
      BY <3>1, <3>2, <2>4, <2>7, <2>8, <2>9 DEF AfterOne
  <2>10. CASE q # p
    BY <2>10, <2>4, <1>4 DEF OnceMade, NewDir, AfterOne
  <2> QED
    BY <2>9, <2>10
<1> QED
  BY <1>3, <1>4

(* When what is on the way are directories or nothing, those that are not   *)
(* there are made and nothing else changes.                                 *)
Passable(T, p) ==
  /\ ATree(T) /\ T[Root].type = "dir"
  /\ \A q \in ToSet(Way[p]) : T[q] = Absent \/ T[q].type = "dir"

LEMMA MakeDirectoryMakes ==
  ASSUME NEW T, NEW p \in Paths, NEW mode, Passable(T, p)
  PROVE  bb_make_directory(T, p, mode)
           = Done([q \in Paths |-> IF q \in ToSet(Way[p]) THEN OnceMade(T, q, p, mode) ELSE T[q]], TRUE)
<1> DEFINE w == Way[p]
           n == Len(w)
           upto(k) == {w[i] : i \in 1 .. k}
           after(k) == [q \in Paths |-> IF q \in upto(k) THEN OnceMade(T, q, p, mode) ELSE T[q]]
<1>1. w \in Seq(Paths \ {Root}) /\ \A i \in 1 .. n : IF i = 1 THEN Parent[w[1]] = Root ELSE Parent[w[i]] = w[i - 1]
  <2>1. CASE p = Root
    <3>1. w = <<>> /\ n = 0
      BY <2>1, WayDownward
    <3> QED
      BY <3>1
  <2>2. CASE p # Root
    BY <2>2, WayDownward DEF Downward
  <2> QED
    BY <2>1, <2>2
<1>2. n \in Nat /\ ToSet(w) = upto(n) /\ \A i \in 1 .. n : w[i] \in Paths \ {Root}
  BY <1>1 DEF ToSet
<1>3. PICK r : WayRun(r, T, p, mode) /\ bb_make_directory(T, p, mode) = r[n]
  BY <1>2, MakeDirectoryRun
<1>4. r[0] = Done(T, TRUE) /\ \A k \in 1 .. n : r[k] = MakeOne(r[k - 1], w[k], p, mode)
  <2>1. 0 \in 0 .. n /\ \A k \in 1 .. n : k \in 0 .. n /\ k # 0
    BY <1>2
  <2>2. \A k \in 0 .. n : r[k] = IF k = 0 THEN Done(T, TRUE) ELSE With(r[k - 1], LAMBDA x : MakeOne(x, w[k], p, mode))
    BY <1>3 DEF WayRun
  <2>3. ASSUME NEW k \in 1 .. n PROVE r[k] = With(r[k - 1], LAMBDA x : MakeOne(x, w[k], p, mode))
    BY <2>1, <2>2
  <2>4. ASSUME NEW k \in 1 .. n PROVE r[k] = MakeOne(r[k - 1], w[k], p, mode)
    <3> HIDE DEF w, n
    <3>1. With(r[k - 1], LAMBDA x : MakeOne(x, w[k], p, mode)) = MakeOne(r[k - 1], w[k], p, mode)
      BY WithMakeOne
    <3> QED
      BY <2>3, <3>1
  <2>5. r[0] = Done(T, TRUE)
    BY <2>1, <2>2
  <2> QED
    BY <2>4, <2>5
<1>5. \A q \in ToSet(w) : T[q] = Absent \/ T[q].type = "dir"
  BY DEF Passable
<1>6. ATree(T) /\ T[Root].type = "dir" /\ Root \in Paths
  BY RootIsAPath DEF Passable
<1> DEFINE G == {k \in Nat : k <= n => r[k] = Done(after(k), TRUE)}
<1> HIDE DEF w, n
<1>7. 0 \in G
  <2>1. after(0) = T
    BY <1>6 DEF ATree
  <2> QED
    BY <2>1, <1>4
<1>8. ASSUME NEW k \in G PROVE k + 1 \in G
  <2>0. k \in Nat
    OBVIOUS
  <2>00. k + 1 \in Nat
    BY <2>0
  <2> SUFFICES ASSUME k + 1 <= n PROVE r[k + 1] = Done(after(k + 1), TRUE)
    BY <2>00
  <2>1. k \in Nat /\ k + 1 \in 1 .. n /\ (k + 1) - 1 = k /\ k <= n
    BY <1>2
  <2> DEFINE U == after(k)
             x == w[k + 1]
  <2>2. r[k + 1] = MakeOne(Done(U, TRUE), x, p, mode)
    BY <2>1, <1>4, <1>8
  <2>3. x \in Paths \ {Root} /\ x \in ToSet(w)
    BY <2>1, <1>2
  <2>4. \A q \in upto(k) : T[q] = Absent \/ T[q].type = "dir"
    BY <1>2, <1>5, <2>1
  <2>5. \A q \in Paths : Value(OnceMade(T, q, p, mode))
    BY <1>6, NodeFields DEF OnceMade, NewDir, ATree
  <2>6. \A q \in upto(k) : OnceMade(T, q, p, mode).type = "dir" /\ OnceMade(T, q, p, mode) # Absent
    BY <2>4, NodeFields, AbsentType DEF OnceMade, NewDir
  <2>7. ATree(U)
    BY <2>5, <1>6 DEF ATree
  <2>8. U[x] = Absent \/ U[x].type = "dir"
    BY <2>6, <1>5, <2>3
  <2>9. U[Parent[x]].type = "dir"
    <3>1. CASE k = 0
      BY <3>1, <1>1, <1>6, <2>1
    <3>2. CASE k # 0
      <4>1. Parent[x] = w[k] /\ w[k] \in upto(k) /\ w[k] \in Paths
        BY <3>2, <1>1, <1>2, <2>1
      <4> QED
        BY <4>1, <2>6
    <3> QED
      BY <3>1, <3>2
  <2>10. r[k + 1] = Done([U EXCEPT ![x] = OnceMade(U, x, p, mode)], TRUE)
    <3> HIDE DEF U, x
    <3>1. MakeOne(Done(U, TRUE), x, p, mode) = Done(AfterOne(U, x, p, mode), TRUE)
      BY <2>3, <2>7, <2>8, <2>9, MakeOneWorks
    <3> QED
      BY <2>2, <3>1 DEF AfterOne
  <2>11. upto(k + 1) = upto(k) \cup {x}
    <3>1. 1 .. k + 1 = 1 .. k \cup {k + 1}
      BY <2>1
    <3> QED
      BY <3>1
  <2>12. OnceMade(U, x, p, mode) = OnceMade(T, x, p, mode)
    BY <2>3, <2>6 DEF OnceMade
  <2>13. [U EXCEPT ![x] = OnceMade(U, x, p, mode)] = after(k + 1)
    BY <2>11, <2>12, <2>3
  <2> QED
    BY <2>10, <2>13
<1>9. G = Nat
  <2>1. G \subseteq Nat
    OBVIOUS
  <2> HIDE DEF G
  <2> QED
    BY <1>7, <1>8, <2>1, SetInduction
<1>10. r[n] = Done(after(n), TRUE)
  <2>1. n \in G /\ n <= n
    <3> HIDE DEF G
    <3> QED
      BY <1>9, <1>2
  <2> HIDE DEF after
  <2> QED
    BY <2>1
<1> QED
  BY <1>10, <1>3, <1>2 DEF w

(* -------------------- what one line does to one path -------------------- *)

(* Whatever else is in the tree, and for as long as every directory that a  *)
(* line needs is there: a directory is made with those above it, a file     *)
(* must be there, a device is always made anew.                             *)
Fresh == Node("dir", "777", Super, NoDev)
Given(v, l) == IF v = Absent THEN Absent ELSE Node(v.type, l.mode, l.owner, v.rdev)
IndexOf(l, p) == CHOOSE i \in 0 .. l.count - 1 : p = Numbered[<<l.name, l.start + i>>]
DevOf(l, p) == <<l.major, IF l.count = 0 THEN l.minor ELSE MinorOf(l, IndexOf(l, p))>>
DirEffect(l, p, v) ==
  LET w == IF p \in ToSet(Way[l.name]) /\ v = Absent THEN Fresh ELSE v
  IN  IF p = l.name THEN Given(w, l) ELSE w
FileEffect(l, p, v) == IF p = l.name /\ v.type = "file" THEN Given(v, l) ELSE v
NodeEffect(l, p, v) == IF p \in Named(l) THEN Node(l.type, l.mode, l.owner, DevOf(l, p)) ELSE v
Effect(l, p, v) ==
  IF ~IsEntry(l) THEN v
  ELSE IF l.type = "d" THEN DirEffect(l, p, v)
  ELSE IF l.type = "f" THEN FileEffect(l, p, v)
  ELSE NodeEffect(l, p, v)

GivenAt(T, l) == [q \in Paths |-> IF q = l.name THEN Given(T[q], l) ELSE T[q]]

\* A path that is there gets the owner and the mode, no other changes.
LEMMA OwnerThenModeIs ==
  ASSUME NEW T, ATree(T), NEW l, l.name \in Paths
  PROVE  OwnerThenMode(T, l).tree = GivenAt(T, l)
<1> DEFINE p == l.name
           v == T[p]
<1>1. T = [q \in Paths |-> T[q]] /\ Value(v)
  BY DEF ATree
<1>2. CASE v = Absent
  <2>1. chown(T, l.name, l.owner) = Done(T, FALSE)
    BY <1>2 DEF chown, Exists
  <2>2. OwnerThenMode(T, l).tree = T
    BY <2>1 DEF OwnerThenMode, Done
  <2>3. GivenAt(T, l) = T
    BY <1>1, <1>2 DEF GivenAt, Given
  <2> QED
    BY <2>2, <2>3
<1>3. CASE v # Absent
  <2> DEFINE U == [T EXCEPT ![p].owner = l.owner]
  <2>1. v = Node(v.type, v.mode, v.owner, v.rdev) /\ v.type # "none"
    BY <1>1, <1>3, ValueIs
  <2>2. chown(T, l.name, l.owner) = Done(U, TRUE)
    BY <1>3 DEF chown, Exists
  <2>3. OwnerThenMode(T, l) = chmod(U, p, l.mode)
    <3> HIDE DEF U
    <3> QED
      BY <2>2 DEF OwnerThenMode, Done
  <2>4. U = [T EXCEPT ![p] = [v EXCEPT !.owner = l.owner]]
    OBVIOUS
  <2>5. [v EXCEPT !.owner = l.owner] = Node(v.type, v.mode, l.owner, v.rdev)
    BY <2>1, NodeFields
  <2> HIDE DEF v
  <2>6. U[p] = Node(v.type, v.mode, l.owner, v.rdev)
    BY <2>4, <2>5, <1>1
  <2>7. U[p] # Absent
    BY <2>6, <2>1, NodeFields
  <2>8. chmod(U, p, l.mode).tree = [U EXCEPT ![p] = [U[p] EXCEPT !.mode = l.mode]]
    <3> HIDE DEF U
    <3> QED
      BY <2>7 DEF chmod, Exists, Done
  <2>9. [U[p] EXCEPT !.mode = l.mode] = Node(v.type, l.mode, l.owner, v.rdev)
    BY <2>6, NodeFields
  <2>10. chmod(U, p, l.mode).tree = [T EXCEPT ![p] = Node(v.type, l.mode, l.owner, v.rdev)]
    <3>1. [U EXCEPT ![p] = Node(v.type, l.mode, l.owner, v.rdev)] = [T EXCEPT ![p] = Node(v.type, l.mode, l.owner, v.rdev)]
      BY <2>4, <1>1
    <3> HIDE DEF U
    <3> QED
      BY <2>8, <2>9, <3>1
  <2>11. GivenAt(T, l) = [T EXCEPT ![p] = Node(v.type, l.mode, l.owner, v.rdev)]
    BY <1>1, <1>3 DEF GivenAt, Given, v
  <2> QED
    BY <2>3, <2>10, <2>11
<1> QED
  BY <1>2, <1>3

\* The entry for a directory whose way can be gone.
LEMMA DirectoryIs ==
  ASSUME NEW T, NEW l, l.name \in Paths, Passable(T, l.name)
  PROVE  Directory(T, l).tree = [q \in Paths |-> DirEffect(l, q, T[q])]
<1> DEFINE p == l.name
           U == [q \in Paths |-> IF q \in ToSet(Way[p]) THEN OnceMade(T, q, p, l.mode) ELSE T[q]]
<1>1. bb_make_directory(T, p, l.mode).tree = U
  BY MakeDirectoryMakes DEF Done
<1>2. ATree(U)
  <2>1. \A q \in Paths : Value(T[q])
    BY DEF Passable, ATree
  <2>2. \A q \in Paths : Value(OnceMade(T, q, p, l.mode))
    BY <2>1, NodeFields DEF OnceMade, NewDir
  <2> QED
    BY <2>1, <2>2 DEF ATree
<1>3. Directory(T, l).tree = GivenAt(U, l)
  BY <1>1, <1>2, OwnerThenModeIs DEF Directory
<1>4. ASSUME NEW q \in Paths PROVE (IF q = l.name THEN Given(U[q], l) ELSE U[q]) = DirEffect(l, q, T[q])
  <2>1. CASE q \in ToSet(Way[p]) /\ T[q] = Absent
    <3>1. U[q] = NewDir(q, p, l.mode)
      BY <2>1 DEF OnceMade
    <3>2. CASE q = p
      <4>1. U[q] = Node("dir", l.mode, Super, NoDev)
        BY <3>1, <3>2 DEF NewDir
      <4>2. Given(U[q], l) = Node("dir", l.mode, l.owner, NoDev) /\ Given(Fresh, l) = Node("dir", l.mode, l.owner, NoDev)
        BY <4>1, NodeFields DEF Given, Fresh
      <4> QED
        BY <3>2, <4>2, <2>1 DEF DirEffect
    <3>3. CASE q # p
      BY <3>1, <3>3, <2>1 DEF DirEffect, NewDir, Fresh
    <3> QED
      BY <3>2, <3>3
  <2>2. CASE ~(q \in ToSet(Way[p]) /\ T[q] = Absent)
    <3>1. U[q] = T[q]
      BY <2>2 DEF OnceMade
    <3> QED
      BY <3>1, <2>2 DEF DirEffect
  <2> QED
    BY <2>1, <2>2
<1> HIDE DEF U
<1> QED
  BY <1>3, <1>4 DEF GivenAt

\* The entry for a file, which changes nothing when there is none.
LEMMA RegularFileIs ==
  ASSUME NEW T, NEW l, l.name \in Paths, ATree(T)
  PROVE  RegularFile(T, l).tree = [q \in Paths |-> FileEffect(l, q, T[q])]
<1>1. CASE T[l.name].type = "file"
  <2>1. Exists(T, l.name)
    BY <1>1, AbsentType DEF Exists
  <2>2. RegularFile(T, l).tree = GivenAt(T, l)
    BY <2>1, <1>1, OwnerThenModeIs DEF RegularFile
  <2> QED
    BY <2>2, <1>1 DEF GivenAt, FileEffect
<1>2. CASE T[l.name].type # "file"
  <2>1. RegularFile(T, l).tree = T
    BY <1>2 DEF RegularFile, Done
  <2>2. T = [q \in Paths |-> T[q]]
    BY DEF ATree
  <2>3. \A q \in Paths : FileEffect(l, q, T[q]) = T[q]
    BY <1>2 DEF FileEffect
  <2> QED
    BY <2>1, <2>2, <2>3
<1> QED
  BY <1>1, <1>2

(* ------------------------------- devices -------------------------------- *)

Dev(l, minor) == Node(l.type, l.mode, l.owner, <<l.major, minor>>)
WithDev(T, p, l, minor) == [T EXCEPT ![p] = Dev(l, minor)]

\* The place of a device: nothing or a file, in a directory.
Place(T, p) == p \in Paths \ {Root} /\ T[p].type # "dir" /\ T[Parent[p]].type = "dir"

\* A device is made in its place, with the owner and mode of the line.
LEMMA OneNodeIs ==
  ASSUME NEW r, NEW T, r.tree = T, ATree(T), NEW p, Place(T, p), NEW l, l.type # "none", NEW minor
  PROVE  OneNode(r, p, l, minor).tree = WithDev(T, p, l, minor)
<1> DEFINE D == Node(l.type, l.mode, Super, <<l.major, minor>>)
           U == [T EXCEPT ![p] = D]
           E == Node(l.type, l.mode, l.owner, <<l.major, minor>>)
           V == [T EXCEPT ![p] = E]
<1>1. T = [q \in Paths |-> T[q]] /\ p \in Paths \ {Root} /\ Parent[p] \in Paths
  BY RootIsAPath DEF ATree, Place
<1>2. ~IsDir(T, p) /\ InDir(T, p)
  BY <1>1, AbsentType DEF IsDir, InDir, Exists, Place
<1>3. mknod(T, p, l.type, l.mode, <<l.major, minor>>) = Done(U, TRUE)
  BY <1>2 DEF mknod
<1>4. U[p] = D /\ D # Absent /\ E # Absent
  BY <1>1, NodeFields
<1>5. chown(U, p, l.owner) = Done(V, TRUE)
  <2>1. chown(U, p, l.owner) = Done([U EXCEPT ![p] = [D EXCEPT !.owner = l.owner]], TRUE)
    <3>1. [U EXCEPT ![p].owner = l.owner] = [U EXCEPT ![p] = [U[p] EXCEPT !.owner = l.owner]]
      BY <1>1
    <3> HIDE DEF U
    <3> QED
      BY <1>4, <3>1 DEF chown, Exists
  <2>2. [D EXCEPT !.owner = l.owner] = E
    BY NodeFields
  <2>3. [U EXCEPT ![p] = E] = V
    BY <1>1
  <2> QED
    BY <2>1, <2>2, <2>3
<1>6. chmod(V, p, l.mode) = Done(V, TRUE)
  <2>1. V[p] = E
    BY <1>1
  <2>2. chmod(V, p, l.mode) = Done([V EXCEPT ![p] = [E EXCEPT !.mode = l.mode]], TRUE)
    <3>1. [V EXCEPT ![p].mode = l.mode] = [V EXCEPT ![p] = [V[p] EXCEPT !.mode = l.mode]]
      BY <1>1
    <3> HIDE DEF V
    <3> QED
      BY <2>1, <1>4, <3>1 DEF chmod, Exists
  <2>3. [E EXCEPT !.mode = l.mode] = E
    BY NodeFields
  <2>4. [V EXCEPT ![p] = E] = V
    BY <1>1
  <2> QED
    BY <2>2, <2>3, <2>4
<1>7. Finished(Done(U, TRUE), p, l).tree = V
  <2> HIDE DEF U, V
  <2> QED
    BY <1>5, <1>6 DEF Finished, Done
<1>8. OneNode(r, p, l, minor).tree = V
  <2> HIDE DEF U, V
  <2> QED
    BY <1>3, <1>7 DEF OneNode, Done
<1> QED
  BY <1>8 DEF WithDev, Dev

\* What Nodes computes, one device after the other.
NodeRun(r, T, l) ==
  r = [n \in 0 .. l.count |->
         IF n = 0 THEN Done(T, TRUE)
         ELSE With(r[n - 1], LAMBDA x : OneNode(x, Numbered[<<l.name, l.start + n - 1>>], l, MinorOf(l, n - 1)))]

LEMMA WithOneNode ==
  ASSUME NEW r, NEW q, NEW l, NEW minor
  PROVE  With(r, LAMBDA x : OneNode(x, q, l, minor)) = OneNode(r, q, l, minor)
<1>1. {OneNode(x, q, l, minor) : x \in {r}} = {OneNode(r, q, l, minor)}
  OBVIOUS
<1> QED
  BY <1>1, OneElement DEF With

\* The recursion of Nodes is defined.
LEMMA NodesRun ==
  ASSUME NEW T, NEW l, l.count \in Nat \ {0}
  PROVE  \E r : NodeRun(r, T, l) /\ Nodes(T, l) = r[l.count]
<1> DEFINE Step(x, n) == With(x, LAMBDA y : OneNode(y, Numbered[<<l.name, l.start + n - 1>>], l, MinorOf(l, n - 1)))
           Upto(r, N) == r = [n \in 0 .. N |-> IF n = 0 THEN Done(T, TRUE) ELSE Step(r[n - 1], n)]
           Good == {N \in Nat : \E r : Upto(r, N)}
<1>1. 0 \in Good
  <2> HIDE DEF Step
  <2>1. Upto([n \in 0 .. 0 |-> Done(T, TRUE)], 0)
    OBVIOUS
  <2> QED
    BY <2>1
<1>2. ASSUME NEW N \in Good PROVE N + 1 \in Good
  <2> HIDE DEF Step
  <2>1. PICK r : Upto(r, N)
    BY <1>2
  <2> DEFINE s == [n \in 0 .. N + 1 |-> IF n = N + 1 THEN Step(r[N], N + 1) ELSE r[n]]
  <2>2. N \in Nat
    BY <1>2
  <2>3. ASSUME NEW n \in 0 .. N + 1
        PROVE  s[n] = IF n = 0 THEN Done(T, TRUE) ELSE Step(s[n - 1], n)
    <3>1. CASE n = N + 1
      <4>1. n # 0 /\ n - 1 = N /\ N \in 0 .. N + 1 /\ N # N + 1
        BY <3>1, <2>2
      <4>2. s[n] = Step(r[N], N + 1) /\ s[N] = r[N]
        BY <3>1, <4>1
      <4> QED
        BY <4>1, <4>2, <3>1
    <3>2. CASE n # N + 1
      <4>1. n \in 0 .. N /\ (n # 0 => n - 1 \in 0 .. N + 1 /\ n - 1 # N + 1)
        BY <3>2, <2>2
      <4>2. s[n] = r[n] /\ (n # 0 => s[n - 1] = r[n - 1])
        BY <3>2, <4>1
      <4>3. r[n] = IF n = 0 THEN Done(T, TRUE) ELSE Step(r[n - 1], n)
        BY <2>1, <4>1
      <4> QED
        BY <4>2, <4>3
    <3> QED
      BY <3>1, <3>2
  <2>4. Upto(s, N + 1)
    BY <2>3
  <2>5. N + 1 \in Nat
    BY <2>2
  <2> HIDE DEF Upto, s
  <2> QED
    BY <2>4, <2>5
<1>3. Good = Nat
  <2>1. Good \subseteq Nat
    OBVIOUS
  <2> HIDE DEF Good
  <2> QED
    BY <1>1, <1>2, <2>1, SetInduction
<1>4. \E r : Upto(r, l.count)
  <2> HIDE DEF Upto
  <2> QED
    BY <1>3
<1>5. l.count # 0
  OBVIOUS
<1>6. Nodes(T, l) = (CHOOSE r : Upto(r, l.count))[l.count]
  BY <1>5, Zenon DEF Nodes
<1>7. \A r : Upto(r, l.count) <=> NodeRun(r, T, l)
  BY Zenon DEF NodeRun
<1> HIDE DEF Upto
<1> QED
  BY <1>4, <1>6, <1>7

\* An entry for devices makes all of them, whatever files were there.
LEMMA NodesAre ==
  ASSUME NEW T, ATree(T), NEW l, OrdinaryEntry(l), l.type # "none", \A p \in Named(l) : Place(T, p)
  PROVE  Nodes(T, l).tree = [q \in Paths |-> NodeEffect(l, q, T[q])]
<1>1. T = [q \in Paths |-> T[q]]
  BY DEF ATree
<1>2. CASE l.count = 0
  <2>1. Nodes(T, l).tree = WithDev(T, l.name, l, l.minor)
    <3> DEFINE r == Done(T, TRUE)
               p == l.name
               minor == l.minor
    <3>1. r.tree = T
      BY DEF Done
    <3>2. Place(T, p)
      BY <1>2 DEF Named
    <3> HIDE DEF r, p, minor
    <3>3. OneNode(r, p, l, minor).tree = WithDev(T, p, l, minor)
      BY <3>1, <3>2, OneNodeIs
    <3> QED
      BY <3>3, <1>2 DEF Nodes, r, p, minor
  <2>2. ASSUME NEW q \in Paths PROVE WithDev(T, l.name, l, l.minor)[q] = NodeEffect(l, q, T[q])
    BY <1>1, <1>2 DEF WithDev, NodeEffect, Named, Dev, DevOf
  <2>3. WithDev(T, l.name, l, l.minor) = [q \in Paths |-> WithDev(T, l.name, l, l.minor)[q]]
    BY <1>1 DEF WithDev
  <2> QED
    BY <2>1, <2>2, <2>3
<1>3. CASE l.count # 0
  <2> DEFINE c == l.count
             name(i) == Numbered[<<l.name, l.start + i>>]
             upto(k) == {name(i) : i \in 0 .. k - 1}
             after(k) == [q \in Paths |-> IF q \in upto(k) THEN Dev(l, MinorOf(l, IndexOf(l, q))) ELSE T[q]]
  <2>1. c \in Nat \ {0} /\ l.start \in Nat
    BY <1>3 DEF OrdinaryEntry
  <2>2. Named(l) = upto(c)
    BY <1>3 DEF Named
  <2>3. \A i \in 0 .. c - 1 : name(i) \in Named(l) /\ IndexOf(l, name(i)) = i
    <3> SUFFICES ASSUME NEW i \in 0 .. c - 1 PROVE name(i) \in Named(l) /\ IndexOf(l, name(i)) = i
      OBVIOUS
    <3>1. \A j \in 0 .. c - 1 : name(i) = name(j) => i = j
      BY DEF OrdinaryEntry
    <3>2. name(i) \in Named(l)
      BY <2>2
    <3>3. IndexOf(l, name(i)) \in 0 .. c - 1 /\ name(i) = name(IndexOf(l, name(i)))
      BY DEF IndexOf
    <3> QED
      BY <3>1, <3>2, <3>3
  <2>4. PICK r : NodeRun(r, T, l) /\ Nodes(T, l) = r[c]
    BY <2>1, NodesRun
  <2>5. r[0] = Done(T, TRUE)
    <3>1. 0 \in 0 .. c
      BY <2>1
    <3> QED
      BY <3>1, <2>4 DEF NodeRun
  <2>6. ASSUME NEW k \in 0 .. c - 1 PROVE r[k + 1] = OneNode(r[k], name(k), l, MinorOf(l, k))
    <3>1. k + 1 \in 0 .. c /\ k + 1 # 0 /\ (k + 1) - 1 = k /\ l.start + (k + 1) - 1 = l.start + k
      BY <2>1
    <3>2. \A n \in 0 .. c : n # 0 =>
            r[n] = With(r[n - 1], LAMBDA x : OneNode(x, Numbered[<<l.name, l.start + n - 1>>], l, MinorOf(l, n - 1)))
      BY <2>4 DEF NodeRun
    <3>3. r[k + 1] = With(r[(k + 1) - 1], LAMBDA x : OneNode(x, Numbered[<<l.name, l.start + (k + 1) - 1>>], l, MinorOf(l, (k + 1) - 1)))
      BY <3>1, <3>2
    <3>4. With(r[(k + 1) - 1], LAMBDA x : OneNode(x, Numbered[<<l.name, l.start + (k + 1) - 1>>], l, MinorOf(l, (k + 1) - 1)))
            = OneNode(r[(k + 1) - 1], Numbered[<<l.name, l.start + (k + 1) - 1>>], l, MinorOf(l, (k + 1) - 1))
      BY WithOneNode
    <3> QED
      BY <3>1, <3>3, <3>4
  <2>7. \A q \in upto(c) : Place(T, q)
    BY <2>2
  <2> DEFINE G == {k \in Nat : k <= c => r[k].tree = after(k)}
  <2> HIDE DEF c
  <2>8. 0 \in G
    <3>1. after(0) = T
      BY <1>1
    <3>2. r[0].tree = T
      BY <2>5 DEF Done
    <3> QED
      BY <3>1, <3>2
  <2>9. ASSUME NEW k \in G PROVE k + 1 \in G
    <3>1. k \in Nat /\ k + 1 \in Nat
      OBVIOUS
    <3> SUFFICES ASSUME k + 1 <= c PROVE r[k + 1].tree = after(k + 1)
      BY <3>1
    <3> DEFINE U == after(k)
               x == name(k)
    <3>2. k \in 0 .. c - 1 /\ r[k].tree = U
      BY <3>1, <2>1, <2>9
    <3>3. x \in upto(c) /\ IndexOf(l, x) = k /\ x \in Paths \ {Root} /\ Parent[x] \in Paths
      BY <3>2, <2>3, <2>2, <2>7, RootIsAPath DEF Place
    <3>4. ATree(U)
      <4>1. \A q \in Paths : Value(T[q]) /\ Value(Dev(l, MinorOf(l, IndexOf(l, q))))
        BY NodeFields DEF ATree, Dev
      <4> QED
        BY <4>1 DEF ATree
    <3>5. x \notin upto(k)
      <4>1. \A i \in 0 .. k - 1 : i \in 0 .. c - 1 /\ i # k
        BY <3>2, <2>1
      <4>2. \A i \in 0 .. k - 1 : name(i) # name(k)
        BY <4>1, <3>2, <2>3
      <4> QED
        BY <4>2
    <3>6. Parent[x] \notin upto(k)
      <4>1. upto(k) \subseteq upto(c)
        BY <3>2, <2>1
      <4>2. \A q \in upto(k) : T[q].type # "dir"
        BY <4>1, <2>7 DEF Place
      <4> HIDE DEF upto, x
      <4> QED
        BY <4>2, <3>3, <2>7 DEF Place
    <3>7. Place(U, x)
      BY <3>3, <3>5, <3>6, <2>7 DEF Place
    <3>8. r[k + 1].tree = WithDev(U, x, l, MinorOf(l, k))
      <4> HIDE DEF U, x
      <4>1. OneNode(r[k], x, l, MinorOf(l, k)).tree = WithDev(U, x, l, MinorOf(l, k))
        BY <3>2, <3>4, <3>7, OneNodeIs
      <4> QED
        BY <4>1, <3>2, <2>6 DEF x
    <3>9. upto(k + 1) = upto(k) \cup {x}
      <4>1. 0 .. (k + 1) - 1 = 0 .. k - 1 \cup {k}
        BY <3>2
      <4> QED
        BY <4>1
    <3>10. WithDev(U, x, l, MinorOf(l, k)) = after(k + 1)
      <4> HIDE DEF name, upto
      <4> QED
        BY <3>3, <3>9 DEF WithDev
    <3> QED
      BY <3>8, <3>10
  <2>10. G = Nat
    <3>1. G \subseteq Nat
      OBVIOUS
    <3> HIDE DEF G
    <3> QED
      BY <2>8, <2>9, <3>1, SetInduction
  <2>11. r[c].tree = after(c)
    <3>1. c \in G /\ c <= c
      <4> HIDE DEF G
      <4> QED
        BY <2>10, <2>1
    <3> HIDE DEF after
    <3> QED
      BY <3>1
  <2>12. \A q \in Paths : after(c)[q] = NodeEffect(l, q, T[q])
    BY <2>2, <1>3 DEF NodeEffect, Dev, DevOf
  <2> HIDE DEF upto
  <2> QED
    BY <2>4, <2>11, <2>12
<1> QED
  BY <1>2, <1>3

(* ------------------------- the lines of a table ------------------------- *)

\* The table makedevs reads is a sequence.
LEMMA FullTableIsList ==
  ASSUME NEW t \in Tables
  PROVE  \E X : FullTable(t) \in Seq(X)
<1> DEFINE X == ToSet(t.rootfs) \cup ToSet(t.devices) \cup ToSet(t.permissions)
<1>1. ASSUME NEW s \in {t.rootfs, t.devices, t.permissions} PROVE s \in Seq(X)
  <2>1. s \in Seq(ToSet(s))
    BY TablesAreLists
  <2>2. ToSet(s) \subseteq X
    OBVIOUS
  <2> HIDE DEF X
  <2> QED
    BY <2>1, <2>2
<1>2. t.rootfs \in Seq(X) /\ t.devices \in Seq(X) /\ t.permissions \in Seq(X)
  BY <1>1
<1> HIDE DEF X
<1>3. (IF t.static THEN t.devices ELSE <<>>) \in Seq(X)
  BY <1>2
<1>4. FullTable(t) \in Seq(X)
  BY <1>2, <1>3 DEF FullTable
<1> QED
  BY <1>4

(* The lines that makedevs comes to are those of the table before the first *)
(* that ends it.                                                            *)
LEMMA LinesAre ==
  ASSUME NEW t \in Tables
  PROVE  /\ Len(FullTable(t)) \in Nat /\ Len(Lines[t]) \in Nat
         /\ DOMAIN Lines[t] = 1 .. Len(Lines[t])
         /\ t.rootfs = <<>> => Lines[t] = <<>>
         /\ t.rootfs # <<>> =>
              /\ Len(Lines[t]) <= Len(FullTable(t))
              /\ Len(Lines[t]) < Len(FullTable(t)) => Dies(FullTable(t)[Len(Lines[t]) + 1])
         /\ \A i \in 1 .. Len(Lines[t]) : ~Dies(Lines[t][i]) /\ Lines[t][i] = FullTable(t)[i]
<1> DEFINE full == FullTable(t)
           n == Len(full)
           I == {i \in 1 .. n : Dies(full[i])}
           d == SelectInSeq(full, Dies)
<1>1. PICK X : full \in Seq(X)
  BY FullTableIsList
<1>2. n \in Nat /\ DOMAIN full = 1 .. n
  BY <1>1
<1>3. Lines[t] = IF t.rootfs = <<>> THEN <<>> ELSE UpTo(full, d)
  BY Zenon DEF Lines
<1>4. d = IF I # {} THEN Min(I) ELSE 0
  BY Zenon DEF SelectInSeq
<1> HIDE DEF d
<1>5. CASE t.rootfs = <<>>
  <2>1. Lines[t] = <<>> /\ Len(Lines[t]) = 0 /\ DOMAIN Lines[t] = 1 .. 0
    BY <1>3, <1>5
  <2> QED
    BY <2>1, <1>2, <1>5
<1>6. CASE t.rootfs # <<>> /\ I = {}
  <2>1. Lines[t] = full
    BY <1>3, <1>4, <1>6 DEF UpTo
  <2>2. \A i \in 1 .. n : ~Dies(full[i])
    BY <1>6
  <2> QED
    BY <2>1, <2>2, <1>2, <1>6
<1>7. CASE t.rootfs # <<>> /\ I # {}
  <2>1. d \in I /\ \A i \in I : d <= i
    <3>1. I \subseteq Nat
      BY <1>2
    <3> HIDE DEF I
    <3> QED
      BY <3>1, <1>4, <1>7, MinOfBounded
  <2>2. d \in 1 .. n /\ Dies(full[d])
    BY <2>1
  <2>3. Lines[t] = SubSeq(full, 1, d - 1)
    BY <2>2, <1>3, <1>7 DEF UpTo
  <2> HIDE DEF full
  <2>4. Len(Lines[t]) = d - 1 /\ DOMAIN Lines[t] = 1 .. d - 1 /\ \A i \in 1 .. d - 1 : Lines[t][i] = full[i]
    BY <2>2, <2>3, <1>1, <1>2
  <2>5. \A i \in 1 .. d - 1 : ~Dies(full[i])
    BY <2>1, <2>2
  <2>6. d - 1 \in Nat /\ d - 1 <= n /\ (d - 1) + 1 = d
    BY <2>2, <1>2
  <2> HIDE DEF n, I
  <2> QED
    BY <2>2, <2>4, <2>5, <2>6, <1>2, <1>7 DEF full, n
<1> QED
  BY <1>5, <1>6, <1>7

(* ------------------------ what the paths may be ------------------------- *)

Home == Owned(Installed)
DirNames(t) == {Lines[t][i].name : i \in EntriesOf(t, {"d"})}
May(t, p, v) ==
  IF p \in NodePaths(t) THEN v.type # "dir"
  ELSE IF p \in DirNames(t)
       THEN (v = Absent /\ Installed[p] = Absent) \/ (v.type = "dir" /\ v.rdev = NoDev)
  ELSE IF p \in WayPaths(t) /\ Installed[p] = Absent THEN v \in {Absent, Fresh}
  ELSE IF p \in FileNames(t) /\ Installed[p] # Absent THEN v.type = "file" /\ v.rdev = NoDev
  ELSE v = Home[p] \/ (p = Init0 /\ Installed[p] = Absent)
Kept(t, T) == ATree(T) /\ \A p \in Paths : May(t, p, T[p])

\* The target directory as it is when it belongs to root.
LEMMA HomeIs ==
  ASSUME NEW p \in Paths
  PROVE  /\ Installed[p] = Absent => Home[p] = Absent
         /\ Installed[p] # Absent =>
              /\ Home[p] = Node(Installed[p].type, Installed[p].mode, Super, NoDev)
              /\ Installed[p].type \in {"dir", "file"}
<1>1. Installed[p] = IF Installed[p] = Absent THEN Absent
        ELSE Node(IF Installed[p].type = "dir" THEN "dir" ELSE "file", Installed[p].mode, <<"user", "user">>, NoDev)
  BY TargetDirectory DEF Forgotten
<1>2. Home[p] = IF Installed[p] = Absent THEN Absent ELSE [Installed[p] EXCEPT !.owner = Super]
  BY DEF Home, Owned
<1>3. CASE Installed[p] = Absent
  BY <1>2, <1>3
<1>4. CASE Installed[p] # Absent
  <2> DEFINE ty == IF Installed[p].type = "dir" THEN "dir" ELSE "file"
             m == Installed[p].mode
             u == <<"user", "user">>
  <2>1. Installed[p] = Node(ty, m, u, NoDev)
    BY <1>1, <1>4
  <2>2. [Node(ty, m, u, NoDev) EXCEPT !.owner = Super] = Node(ty, m, Super, NoDev)
    BY NodeFields
  <2>3. Node(ty, m, u, NoDev).type = ty
    BY NodeFields
  <2>4. Home[p] = Node(ty, m, Super, NoDev)
    <3> HIDE DEF ty, m, u
    <3> QED
      BY <1>2, <1>4, <2>1, <2>2
  <2>5. ty = Installed[p].type /\ ty \in {"dir", "file"}
    <3> HIDE DEF m, u
    <3> QED
      BY <2>1, <2>3
  <2> HIDE DEF ty, m
  <2> QED
    BY <2>4, <2>5, <1>4 DEF m
<1> QED
  BY <1>3, <1>4

\* The way to a path has paths below the root.
LEMMA RootNotOnTheWay ==
  ASSUME NEW p \in Paths, NEW q \in ToSet(Way[p])
  PROVE  q \in Paths \ {Root}
<1>1. CASE p = Root
  <2>1. Way[p] = <<>>
    BY <1>1, WayDownward
  <2> QED
    BY <2>1 DEF ToSet
<1>2. CASE p # Root
  <2>1. Way[p] \in Seq(Paths \ {Root})
    BY <1>2, WayDownward DEF Downward
  <2> QED
    BY <2>1 DEF ToSet
<1> QED
  BY <1>1, <1>2

\* A path of one kind of entries, or of none, and what it may be.
LEMMA EntryOf ==
  ASSUME NEW t \in Tables, Orderly(t), NEW i \in 1 .. Len(Lines[t]), IsEntry(Lines[t][i])
  PROVE  LET l == Lines[t][i]
         IN  /\ OrdinaryEntry(l)
             /\ l.type \in {"d", "f"} => l.count = 0 /\ l.name \in Paths /\ Named(l) = {l.name}
             /\ l.type = "d" => i \in EntriesOf(t, {"d"}) /\ l.name \in DirNames(t) /\ ToSet(Way[l.name]) \subseteq WayPaths(t)
             /\ l.type = "f" => l.name \in FileNames(t)
             /\ l.type \notin {"d", "f"} =>
                  l.type \in {"p", "c", "b"} /\ i \in EntriesOf(t, {"p", "c", "b"}) /\ Named(l) \subseteq NodePaths(t)
<1> DEFINE l == Lines[t][i]
<1>1. i \in DOMAIN Lines[t]
  BY LinesAre
<1>2. OrdinaryEntry(l)
  BY <1>1 DEF Orderly
<1>3. l.type \in {"d", "f"} => l.count = 0 /\ Named(l) = {l.name} /\ l.name \in Paths
  BY <1>2 DEF OrdinaryEntry, Named
<1>4. \A types : l.type \in types => i \in EntriesOf(t, types)
  BY <1>1 DEF EntriesOf
<1>5. l.type = "d" => i \in EntriesOf(t, {"d"}) /\ l.name \in DirNames(t) /\ ToSet(Way[l.name]) \subseteq WayPaths(t)
  <2> SUFFICES ASSUME l.type = "d"
               PROVE  i \in EntriesOf(t, {"d"}) /\ l.name \in DirNames(t) /\ ToSet(Way[l.name]) \subseteq WayPaths(t)
    OBVIOUS
  <2>1. i \in EntriesOf(t, {"d"})
    BY <1>4
  <2>2. l.name \in DirNames(t)
    BY <2>1 DEF DirNames
  <2>3. ToSet(Way[l.name]) \subseteq WayPaths(t)
    BY <2>1 DEF WayPaths, WaysOf
  <2> QED
    BY <2>1, <2>2, <2>3
<1>6. l.type = "f" => l.name \in FileNames(t)
  BY <1>4 DEF FileNames
<1>7. l.type \notin {"d", "f"} =>
        l.type \in {"p", "c", "b"} /\ i \in EntriesOf(t, {"p", "c", "b"}) /\ Named(l) \subseteq NodePaths(t)
  <2> SUFFICES ASSUME l.type \notin {"d", "f"}
               PROVE  l.type \in {"p", "c", "b"} /\ i \in EntriesOf(t, {"p", "c", "b"}) /\ Named(l) \subseteq NodePaths(t)
    OBVIOUS
  <2>1. l.type \in {"p", "c", "b"}
    BY <1>2 DEF OrdinaryEntry
  <2>2. i \in EntriesOf(t, {"p", "c", "b"})
    BY <2>1, <1>4
  <2>3. Named(l) \subseteq NodePaths(t)
    BY <2>2 DEF NodePaths
  <2> QED
    BY <2>1, <2>2, <2>3
<1> HIDE DEF l
<1> QED
  BY <1>2, <1>3, <1>5, <1>6, <1>7 DEF l

(* ------------------------- the effect of a line ------------------------- *)

\* What an orderly table and the packages say of a path agree.
LEMMA NotTwoKinds ==
  ASSUME NEW t \in Tables, Orderly(t), NEW p
  PROVE  /\ p \in WayPaths(t) =>
              /\ p \notin NodePaths(t) \cup FileNames(t) \cup {Root, Init0} /\ p \in Paths
              /\ Installed[p] = Absent \/ IsDir(Installed, p)
         /\ p \in DirNames(t) =>
              /\ p \notin NodePaths(t) \cup FileNames(t) \cup {Init0} /\ p \in Paths
              /\ p = Root \/ (p \in WayPaths(t) /\ p \in ToSet(Way[p]))
         /\ p \in NodePaths(t) \cup FileNames(t) => ~IsDir(Installed, p) /\ p # Init0
<1>1. OneKindEach(t)
  BY DEF Orderly
<1>2. ASSUME p \in WayPaths(t) PROVE p \in Paths \ {Root}
  <2>1. PICK i \in EntriesOf(t, {"d"}) : p \in ToSet(Way[Lines[t][i].name])
    BY <1>2 DEF WayPaths, WaysOf
  <2>2. i \in 1 .. Len(Lines[t]) /\ IsEntry(Lines[t][i]) /\ Lines[t][i].type = "d"
    BY <2>1, LinesAre DEF EntriesOf
  <2>3. Lines[t][i].name \in Paths
    BY <2>2, EntryOf
  <2> QED
    BY <2>1, <2>3, RootNotOnTheWay
<1>3. ASSUME p \in DirNames(t) PROVE p \in Paths /\ (p = Root \/ (p \in WayPaths(t) /\ p \in ToSet(Way[p])))
  <2>1. PICK i \in EntriesOf(t, {"d"}) : p = Lines[t][i].name
    BY <1>3 DEF DirNames
  <2>2. i \in 1 .. Len(Lines[t]) /\ IsEntry(Lines[t][i]) /\ Lines[t][i].type = "d"
    BY <2>1, LinesAre DEF EntriesOf
  <2>3. p \in Paths /\ ToSet(Way[p]) \subseteq WayPaths(t)
    BY <2>1, <2>2, EntryOf
  <2>4. p # Root => p \in ToSet(Way[p])
    <3> SUFFICES ASSUME p # Root PROVE p \in ToSet(Way[p])
      OBVIOUS
    <3>1. Way[p] \in Seq(Paths \ {Root}) /\ Len(Way[p]) > 0 /\ Way[p][Len(Way[p])] = p
      BY <2>3, WayDownward DEF Downward
    <3>2. Len(Way[p]) \in DOMAIN Way[p]
      BY <3>1
    <3> QED
      BY <3>1, <3>2 DEF ToSet
  <2> QED
    BY <2>3, <2>4
<1>4. p \in WayPaths(t) =>
              /\ p \notin NodePaths(t) \cup FileNames(t) \cup {Root, Init0} /\ p \in Paths
              /\ Installed[p] = Absent \/ IsDir(Installed, p)
  BY <1>1, <1>2 DEF OneKindEach
<1>5. p \in NodePaths(t) \cup FileNames(t) => ~IsDir(Installed, p) /\ p \notin {Root, Init0}
  BY <1>1 DEF OneKindEach
<1>6. p \in DirNames(t) => p \notin NodePaths(t) \cup FileNames(t) \cup {Init0}
  BY <1>3, <1>4, <1>5, InitPath
<1> QED
  BY <1>3, <1>4, <1>5, <1>6

\* What a path may be, by the kind of the entries that name it.
LEMMA MayIs ==
  ASSUME NEW t \in Tables, Orderly(t), NEW p \in Paths, NEW v, May(t, p, v)
  PROVE  /\ p \in NodePaths(t) => v.type # "dir"
         /\ p \in DirNames(t) => (v = Absent /\ Installed[p] = Absent) \/ (v.type = "dir" /\ v.rdev = NoDev)
         /\ p \in WayPaths(t) => v = Absent \/ v.type = "dir"
         /\ IsDir(Installed, p) => v.type = "dir"
         /\ p \in WayPaths(t) /\ p \notin DirNames(t) =>
              IF Installed[p] = Absent THEN v \in {Absent, Fresh} ELSE v = Home[p] /\ v # Absent
         /\ p \in FileNames(t) => IF Installed[p] = Absent THEN v = Absent ELSE v.type = "file" /\ v.rdev = NoDev
<1>1. /\ p \in WayPaths(t) =>
              /\ p \notin NodePaths(t) \cup FileNames(t) \cup {Root, Init0}
              /\ Installed[p] = Absent \/ IsDir(Installed, p)
      /\ p \in DirNames(t) => p \notin NodePaths(t) \cup FileNames(t)
      /\ p \in NodePaths(t) \cup FileNames(t) => ~IsDir(Installed, p) /\ p # Init0
      /\ p \in NodePaths(t) \cap FileNames(t) => FALSE
  BY NotTwoKinds DEF Orderly, OneKindEach
<1>2. /\ Installed[p] = Absent => Home[p] = Absent
      /\ Installed[p] # Absent => Home[p].type = Installed[p].type /\ Installed[p].type \in {"dir", "file"} /\ Home[p] # Absent
  <2>1. Installed[p] # Absent =>
          Home[p] = Node(Installed[p].type, Installed[p].mode, Super, NoDev) /\ Installed[p].type \in {"dir", "file"}
    BY HomeIs
  <2>2. Installed[p] # Absent => Home[p].type = Installed[p].type /\ Home[p] # Absent
    BY <2>1, NodeFields
  <2> QED
    BY <2>1, <2>2, HomeIs
<1>3. Fresh.type = "dir"
  BY NodeFields DEF Fresh
<1>4. IsDir(Installed, p) <=> Installed[p] # Absent /\ Installed[p].type = "dir"
  BY DEF IsDir, Exists
<1>5. CASE p \in NodePaths(t)
  BY <1>1, <1>5 DEF May
<1>6. CASE p \in DirNames(t)
  BY <1>1, <1>4, <1>6 DEF May
<1>7. CASE p \in WayPaths(t) /\ p \notin DirNames(t)
  BY <1>1, <1>2, <1>3, <1>4, <1>7 DEF May
<1>8. CASE p \in FileNames(t)
  BY <1>1, <1>2, <1>4, <1>8 DEF May
<1>9. CASE p \notin NodePaths(t) \cup DirNames(t) \cup WayPaths(t) \cup FileNames(t)
  BY <1>2, <1>4, <1>9 DEF May
<1> QED
  BY <1>5, <1>6, <1>7, <1>8, <1>9

\* After line i, what p is no longer depends on what it was.
Settles(t, i, p) ==
  LET l == Lines[t][i]
  IN  IsEntry(l) /\ (p \in Named(l) \/ (l.type = "d" /\ p \in ToSet(Way[l.name]) /\ p \notin DirNames(t)))

\* What an entry for a directory makes of it and of those above it.
LEMMA DirEffectIs ==
  ASSUME NEW t \in Tables, Orderly(t), NEW i \in 1 .. Len(Lines[t]), IsEntry(Lines[t][i]), Lines[t][i].type = "d",
         NEW p \in Paths, NEW v, Value(v), May(t, p, v)
  PROVE  LET l == Lines[t][i]
         IN  /\ p = l.name => Effect(l, p, v) = Node("dir", l.mode, l.owner, NoDev)
             /\ p # l.name /\ p \in ToSet(Way[l.name]) =>
                  /\ Effect(l, p, v) = IF v = Absent THEN Fresh ELSE v
                  /\ v = Absent \/ v.type = "dir"
             /\ p # l.name /\ p \notin ToSet(Way[l.name]) => Effect(l, p, v) = v
<1> DEFINE l == Lines[t][i]
<1>1. l.name \in DirNames(t) /\ ToSet(Way[l.name]) \subseteq WayPaths(t)
  BY EntryOf
<1>2. Effect(l, p, v) = DirEffect(l, p, v)
  BY DEF Effect
<1>3. ASSUME p = l.name PROVE Effect(l, p, v) = Node("dir", l.mode, l.owner, NoDev)
  <2> DEFINE w == IF p \in ToSet(Way[l.name]) /\ v = Absent THEN Fresh ELSE v
  <2>1. DirEffect(l, p, v) = Given(w, l)
    BY <1>3 DEF DirEffect
  <2>2. v = Absent \/ (v.type = "dir" /\ v.rdev = NoDev)
    BY <1>1, <1>3, MayIs
  <2>3. v = Absent => p \in ToSet(Way[l.name])
    <3> SUFFICES ASSUME v = Absent PROVE p \in ToSet(Way[l.name])
      OBVIOUS
    <3>1. p # Root
      BY MayIs, TargetDirectory, AbsentType
    <3> QED
      BY <3>1, <1>1, <1>3, NotTwoKinds
  <2>4. w # Absent /\ w.type = "dir" /\ w.rdev = NoDev
    <3>1. Fresh # Absent /\ Fresh.type = "dir" /\ Fresh.rdev = NoDev
      BY NodeFields DEF Fresh
    <3> QED
      BY <2>2, <2>3, <3>1
  <2> HIDE DEF w
  <2>5. Given(w, l) = Node("dir", l.mode, l.owner, NoDev)
    BY <2>4 DEF Given
  <2> QED
    BY <2>1, <2>5, <1>2
<1>4. ASSUME p # l.name, p \in ToSet(Way[l.name])
      PROVE  Effect(l, p, v) = (IF v = Absent THEN Fresh ELSE v) /\ (v = Absent \/ v.type = "dir")
  <2>1. v = Absent \/ v.type = "dir"
    BY <1>1, <1>4, MayIs
  <2> QED
    BY <2>1, <1>2, <1>4 DEF DirEffect
<1>5. ASSUME p # l.name, p \notin ToSet(Way[l.name]) PROVE Effect(l, p, v) = v
  BY <1>2, <1>5 DEF DirEffect
<1> QED
  BY <1>3, <1>4, <1>5

\* What an entry for a file makes of it.
LEMMA FileEffectIs ==
  ASSUME NEW t \in Tables, Orderly(t), NEW i \in 1 .. Len(Lines[t]), IsEntry(Lines[t][i]), Lines[t][i].type = "f",
         NEW p \in Paths, NEW v, Value(v), May(t, p, v)
  PROVE  LET l == Lines[t][i]
         IN  /\ p = l.name =>
                  Effect(l, p, v) = IF Installed[p] = Absent THEN Absent ELSE Node("file", l.mode, l.owner, NoDev)
             /\ p # l.name => Effect(l, p, v) = v
<1> DEFINE l == Lines[t][i]
<1>1. Effect(l, p, v) = FileEffect(l, p, v)
  BY DEF Effect
<1>2. ASSUME p = l.name
      PROVE  Effect(l, p, v) = IF Installed[p] = Absent THEN Absent ELSE Node("file", l.mode, l.owner, NoDev)
  <2>1. p \in FileNames(t)
    BY <1>2, EntryOf
  <2>2. IF Installed[p] = Absent THEN v = Absent ELSE v.type = "file" /\ v.rdev = NoDev
    BY <2>1, MayIs
  <2>3. CASE Installed[p] = Absent
    BY <2>2, <2>3, <1>1, AbsentType DEF FileEffect
  <2>4. CASE Installed[p] # Absent
    <3>1. v # Absent
      BY <2>2, <2>4, AbsentType
    <3> QED
      BY <2>2, <2>4, <3>1, <1>1, <1>2 DEF FileEffect, Given
  <2> QED
    BY <2>3, <2>4
<1>3. ASSUME p # l.name PROVE Effect(l, p, v) = v
  BY <1>1, <1>3 DEF FileEffect
<1> QED
  BY <1>2, <1>3

\* What an entry for devices makes of them.
LEMMA NodeEffectIs ==
  ASSUME NEW t \in Tables, Orderly(t), NEW i \in 1 .. Len(Lines[t]), IsEntry(Lines[t][i]),
         Lines[t][i].type \notin {"d", "f"}, NEW p \in Paths, NEW v
  PROVE  LET l == Lines[t][i]
         IN  /\ p \in Named(l) => Effect(l, p, v) = Node(l.type, l.mode, l.owner, DevOf(l, p))
             /\ p \notin Named(l) => Effect(l, p, v) = v
             /\ l.type \in {"p", "c", "b"}
BY EntryOf DEF Effect, NodeEffect

(* A line leaves every path what it may be, and makes one that it settles   *)
(* the same whatever it was.                                                *)
LEMMA EffectMay ==
  ASSUME NEW t \in Tables, Orderly(t), NEW i \in 1 .. Len(Lines[t]), NEW p \in Paths,
         NEW v, Value(v), May(t, p, v)
  PROVE  Value(Effect(Lines[t][i], p, v)) /\ May(t, p, Effect(Lines[t][i], p, v))
<1> DEFINE l == Lines[t][i]
           e == Effect(l, p, v)
<1>1. CASE ~IsEntry(l)
  BY <1>1 DEF Effect
<1>2. CASE IsEntry(l) /\ l.type = "d"
  <2>1. l.name \in DirNames(t) /\ ToSet(Way[l.name]) \subseteq WayPaths(t)
    BY <1>2, EntryOf
  <2>2. CASE p = l.name
    <3>1. e = Node("dir", l.mode, l.owner, NoDev)
      BY <1>2, <2>2, DirEffectIs
    <3>2. e.type = "dir" /\ e.rdev = NoDev /\ Value(e)
      BY <3>1, NodeFields
    <3>3. p \in DirNames(t) /\ p \notin NodePaths(t)
      BY <2>1, <2>2, NotTwoKinds
    <3>9. Value(e) /\ May(t, p, e)
      <4> HIDE DEF e
      <4> QED
        BY <3>2, <3>3 DEF May
    <3> QED
      BY <3>9, Zenon
  <2>3. CASE p # l.name /\ p \in ToSet(Way[l.name]) /\ v = Absent
    <3>1. e = Fresh
      BY <1>2, <2>3, DirEffectIs
    <3>2. Fresh.type = "dir" /\ Fresh.rdev = NoDev /\ Value(Fresh)
      BY NodeFields DEF Fresh
    <3>3. p \in WayPaths(t) /\ p \notin NodePaths(t)
      BY <2>1, <2>3, NotTwoKinds
    <3>4. p \notin DirNames(t) => Installed[p] = Absent
      BY <2>3, <3>3, MayIs
    <3> QED
      BY <3>1, <3>2, <3>3, <3>4 DEF May
  <2>4. CASE p # l.name /\ (p \notin ToSet(Way[l.name]) \/ v # Absent)
    <3>1. e = v
      BY <1>2, <2>4, DirEffectIs
    <3> QED
      BY <3>1, Zenon
  <2> QED
    BY <2>2, <2>3, <2>4
<1>3. CASE IsEntry(l) /\ l.type = "f"
  <2>1. CASE p = l.name /\ Installed[p] # Absent
    <3>1. e = Node("file", l.mode, l.owner, NoDev)
      BY <1>3, <2>1, FileEffectIs
    <3>2. e.type = "file" /\ e.rdev = NoDev /\ Value(e)
      BY <3>1, NodeFields
    <3>3. p \in FileNames(t)
      BY <1>3, <2>1, EntryOf
    <3>4. p \notin NodePaths(t) \cup DirNames(t) \cup WayPaths(t)
      BY <3>3, NotTwoKinds DEF Orderly, OneKindEach
    <3>9. Value(e) /\ May(t, p, e)
      <4> HIDE DEF e
      <4> QED
        BY <3>2, <3>3, <3>4, <2>1 DEF May
    <3> QED
      BY <3>9, Zenon
  <2>2. CASE p = l.name /\ Installed[p] = Absent
    <3>1. e = Absent
      BY <1>3, <2>2, FileEffectIs
    <3>2. v = Absent
      BY <1>3, <2>2, EntryOf, MayIs
    <3> QED
      BY <3>1, <3>2
  <2>3. CASE p # l.name
    <3>1. e = v
      BY <1>3, <2>3, FileEffectIs
    <3> QED
      BY <3>1, Zenon
  <2> QED
    BY <2>1, <2>2, <2>3
<1>4. CASE IsEntry(l) /\ l.type \notin {"d", "f"}
  <2>1. CASE p \in Named(l)
    <3>1. e = Node(l.type, l.mode, l.owner, DevOf(l, p)) /\ l.type \in {"p", "c", "b"}
      BY <1>4, <2>1, NodeEffectIs
    <3>2. e.type = l.type /\ Value(e)
      BY <3>1, NodeFields
    <3>3. p \in NodePaths(t)
      BY <1>4, <2>1, EntryOf
    <3>9. Value(e) /\ May(t, p, e)
      <4> HIDE DEF e
      <4> QED
        BY <3>1, <3>2, <3>3 DEF May
    <3> QED
      BY <3>9, Zenon
  <2>2. CASE p \notin Named(l)
    <3>1. e = v
      BY <1>4, <2>2, NodeEffectIs
    <3> QED
      BY <3>1, Zenon
  <2> QED
    BY <2>1, <2>2
<1> HIDE DEF e
<1> QED
  BY <1>1, <1>2, <1>3, <1>4 DEF e

LEMMA EffectSettles ==
  ASSUME NEW t \in Tables, Orderly(t), NEW i \in 1 .. Len(Lines[t]), NEW p \in Paths, Settles(t, i, p),
         NEW v, Value(v), May(t, p, v), NEW w, Value(w), May(t, p, w)
  PROVE  Effect(Lines[t][i], p, v) = Effect(Lines[t][i], p, w)
<1> DEFINE l == Lines[t][i]
<1>1. IsEntry(l) /\ (p \in Named(l) \/ (l.type = "d" /\ p \in ToSet(Way[l.name]) /\ p \notin DirNames(t)))
  BY DEF Settles
<1>2. CASE l.type = "d"
  <2>1. l.name \in DirNames(t) /\ ToSet(Way[l.name]) \subseteq WayPaths(t) /\ Named(l) = {l.name}
    BY <1>1, <1>2, EntryOf
  <2>2. CASE p = l.name
    BY <1>1, <1>2, <2>2, DirEffectIs
  <2>3. CASE p # l.name
    <3>1. p \in WayPaths(t) /\ p \notin DirNames(t) /\ p \in ToSet(Way[l.name])
      BY <1>1, <2>1, <2>3
    <3>2. /\ IF Installed[p] = Absent THEN v \in {Absent, Fresh} ELSE v = Home[p] /\ v # Absent
          /\ IF Installed[p] = Absent THEN w \in {Absent, Fresh} ELSE w = Home[p] /\ w # Absent
      BY <3>1, MayIs
    <3>3. /\ Effect(l, p, v) = IF v = Absent THEN Fresh ELSE v
          /\ Effect(l, p, w) = IF w = Absent THEN Fresh ELSE w
      BY <1>1, <1>2, <2>3, <3>1, DirEffectIs
    <3> QED
      BY <3>2, <3>3
  <2> QED
    BY <2>2, <2>3
<1>3. CASE l.type = "f"
  <2>1. Named(l) = {l.name}
    BY <1>1, <1>3, EntryOf
  <2>2. p = l.name
    BY <2>1, <1>1, <1>3
  <2>3. \A x : Value(x) /\ May(t, p, x) =>
          Effect(l, p, x) = IF Installed[p] = Absent THEN Absent ELSE Node("file", l.mode, l.owner, NoDev)
    BY <2>2, <1>1, <1>3, FileEffectIs
  <2> QED
    BY <2>3
<1>4. CASE l.type \notin {"d", "f"}
  <2>1. p \in Named(l)
    BY <1>1, <1>4
  <2>2. \A x : Effect(l, p, x) = Node(l.type, l.mode, l.owner, DevOf(l, p))
    BY <2>1, <1>1, <1>4, NodeEffectIs
  <2> QED
    BY <2>2
<1> QED
  BY <1>2, <1>3, <1>4

\* A directory stays one, and is one when it is on the way of a line.
LEMMA EffectDir ==
  ASSUME NEW t \in Tables, Orderly(t), NEW i \in 1 .. Len(Lines[t]), NEW p \in Paths,
         NEW v, Value(v), May(t, p, v), p \notin NodePaths(t),
         v.type = "dir" \/ (IsEntry(Lines[t][i]) /\ Lines[t][i].type = "d" /\ p \in ToSet(Way[Lines[t][i].name]))
  PROVE  Effect(Lines[t][i], p, v).type = "dir"
<1> DEFINE l == Lines[t][i]
<1>1. CASE ~IsEntry(l)
  BY <1>1 DEF Effect
<1>2. CASE IsEntry(l) /\ l.type = "d"
  <2>1. Fresh.type = "dir" /\ Node("dir", l.mode, l.owner, NoDev).type = "dir"
    BY NodeFields DEF Fresh
  <2> QED
    BY <1>2, <2>1, DirEffectIs
<1>3. CASE IsEntry(l) /\ l.type = "f"
  <2>1. p # l.name
    <3> SUFFICES ASSUME p = l.name PROVE FALSE
      OBVIOUS
    <3>1. p \in FileNames(t)
      BY <1>3, EntryOf
    <3>2. v.type = "file" \/ v = Absent
      BY <3>1, MayIs
    <3> QED
      BY <3>2, <1>3, AbsentType
  <2> QED
    BY <1>3, <2>1, FileEffectIs
<1>4. CASE IsEntry(l) /\ l.type \notin {"d", "f"}
  <2>1. p \notin Named(l)
    BY <1>4, EntryOf
  <2> QED
    BY <1>4, <2>1, NodeEffectIs
<1> QED
  BY <1>1, <1>2, <1>3, <1>4

(* --------------------------- line after line ---------------------------- *)

(* A path waits for the last line that settles it: names it, or, for one no *)
(* line names as a directory, makes it on the way to another.               *)
Awaits(t, k, p) == \E i \in k + 1 .. Len(Lines[t]) : Settles(t, i, p)
DirsMade(t, k, T) == \A p \in DirsBefore(t, k + 1) : T[p].type = "dir"
Running(T, ok, died) == [tree |-> T, ok |-> ok, died |-> died]
Runs(s, T) == \E ok, died : s = Running(T, ok, died) /\ ~died
After(t, i, T) == [p \in Paths |-> Effect(Lines[t][i], p, T[p])]

(* A line of the table does to every path what Effect says, if those before *)
(* it have been applied.                                                    *)
LEMMA EntryIs ==
  ASSUME NEW t \in Tables, Orderly(t), NEW i \in 1 .. Len(Lines[t]), IsEntry(Lines[t][i]),
         NEW T, Kept(t, T), \A p \in DirsBefore(t, i) : T[p].type = "dir"
  PROVE  EntryMade(T, Lines[t][i]).tree = After(t, i, T)
<1> DEFINE l == Lines[t][i]
<1>1. ATree(T) /\ \A p \in Paths : May(t, p, T[p]) /\ Value(T[p])
  BY DEF Kept, ATree
<1>2. OrdinaryEntry(l)
  BY EntryOf
<1>3. CASE l.type = "d"
  <2>1. l.name \in Paths /\ ToSet(Way[l.name]) \subseteq WayPaths(t)
    BY <1>3, EntryOf
  <2>2. \A q \in ToSet(Way[l.name]) : q \in Paths /\ (T[q] = Absent \/ T[q].type = "dir")
    <3> SUFFICES ASSUME NEW q \in ToSet(Way[l.name]) PROVE q \in Paths /\ (T[q] = Absent \/ T[q].type = "dir")
      OBVIOUS
    <3>1. q \in Paths /\ q \in WayPaths(t)
      BY <2>1, RootNotOnTheWay
    <3>2. May(t, q, T[q])
      BY <3>1, <1>1
    <3> QED
      BY <3>1, <3>2, MayIs
  <2>3. T[Root].type = "dir"
    <3>1. May(t, Root, T[Root]) /\ Root \in Paths
      BY <1>1, RootIsAPath
    <3> QED
      BY <3>1, MayIs, TargetDirectory
  <2>4. Passable(T, l.name)
    BY <1>1, <2>2, <2>3 DEF Passable
  <2>5. Directory(T, l).tree = [q \in Paths |-> DirEffect(l, q, T[q])]
    BY <2>1, <2>4, DirectoryIs
  <2>6. EntryMade(T, l) = Directory(T, l)
    BY <1>3 DEF EntryMade
  <2>7. \A q \in Paths : DirEffect(l, q, T[q]) = Effect(l, q, T[q])
    BY <1>3 DEF Effect
  <2> HIDE DEF l
  <2> QED
    BY <2>5, <2>6, <2>7 DEF After, l
<1>4. CASE l.type = "f"
  <2>1. l.name \in Paths
    BY <1>4, EntryOf
  <2>2. RegularFile(T, l).tree = [q \in Paths |-> FileEffect(l, q, T[q])]
    BY <2>1, <1>1, RegularFileIs
  <2>3. EntryMade(T, l) = RegularFile(T, l)
    BY <1>4 DEF EntryMade
  <2>4. \A q \in Paths : FileEffect(l, q, T[q]) = Effect(l, q, T[q])
    BY <1>4 DEF Effect
  <2> HIDE DEF l
  <2> QED
    BY <2>2, <2>3, <2>4 DEF After, l
<1>5. CASE l.type \notin {"d", "f"}
  <2>1. l.type \in {"p", "c", "b"} /\ i \in EntriesOf(t, {"p", "c", "b"}) /\ Named(l) \subseteq NodePaths(t)
    BY <1>5, EntryOf
  <2>2. \A p \in Named(l) : Place(T, p)
    <3> SUFFICES ASSUME NEW p \in Named(l) PROVE Place(T, p)
      OBVIOUS
    <3>1. p \in Paths /\ p \in NodePaths(t)
      BY <2>1, <1>2 DEF OrdinaryEntry
    <3>2. p \notin {Root, Init0}
      BY <3>1 DEF Orderly, OneKindEach
    <3>3. T[p].type # "dir"
      BY <3>1, <1>1, MayIs
    <3>4. Parent[p] \in DirsBefore(t, i)
      BY <2>1 DEF Orderly, DirectoryFirst
    <3> QED
      BY <3>1, <3>2, <3>3, <3>4 DEF Place
  <2>3. Nodes(T, l).tree = [q \in Paths |-> NodeEffect(l, q, T[q])]
    BY <1>1, <1>2, <2>1, <2>2, NodesAre
  <2>4. EntryMade(T, l) = Nodes(T, l)
    BY <2>1 DEF EntryMade
  <2>5. \A q \in Paths : NodeEffect(l, q, T[q]) = Effect(l, q, T[q])
    BY <1>5 DEF Effect
  <2> HIDE DEF l
  <2> QED
    BY <2>3, <2>4, <2>5 DEF After, l
<1> QED
  BY <1>3, <1>4, <1>5

\* The program goes on with the tree of the entry.
LEMMA ResultIs ==
  ASSUME NEW s, NEW T, Runs(s, T), NEW r
  PROVE  Runs(Result(s, r), r.tree)
<1>1. PICK ok, died : s = Running(T, ok, died) /\ ~died
  BY DEF Runs
<1> DEFINE o == ok /\ r.ok
           U == r.tree
<1>2. Result(Running(T, ok, died), r) = [Running(T, ok, died) EXCEPT !.tree = U, !.ok = o]
  BY Zenon DEF Result, Running
<1> HIDE DEF o, U
<1>3. [Running(T, ok, died) EXCEPT !.tree = U] = Running(U, ok, died)
  BY DEF Running
<1>4. [Running(U, ok, died) EXCEPT !.ok = o] = Running(U, o, died)
  BY DEF Running
<1>5. [Running(T, ok, died) EXCEPT !.tree = U, !.ok = o] = [[Running(T, ok, died) EXCEPT !.tree = U] EXCEPT !.ok = o]
  BY DEF Running
<1> QED
  <2>1. Result(s, r) = Running(U, o, died) /\ ~died
    BY <1>1, <1>2, <1>3, <1>4, <1>5
  <2> QED
    BY <2>1 DEF U, Runs

\* So does a line that is none, which changes nothing.
LEMMA LineIs ==
  ASSUME NEW t \in Tables, Orderly(t), NEW i \in 1 .. Len(Lines[t]),
         NEW T, Kept(t, T), \A p \in DirsBefore(t, i) : T[p].type = "dir", NEW s, Runs(s, T)
  PROVE  Runs(Line(s, Lines[t][i]), After(t, i, T))
<1> DEFINE l == Lines[t][i]
<1>1. T = [p \in Paths |-> T[p]]
  BY DEF Kept, ATree
<1>2. s.tree = T /\ Runs([s EXCEPT !.ok = FALSE], T)
  <2>1. PICK ok, died : s = Running(T, ok, died) /\ ~died
    BY DEF Runs
  <2> DEFINE o == FALSE
  <2>4. [s EXCEPT !.ok = FALSE] = [s EXCEPT !.ok = o]
    OBVIOUS
  <2> HIDE DEF o
  <2>2. [Running(T, ok, died) EXCEPT !.ok = o] = Running(T, o, died)
    BY DEF Running
  <2>3. s.tree = T
    BY <2>1 DEF Running
  <2> QED
    BY <2>1, <2>2, <2>3, <2>4 DEF Runs
<1>3. l.kind \in {"comment", "invalid", "entry"} /\ ~Dies(l)
  BY LinesAre DEF Orderly
<1>4. CASE ~IsEntry(l)
  <2>1. After(t, i, T) = T
    BY <1>1, <1>4 DEF After, Effect
  <2>2. CASE l.kind = "comment"
    BY <2>1, <2>2 DEF Line
  <2>3. CASE l.kind = "invalid" \/ (l.kind = "entry" /\ ~InRange(l))
    <3>1. Line(s, l) = [s EXCEPT !.ok = FALSE]
      BY <2>3 DEF Line
    <3> QED
      BY <2>1, <3>1, <1>2
  <2> QED
    BY <2>2, <2>3, <1>3, <1>4 DEF IsEntry
<1>5. CASE IsEntry(l)
  <2>1. l.kind = "entry" /\ InRange(l) /\ Known(l)
    BY <1>3, <1>5 DEF IsEntry, Dies
  <2> DEFINE r == EntryMade(T, l)
  <2>2. Line(s, l) = Result(s, r)
    BY <2>1, <1>2 DEF Line
  <2>3. r.tree = After(t, i, T)
    BY <1>5, EntryIs
  <2>4. Runs(Result(s, r), r.tree)
    <3> HIDE DEF r
    <3> QED
      BY ResultIs
  <2> HIDE DEF r
  <2> QED
    BY <2>2, <2>3, <2>4
<1> QED
  BY <1>4, <1>5

\* A line leaves every path in a state it may be in.
LEMMA AfterKept ==
  ASSUME NEW t \in Tables, Orderly(t), NEW i \in 1 .. Len(Lines[t]), NEW T, Kept(t, T)
  PROVE  Kept(t, After(t, i, T))
<1>1. \A p \in Paths : Value(T[p]) /\ May(t, p, T[p])
  BY DEF Kept, ATree
<1>2. \A p \in Paths : Value(Effect(Lines[t][i], p, T[p])) /\ May(t, p, Effect(Lines[t][i], p, T[p]))
  BY <1>1, EffectMay
<1>3. After(t, i, T) = [p \in Paths |-> After(t, i, T)[p]] /\ \A p \in Paths : After(t, i, T)[p] = Effect(Lines[t][i], p, T[p])
  BY DEF After
<1> QED
  BY <1>2, <1>3 DEF Kept, ATree

\* The directories of the packages are there at first,
LEMMA DirsAtFirst ==
  ASSUME NEW t \in Tables, Orderly(t), NEW T, Kept(t, T)
  PROVE  DirsMade(t, 0, T)
<1> SUFFICES ASSUME NEW p \in DirsBefore(t, 0 + 1) PROVE T[p].type = "dir"
  BY DEF DirsMade
<1>1. \A j \in EntriesOf(t, {"d"}) : ~(j < 1)
  BY LinesAre DEF EntriesOf
<1>2. p \in Paths /\ (p = Root \/ IsDir(Installed, p))
  BY <1>1 DEF DirsBefore, WaysOf
<1>3. IsDir(Installed, p) /\ May(t, p, T[p])
  BY <1>2, TargetDirectory DEF Kept
<1> QED
  BY <1>2, <1>3, MayIs

\* and those of each line from then on.
LEMMA DirsStay ==
  ASSUME NEW t \in Tables, Orderly(t), NEW k \in 0 .. Len(Lines[t]) - 1, NEW T, Kept(t, T), DirsMade(t, k, T)
  PROVE  DirsMade(t, k + 1, After(t, k + 1, T))
<1> DEFINE U == After(t, k + 1, T)
<1>1. k + 1 \in 1 .. Len(Lines[t])
  BY LinesAre
<1> SUFFICES ASSUME NEW p \in DirsBefore(t, (k + 1) + 1) PROVE U[p].type = "dir"
  BY DEF DirsMade
<1>2. Kept(t, U)
  BY <1>1, AfterKept
<1>3. CASE p \in Paths /\ (p = Root \/ IsDir(Installed, p))
  <2>1. IsDir(Installed, p) /\ May(t, p, U[p])
    BY <1>2, <1>3, TargetDirectory DEF Kept
  <2> HIDE DEF U
  <2> QED
    BY <1>3, <2>1, MayIs
<1>4. CASE ~(p \in Paths /\ (p = Root \/ IsDir(Installed, p)))
  <2>1. PICK j \in EntriesOf(t, {"d"}) : j < (k + 1) + 1 /\ p \in ToSet(Way[Lines[t][j].name])
    BY <1>4 DEF DirsBefore, WaysOf
  <2>2. j \in 1 .. Len(Lines[t]) /\ IsEntry(Lines[t][j]) /\ Lines[t][j].type = "d"
    BY LinesAre DEF EntriesOf
  <2>3. p \in WayPaths(t)
    BY <2>1 DEF WayPaths, WaysOf
  <2>4. p \in Paths /\ p \notin NodePaths(t)
    BY <2>3, NotTwoKinds
  <2>5. Value(T[p]) /\ May(t, p, T[p])
    BY <2>4 DEF Kept, ATree
  <2>6. j = k + 1 \/ j < k + 1
    BY <2>1, <2>2
  <2>7. j < k + 1 => T[p].type = "dir"
    <3> SUFFICES ASSUME j < k + 1 PROVE T[p].type = "dir"
      OBVIOUS
    <3>1. p \in DirsBefore(t, k + 1)
      BY <2>1 DEF DirsBefore, WaysOf
    <3> QED
      BY <3>1 DEF DirsMade
  <2>8. Effect(Lines[t][k + 1], p, T[p]).type = "dir"
    BY <1>1, <2>1, <2>2, <2>4, <2>5, <2>6, <2>7, EffectDir
  <2> QED
    BY <2>4, <2>8 DEF After
<1> QED
  BY <1>3, <1>4

(* A path that no line settles is as the packages left it.                  *)
LEMMA NeverSettled ==
  ASSUME NEW t \in Tables, Orderly(t), NEW p \in Paths \ {Init0}, ~Awaits(t, 0, p), NEW v, May(t, p, v)
  PROVE  v = Home[p]
<1>1. \A i \in 1 .. Len(Lines[t]) : ~Settles(t, i, p)
  BY LinesAre DEF Awaits
<1>2. \A types : \A i \in EntriesOf(t, types) : i \in 1 .. Len(Lines[t]) /\ IsEntry(Lines[t][i]) /\ Lines[t][i].type \in types
  BY LinesAre DEF EntriesOf
<1>3. p \notin NodePaths(t)
  <2> SUFFICES ASSUME p \in NodePaths(t) PROVE FALSE
    OBVIOUS
  <2>1. PICK i \in EntriesOf(t, {"p", "c", "b"}) : p \in Named(Lines[t][i])
    BY DEF NodePaths
  <2> QED
    BY <2>1, <1>1, <1>2 DEF Settles
<1>4. p \notin DirNames(t)
  <2> SUFFICES ASSUME p \in DirNames(t) PROVE FALSE
    OBVIOUS
  <2>1. PICK i \in EntriesOf(t, {"d"}) : p = Lines[t][i].name
    BY DEF DirNames
  <2>2. p \in Named(Lines[t][i])
    BY <2>1, <1>2, EntryOf
  <2> QED
    BY <2>2, <1>1, <1>2 DEF Settles
<1>5. p \notin FileNames(t)
  <2> SUFFICES ASSUME p \in FileNames(t) PROVE FALSE
    OBVIOUS
  <2>1. PICK i \in EntriesOf(t, {"f"}) : p = Lines[t][i].name
    BY DEF FileNames
  <2>2. p \in Named(Lines[t][i])
    BY <2>1, <1>2, EntryOf
  <2> QED
    BY <2>2, <1>1, <1>2 DEF Settles
<1>6. p \notin WayPaths(t)
  <2> SUFFICES ASSUME p \in WayPaths(t) PROVE FALSE
    OBVIOUS
  <2>1. PICK i \in EntriesOf(t, {"d"}) : p \in ToSet(Way[Lines[t][i].name])
    BY DEF WayPaths, WaysOf
  <2>2. Lines[t][i].type = "d"
    BY <1>2
  <2> QED
    BY <2>1, <2>2, <1>1, <1>2, <1>4 DEF Settles
<1> QED
  BY <1>3, <1>4, <1>5, <1>6 DEF May

(* ------------------------- the first application ------------------------ *)

\* What FromInstalled computes, line by line.
LineRun(r, t) ==
  r = [n \in 0 .. Len(Lines[t]) |->
         IF n = 0 THEN [tree |-> Owned(Installed), ok |-> TRUE, died |-> FALSE]
         ELSE With(r[n - 1], LAMBDA s : Line(s, Lines[t][n]))]
IsIdeal(t, r) ==
  /\ Runs(r[0], Home)
  /\ \A n \in 1 .. Len(Lines[t]) : r[n] = Line(r[n - 1], Lines[t][n])
  /\ FromInstalled[t] = r[Len(Lines[t])].tree
Ideal(t) == CHOOSE r : IsIdeal(t, r)

LEMMA WithLine ==
  ASSUME NEW r, NEW l
  PROVE  With(r, LAMBDA s : Line(s, l)) = Line(r, l)
<1>1. {Line(s, l) : s \in {r}} = {Line(r, l)}
  OBVIOUS
<1> QED
  BY <1>1, OneElement DEF With

\* The recursion of FromInstalled is defined.
LEMMA LinesRun ==
  ASSUME NEW t \in Tables
  PROVE  \E r : LineRun(r, t) /\ FromInstalled[t] = r[Len(Lines[t])].tree
<1> DEFINE Step(x, n) == With(x, LAMBDA s : Line(s, Lines[t][n]))
           first == [tree |-> Owned(Installed), ok |-> TRUE, died |-> FALSE]
           Upto(r, N) == r = [n \in 0 .. N |-> IF n = 0 THEN first ELSE Step(r[n - 1], n)]
           Good == {N \in Nat : \E r : Upto(r, N)}
<1>1. 0 \in Good
  <2> HIDE DEF Step, first
  <2>1. Upto([n \in 0 .. 0 |-> first], 0)
    OBVIOUS
  <2> QED
    BY <2>1
<1>2. ASSUME NEW N \in Good PROVE N + 1 \in Good
  <2> HIDE DEF Step, first
  <2>1. PICK r : Upto(r, N)
    BY <1>2
  <2> DEFINE s == [n \in 0 .. N + 1 |-> IF n = N + 1 THEN Step(r[N], N + 1) ELSE r[n]]
  <2>2. N \in Nat
    BY <1>2
  <2>3. ASSUME NEW n \in 0 .. N + 1
        PROVE  s[n] = IF n = 0 THEN first ELSE Step(s[n - 1], n)
    <3>1. CASE n = N + 1
      <4>1. n # 0 /\ n - 1 = N /\ N \in 0 .. N + 1 /\ N # N + 1
        BY <3>1, <2>2
      <4>2. s[n] = Step(r[N], N + 1) /\ s[N] = r[N]
        BY <3>1, <4>1
      <4> QED
        BY <4>1, <4>2, <3>1
    <3>2. CASE n # N + 1
      <4>1. n \in 0 .. N /\ (n # 0 => n - 1 \in 0 .. N + 1 /\ n - 1 # N + 1)
        BY <3>2, <2>2
      <4>2. s[n] = r[n] /\ (n # 0 => s[n - 1] = r[n - 1])
        BY <3>2, <4>1
      <4>3. r[n] = IF n = 0 THEN first ELSE Step(r[n - 1], n)
        BY <2>1, <4>1
      <4> QED
        BY <4>2, <4>3
    <3> QED
      BY <3>1, <3>2
  <2>4. Upto(s, N + 1)
    BY <2>3
  <2>5. N + 1 \in Nat
    BY <2>2
  <2> HIDE DEF Upto, s
  <2> QED
    BY <2>4, <2>5
<1>3. Good = Nat
  <2>1. Good \subseteq Nat
    OBVIOUS
  <2> HIDE DEF Good
  <2> QED
    BY <1>1, <1>2, <2>1, SetInduction
<1>4. \E r : Upto(r, Len(Lines[t]))
  <2> HIDE DEF Upto
  <2> QED
    BY <1>3, LinesAre
<1>5. FromInstalled[t] = (CHOOSE r : Upto(r, Len(Lines[t])))[Len(Lines[t])].tree
  BY Zenon DEF FromInstalled
<1>6. \A r : Upto(r, Len(Lines[t])) <=> LineRun(r, t)
  BY Zenon DEF LineRun
<1> HIDE DEF Upto
<1> QED
  BY <1>4, <1>5, <1>6

\* So there is a first application, with a state after each line.
LEMMA IdealExists ==
  ASSUME NEW t \in Tables
  PROVE  IsIdeal(t, Ideal(t))
<1>1. PICK r : LineRun(r, t) /\ FromInstalled[t] = r[Len(Lines[t])].tree
  BY LinesRun
<1>2. Len(Lines[t]) \in Nat
  BY LinesAre
<1>3. Runs(r[0], Home)
  <2> DEFINE yes == TRUE
             no == FALSE
  <2>1. r[0] = Running(Home, yes, no)
    BY <1>1, <1>2 DEF LineRun, Running, Home
  <2>2. ~no
    OBVIOUS
  <2> HIDE DEF yes, no
  <2> QED
    BY <2>1, <2>2 DEF Runs
<1>4. ASSUME NEW n \in 1 .. Len(Lines[t]) PROVE r[n] = Line(r[n - 1], Lines[t][n])
  <2>1. n \in 0 .. Len(Lines[t]) /\ n # 0
    BY <1>2
  <2>2. \A m \in 0 .. Len(Lines[t]) : m # 0 => r[m] = With(r[m - 1], LAMBDA s : Line(s, Lines[t][m]))
    BY <1>1 DEF LineRun
  <2>3. r[n] = With(r[n - 1], LAMBDA s : Line(s, Lines[t][n]))
    BY <2>1, <2>2
  <2>4. With(r[n - 1], LAMBDA s : Line(s, Lines[t][n])) = Line(r[n - 1], Lines[t][n])
    BY WithLine
  <2> QED
    BY <2>3, <2>4
<1>5. IsIdeal(t, r)
  BY <1>1, <1>3, <1>4 DEF IsIdeal
<1> QED
  BY <1>5, Zenon DEF Ideal

(* The packages leave every path in one of the states it may be in.         *)
LEMMA HomeIsKept ==
  ASSUME NEW t \in Tables, Orderly(t)
  PROVE  Kept(t, Home)
<1>1. Home = [p \in Paths |-> Home[p]]
  BY DEF Home, Owned
<1>2. ASSUME NEW p \in Paths PROVE Value(Home[p]) /\ May(t, p, Home[p])
  <2>1. CASE Installed[p] = Absent
    <3>1. Home[p] = Absent /\ Absent.type = "none" /\ Value(Absent)
      BY <2>1, HomeIs, AbsentType
    <3> QED
      BY <2>1, <3>1 DEF May
  <2>2. CASE Installed[p] # Absent
    <3> DEFINE ty == Installed[p].type
               m == Installed[p].mode
               h == Home[p]
    <3>1. h = Node(ty, m, Super, NoDev) /\ ty \in {"dir", "file"}
      BY <2>2, HomeIs
    <3>2. h.type = ty /\ h.rdev = NoDev /\ Value(h)
      <4> HIDE DEF h, ty, m
      <4> QED
        BY <3>1, NodeFields
    <3>3. IsDir(Installed, p) <=> ty = "dir"
      BY <2>2 DEF IsDir, Exists
    <3>4. p \in NodePaths(t) => ty # "dir"
      BY <3>3, NotTwoKinds
    <3>5. p \in DirNames(t) => ty = "dir"
      BY <3>3, <2>2, NotTwoKinds, TargetDirectory
    <3>6. p \in FileNames(t) => ty = "file"
      BY <3>1, <3>3, NotTwoKinds
    <3>7. May(t, p, h)
      <4> HIDE DEF ty, m
      <4> QED
        BY <2>2, <3>2, <3>4, <3>5, <3>6 DEF May
    <3> QED
      BY <3>2, <3>7
  <2> QED
    BY <2>1, <2>2
<1> QED
  BY <1>1, <1>2 DEF Kept, ATree

(* The table applied to what the packages install, line by line.            *)
IdealAt(t, k, T) ==
  /\ Runs(Ideal(t)[k], T)
  /\ Kept(t, T) /\ DirsMade(t, k, T)

\* Each line does to it what After says.
LEMMA IdealStep ==
  ASSUME NEW t \in Tables, Orderly(t), NEW k \in 0 .. Len(Lines[t]) - 1, NEW T, IdealAt(t, k, T)
  PROVE  IdealAt(t, k + 1, After(t, k + 1, T))
<1> DEFINE i == k + 1
           U == After(t, i, T)
<1>1. i \in 1 .. Len(Lines[t]) /\ i - 1 = k
  BY LinesAre
<1>2. Runs(Ideal(t)[k], T) /\ Kept(t, T)
  BY DEF IdealAt
<1>3. Ideal(t)[i] = Line(Ideal(t)[k], Lines[t][i])
  BY <1>1, IdealExists DEF IsIdeal
<1>4. \A p \in DirsBefore(t, i) : T[p].type = "dir"
  BY DEF IdealAt, DirsMade
<1>5. Kept(t, U) /\ DirsMade(t, i, U)
  BY <1>1, AfterKept, DirsStay DEF IdealAt
<1> HIDE DEF i
<1>6. Runs(Ideal(t)[i], U)
  BY <1>1, <1>2, <1>3, <1>4, LineIs
<1> QED
  BY <1>5, <1>6 DEF IdealAt, i

\* So the program never dies, and every directory is there in time.
LEMMA IdealIs ==
  ASSUME NEW t \in Tables, Orderly(t), NEW k \in 0 .. Len(Lines[t])
  PROVE  /\ IdealAt(t, k, Ideal(t)[k].tree)
         /\ k < Len(Lines[t]) => Ideal(t)[k + 1].tree = After(t, k + 1, Ideal(t)[k].tree)
<1> DEFINE n == Len(Lines[t])
           G == {j \in Nat : j <= n => IdealAt(t, j, Ideal(t)[j].tree)}
<1>1. n \in Nat
  BY LinesAre
<1>2. \A j, T : IdealAt(t, j, T) => Ideal(t)[j].tree = T
  BY DEF IdealAt, Runs, Running
<1>3. 0 \in G
  <2>1. IdealAt(t, 0, Home)
    BY IdealExists, HomeIsKept, DirsAtFirst DEF IsIdeal, IdealAt, Runs
  <2> QED
    BY <2>1, <1>2
<1>4. ASSUME NEW j \in Nat, j < n, IdealAt(t, j, Ideal(t)[j].tree)
      PROVE  /\ IdealAt(t, j + 1, Ideal(t)[j + 1].tree)
             /\ Ideal(t)[j + 1].tree = After(t, j + 1, Ideal(t)[j].tree)
  <2>1. j \in 0 .. Len(Lines[t]) - 1
    BY <1>4, <1>1
  <2> DEFINE T == Ideal(t)[j].tree
             U == After(t, j + 1, T)
  <2>2. IdealAt(t, j + 1, U)
    <3> HIDE DEF T
    <3> QED
      BY <2>1, <1>4, IdealStep DEF T
  <2>3. Ideal(t)[j + 1].tree = U
    <3> HIDE DEF U
    <3> QED
      BY <2>2, <1>2
  <2> QED
    BY <2>2, <2>3
<1>5. \A j \in G : j + 1 \in G
  <2> SUFFICES ASSUME NEW j \in G PROVE j + 1 \in G
    OBVIOUS
  <2>1. j \in Nat /\ j + 1 \in Nat /\ (j + 1 <= n => j <= n /\ j < n)
    BY <1>1
  <2> QED
    BY <2>1, <1>4
<1>6. G = Nat
  <2>1. G \subseteq Nat
    OBVIOUS
  <2> HIDE DEF G
  <2> QED
    BY <1>3, <1>5, <2>1, SetInduction
<1>7. k \in Nat /\ k <= n /\ k \in G
  <2> HIDE DEF G
  <2> QED
    BY <1>6, <1>1
<1> QED
  BY <1>7, <1>4

(* ------------------------ at a line of the table ------------------------ *)

(* After k lines a tree that started otherwise agrees with the first        *)
(* application on every path no later line settles.                         *)
Agrees(t, k, T) == \A p \in Paths \ {Init0} : Awaits(t, k, p) \/ T[p] = Ideal(t)[k].tree[p]
AtLine(t, k, T) == Kept(t, T) /\ DirsMade(t, k, T) /\ Agrees(t, k, T)
Complete(t, T) == \A p \in Paths \ {Init0} : T[p] = FromInstalled[t][p]

\* Any tree whose paths are what they may be agrees before the first line,
LEMMA AtLineFirst ==
  ASSUME NEW t \in Tables, Orderly(t), NEW T, Kept(t, T)
  PROVE  AtLine(t, 0, T)
<1>1. Ideal(t)[0].tree = Home
  <2>1. PICK ok, died : Ideal(t)[0] = Running(Home, ok, died)
    BY IdealExists DEF IsIdeal, Runs
  <2> QED
    BY <2>1 DEF Running
<1>2. ASSUME NEW p \in Paths \ {Init0}, ~Awaits(t, 0, p) PROVE T[p] = Home[p]
  BY <1>2, NeverSettled DEF Kept
<1> QED
  BY <1>1, <1>2, DirsAtFirst DEF AtLine, Agrees

\* a line keeps the agreement and settles its own paths,
LEMMA AtLineStep ==
  ASSUME NEW t \in Tables, Orderly(t), NEW k \in 0 .. Len(Lines[t]) - 1, NEW T, AtLine(t, k, T)
  PROVE  AtLine(t, k + 1, After(t, k + 1, T))
<1> DEFINE i == k + 1
           U == After(t, i, T)
           R == Ideal(t)[k].tree
<1>1. i \in 1 .. Len(Lines[t]) /\ k \in 0 .. Len(Lines[t]) /\ k < Len(Lines[t]) /\ Len(Lines[t]) \in Nat
  BY LinesAre
<1>2. Kept(t, T) /\ Kept(t, R) /\ Ideal(t)[i].tree = After(t, i, R)
  BY <1>1, IdealIs DEF AtLine, IdealAt
<1>3. Kept(t, U) /\ DirsMade(t, i, U)
  BY <1>1, AfterKept, DirsStay DEF AtLine
<1>4. ASSUME NEW p \in Paths \ {Init0}, ~Awaits(t, i, p) PROVE U[p] = Ideal(t)[i].tree[p]
  <2> DEFINE v == T[p]
             w == R[p]
  <2>1. Value(v) /\ May(t, p, v) /\ Value(w) /\ May(t, p, w)
    BY <1>2 DEF Kept, ATree
  <2>2. Effect(Lines[t][i], p, v) = Effect(Lines[t][i], p, w)
    <3>1. CASE Settles(t, i, p)
      <4> HIDE DEF i, v, w
      <4> QED
        BY <3>1, <2>1, <1>1, EffectSettles
    <3>2. CASE ~Settles(t, i, p)
      <4>1. ~Awaits(t, k, p)
        BY <3>2, <1>4, <1>1 DEF Awaits
      <4>2. v = w
        BY <4>1 DEF AtLine, Agrees
      <4> QED
        BY <4>2
    <3> QED
      BY <3>1, <3>2
  <2>3. U[p] = Effect(Lines[t][i], p, v) /\ After(t, i, R)[p] = Effect(Lines[t][i], p, w)
    BY DEF After
  <2> HIDE DEF i, U, R, v, w
  <2> QED
    BY <2>2, <2>3, <1>2
<1>5. Agrees(t, i, U)
  <2> HIDE DEF i, U
  <2> QED
    BY <1>4 DEF Agrees
<1> QED
  BY <1>3, <1>5 DEF AtLine

\* and after the last one there is none left that could differ.
LEMMA AtLineLast ==
  ASSUME NEW t \in Tables, Orderly(t), NEW T, AtLine(t, Len(Lines[t]), T)
  PROVE  Complete(t, T)
<1>1. FromInstalled[t] = Ideal(t)[Len(Lines[t])].tree
  BY IdealExists DEF IsIdeal
<1>2. \A p : ~Awaits(t, Len(Lines[t]), p)
  BY LinesAre DEF Awaits
<1> QED
  BY <1>1, <1>2 DEF AtLine, Agrees, Complete

(* ------------------ what the steps do to the directory ------------------ *)

\* What chown -R and the end of fakeroot do to one path.
OwnedValue(v) == IF v = Absent THEN Absent ELSE [v EXCEPT !.owner = Super]
ForgottenValue(v) ==
  IF v = Absent THEN Absent ELSE Node(IF v.type = "dir" THEN "dir" ELSE "file", v.mode, <<"user", "user">>, NoDev)

LEMMA OwnedValueIs ==
  ASSUME NEW v, Value(v)
  PROVE  /\ v = Absent => OwnedValue(v) = Absent
         /\ v # Absent =>
              /\ OwnedValue(v) = Node(v.type, v.mode, Super, v.rdev)
              /\ OwnedValue(v) # Absent
              /\ OwnedValue(v).type = v.type /\ OwnedValue(v).mode = v.mode /\ OwnedValue(v).rdev = v.rdev
         /\ Value(OwnedValue(v)) /\ OwnedValue(v).type = v.type
<1>1. CASE v = Absent
  BY <1>1, AbsentType DEF OwnedValue
<1>2. CASE v # Absent
  <2> DEFINE ty == v.type
             m == v.mode
             o == v.owner
             d == v.rdev
  <2>1. v = Node(ty, m, o, d) /\ ty # "none"
    BY <1>2, ValueIs
  <2>2. OwnedValue(v) = [v EXCEPT !.owner = Super]
    BY <1>2 DEF OwnedValue
  <2> HIDE DEF ty, m, o, d
  <2>3. OwnedValue(v) = Node(ty, m, Super, d)
    BY <2>1, <2>2, NodeFields
  <2>4. OwnedValue(v) # Absent /\ OwnedValue(v).type = ty /\ OwnedValue(v).mode = m /\ OwnedValue(v).rdev = d /\ Value(OwnedValue(v))
    BY <2>1, <2>3, NodeFields
  <2> QED
    BY <1>2, <2>3, <2>4 DEF ty, m, d
<1> QED
  BY <1>1, <1>2

LEMMA ForgottenValueIs ==
  ASSUME NEW v, Value(v)
  PROVE  /\ v = Absent => ForgottenValue(v) = Absent
         /\ v # Absent =>
              /\ ForgottenValue(v) # Absent /\ ForgottenValue(v).mode = v.mode
              /\ ForgottenValue(v).type = IF v.type = "dir" THEN "dir" ELSE "file"
              /\ ForgottenValue(v).rdev = NoDev
         /\ Value(ForgottenValue(v))
<1>1. CASE v = Absent
  BY <1>1, AbsentType DEF ForgottenValue
<1>2. CASE v # Absent
  <2> DEFINE ty == IF v.type = "dir" THEN "dir" ELSE "file"
             m == v.mode
             u == <<"user", "user">>
             f == ForgottenValue(v)
  <2>1. f = Node(ty, m, u, NoDev) /\ ty # "none"
    BY <1>2 DEF ForgottenValue
  <2> HIDE DEF ty, m, u, f
  <2>2. f # Absent /\ f.type = ty /\ f.mode = m /\ f.rdev = NoDev /\ Value(f)
    BY <2>1, NodeFields
  <2> QED
    BY <1>2, <2>2 DEF ty, m, f
<1> QED
  BY <1>1, <1>2

\* To be given to root, and to be forgotten, leaves a path what it may be.
LEMMA OwnedMay ==
  ASSUME NEW t \in Tables, Orderly(t), NEW p \in Paths, NEW v, Value(v), May(t, p, v)
  PROVE  May(t, p, OwnedValue(v))
<1> DEFINE w == OwnedValue(v)
<1>1. /\ v = Absent => w = Absent
      /\ v # Absent => w = Node(v.type, v.mode, Super, v.rdev) /\ w.rdev = v.rdev
      /\ w.type = v.type
  BY OwnedValueIs
<1>2. v = Fresh => w = Fresh
  <2>1. Fresh.type = "dir" /\ Fresh.mode = "777" /\ Fresh.rdev = NoDev /\ Fresh # Absent
    BY NodeFields DEF Fresh
  <2> HIDE DEF w
  <2> QED
    BY <1>1, <2>1 DEF Fresh
<1>3. v = Home[p] => w = Home[p]
  <2>1. Installed[p] # Absent => Home[p] = Node(Home[p].type, Home[p].mode, Super, Home[p].rdev)
    <3> DEFINE ty == Installed[p].type
               m == Installed[p].mode
    <3> SUFFICES ASSUME Installed[p] # Absent
                 PROVE  Home[p] = Node(Home[p].type, Home[p].mode, Super, Home[p].rdev)
      OBVIOUS
    <3>1. Home[p] = Node(ty, m, Super, NoDev)
      BY HomeIs
    <3> HIDE DEF ty, m
    <3> QED
      BY <3>1, NodeFields
  <2> HIDE DEF w
  <2> QED
    BY <1>1, <2>1, HomeIs
<1>4. v.type \in {"dir", "file"} => v # Absent
  BY AbsentType
<1> HIDE DEF w
<1> QED
  BY <1>1, <1>2, <1>3, <1>4 DEF May, w

LEMMA ForgottenMay ==
  ASSUME NEW t \in Tables, Orderly(t), NEW p \in Paths, NEW v, Value(v), May(t, p, OwnedValue(v))
  PROVE  May(t, p, OwnedValue(ForgottenValue(v)))
<1> DEFINE f == ForgottenValue(v)
           w == OwnedValue(v)
           x == OwnedValue(f)
<1>1. CASE v = Absent
  <2>1. f = Absent
    BY <1>1, ForgottenValueIs
  <2> QED
    BY <1>1, <2>1
<1>2. CASE v # Absent
  <2>1. f # Absent /\ f.mode = v.mode /\ f.type = (IF v.type = "dir" THEN "dir" ELSE "file") /\ f.rdev = NoDev /\ Value(f)
    BY <1>2, ForgottenValueIs
  <2>2. w.type = v.type /\ w.mode = v.mode /\ w.rdev = v.rdev /\ w # Absent /\ w = Node(v.type, v.mode, Super, v.rdev)
    BY <1>2, OwnedValueIs
  <2>3. x = Node(f.type, f.mode, Super, f.rdev) /\ x.type = f.type /\ x.rdev = f.rdev
    <3> HIDE DEF f
    <3> QED
      BY <2>1, OwnedValueIs
  <2> HIDE DEF f, w, x
  <2>4. x.type = (IF w.type = "dir" THEN "dir" ELSE "file") /\ x.rdev = NoDev
    BY <2>1, <2>2, <2>3
  <2>5. w.type \in {"dir", "file"} /\ w.rdev = NoDev => x = w
    BY <2>1, <2>2, <2>3
  <2>6. w = Fresh => x = w
    <3>1. Fresh.type = "dir" /\ Fresh.rdev = NoDev
      BY NodeFields DEF Fresh
    <3> QED
      BY <2>5, <3>1
  <2>7. w = Home[p] => x = w
    <3> SUFFICES ASSUME w = Home[p] PROVE x = w
      OBVIOUS
    <3> DEFINE ty == Installed[p].type
               m == Installed[p].mode
    <3>1. w = Node(ty, m, Super, NoDev) /\ ty \in {"dir", "file"}
      BY <2>2, HomeIs
    <3> HIDE DEF ty, m
    <3>2. w.type = ty /\ w.rdev = NoDev
      BY <3>1, NodeFields
    <3> QED
      BY <3>1, <3>2, <2>5
  <2>8. May(t, p, w)
    BY DEF w
  <2>9. May(t, p, x)
    BY <2>2, <2>4, <2>5, <2>6, <2>7, <2>8 DEF May
  <2> QED
    BY <2>9 DEF x, f
<1> QED
  BY <1>1, <1>2

\* The same of a whole tree.
LEMMA OwnedIs ==
  ASSUME NEW T, ATree(T)
  PROVE  /\ ATree(Owned(T)) /\ ATree(Forgotten(T))
         /\ \A p \in Paths : Owned(T)[p] = OwnedValue(T[p]) /\ Forgotten(T)[p] = ForgottenValue(T[p])
<1>1. \A p \in Paths : Owned(T)[p] = OwnedValue(T[p])
  BY Zenon DEF Owned, OwnedValue
<1>2. \A p \in Paths : Forgotten(T)[p] = ForgottenValue(T[p])
  BY Zenon DEF Forgotten, ForgottenValue
<1>3. Owned(T) = [p \in Paths |-> Owned(T)[p]] /\ Forgotten(T) = [p \in Paths |-> Forgotten(T)[p]]
  BY DEF Owned, Forgotten
<1>4. \A p \in Paths : Value(OwnedValue(T[p])) /\ Value(ForgottenValue(T[p]))
  BY OwnedValueIs, ForgottenValueIs DEF ATree
<1> QED
  BY <1>1, <1>2, <1>3, <1>4 DEF ATree

LEMMA KeptOwned ==
  ASSUME NEW t \in Tables, Orderly(t), NEW T, Kept(t, T)
  PROVE  Kept(t, Owned(T))
<1>1. ATree(T) /\ \A p \in Paths : Value(T[p]) /\ May(t, p, T[p])
  BY DEF Kept, ATree
<1> QED
  BY <1>1, OwnedIs, OwnedMay DEF Kept

LEMMA KeptForgotten ==
  ASSUME NEW t \in Tables, Orderly(t), NEW T, ATree(T), Kept(t, Owned(T))
  PROVE  ATree(Forgotten(T)) /\ Kept(t, Owned(Forgotten(T)))
<1> DEFINE F == Forgotten(T)
<1>1. ATree(F) /\ \A p \in Paths : Value(T[p]) /\ F[p] = ForgottenValue(T[p]) /\ May(t, p, OwnedValue(T[p]))
  BY OwnedIs DEF Kept, ATree
<1>2. ATree(Owned(F)) /\ \A p \in Paths : Owned(F)[p] = OwnedValue(ForgottenValue(T[p]))
  <2> HIDE DEF F
  <2> QED
    BY <1>1, OwnedIs
<1>3. \A p \in Paths : May(t, p, OwnedValue(ForgottenValue(T[p])))
  BY <1>1, ForgottenMay
<1> HIDE DEF F
<1> QED
  BY <1>1, <1>2, <1>3 DEF Kept, F

(* --------------------- every image as the first one --------------------- *)

(* While makedevs runs, k lines of the table have been applied, and each    *)
(* path that no later line settles is as it was after k lines the first     *)
(* time.  The lines left start with the next one, or an unknown user has    *)
(* ended the program.                                                       *)
Written == IF tables.rootfs = <<>> THEN <<"chown", Name>> ELSE <<"chown", "makedevs", Name>>
Left(t, k, lines) ==
  \/ lines = SubSeq(FullTable(t), k + 1, Len(FullTable(t)))
  \/ lines = <<>> /\ k = Len(Lines[t])
Reading == \E k \in 0 .. Len(Lines[tables]) : AtLine(tables, k, tree) /\ Left(tables, k, devs.left)
AtCommand ==
  \/ script = Written /\ (tables.rootfs # <<>> => table = FullTable(tables))
  \/ /\ script = <<"makedevs", Name>>
     /\ tables.rootfs # <<>> /\ table = FullTable(tables)
     /\ Kept(tables, tree) /\ (devs.on => Reading)
  \/ script = <<Name>> /\ Complete(tables, tree)
Control ==
  /\ tables \in Tables
  /\ IF step = "none" THEN at = 0 ELSE at \in DOMAIN Images
  /\ step = "script" => script = <<>>
  /\ step = "fakeroot" => AtCommand
  /\ devs.on => step = "fakeroot" /\ script = <<"makedevs", Name>>
OfPackages == ATree(tree) /\ Kept(tables, Owned(tree))
AllAsFirst == \A f \in ToSet(Images) : Whole(f) => Complete(tables, image[f].tree)
ImageInv == Control /\ OfPackages /\ ImagesByName /\ AllAsFirst

\* What the theorems suppose of the tables.
AllOrderly == \A t \in Tables : Orderly(t)

\* The lines left of a table after the first k.
LEMMA RestOf ==
  ASSUME NEW X, NEW F \in Seq(X), NEW k \in 0 .. Len(F)
  PROVE  /\ SubSeq(F, 0 + 1, Len(F)) = F
         /\ SubSeq(F, k + 1, Len(F)) = <<>> => k = Len(F)
         /\ k < Len(F) =>
              /\ SubSeq(F, k + 1, Len(F))[1] = F[k + 1]
              /\ Tail(SubSeq(F, k + 1, Len(F))) = SubSeq(F, (k + 1) + 1, Len(F))
         /\ k = Len(F) => SubSeq(F, k + 1, Len(F)) = <<>>
<1>1. Len(F) \in Nat /\ k \in Nat
  OBVIOUS
<1>2. SubSeq(F, 0 + 1, Len(F)) = F
  OBVIOUS
<1>3. CASE k < Len(F)
  <2>1. SubSeq(F, k + 1, Len(F)) \in Seq(X) /\ Len(SubSeq(F, k + 1, Len(F))) = Len(F) - k
    BY <1>1, <1>3
  <2>2. SubSeq(F, k + 1, Len(F))[1] = F[k + 1]
    BY <1>1, <1>3
  <2>3. Tail(SubSeq(F, k + 1, Len(F))) = SubSeq(F, (k + 1) + 1, Len(F))
    BY <1>1, <1>3, <2>1
  <2>4. SubSeq(F, k + 1, Len(F)) # <<>>
    <3>1. Len(SubSeq(F, k + 1, Len(F))) # Len(<<>>)
      BY <1>1, <1>3, <2>1
    <3> QED
      BY <3>1, Zenon
  <2>5. k # Len(F)
    BY <1>3, <1>1
  <2> QED
    BY <1>2, <2>2, <2>3, <2>4, <2>5, Zenon
<1>4. CASE k = Len(F)
  <2>1. ~(k < Len(F))
    BY <1>1, <1>4
  <2>2. SubSeq(F, k + 1, Len(F)) = <<>>
    BY <1>1, <1>4
  <2> QED
    BY <1>2, <1>4, <2>1, <2>2, Zenon
<1>5. k < Len(F) \/ k = Len(F)
  BY <1>1
<1> QED
  BY <1>3, <1>4, <1>5, Zenon

\* One line read: the next of those left, or the one that ends the program.
LEMMA OneLineRead ==
  ASSUME NEW t \in Tables, Orderly(t), t.rootfs # <<>>, NEW k \in 0 .. Len(Lines[t]), NEW T, AtLine(t, k, T),
         NEW lines, Left(t, k, lines), lines # <<>>, NEW ok, NEW s,
         s = Line([tree |-> T, ok |-> ok, died |-> FALSE], lines[1])
  PROVE  \E j \in 0 .. Len(Lines[t]) : AtLine(t, j, s.tree) /\ Left(t, j, IF s.died THEN <<>> ELSE Tail(lines))
<1> DEFINE F == FullTable(t)
<1>1. PICK X : F \in Seq(X)
  BY FullTableIsList
<1>2. /\ Len(F) \in Nat /\ Len(Lines[t]) \in Nat /\ Len(Lines[t]) <= Len(F)
      /\ Len(Lines[t]) < Len(F) => Dies(F[Len(Lines[t]) + 1])
      /\ \A i \in 1 .. Len(Lines[t]) : Lines[t][i] = F[i]
  BY LinesAre
<1> HIDE DEF F
<1>3. lines = SubSeq(F, k + 1, Len(F)) /\ k \in 0 .. Len(F)
  BY <1>2 DEF Left, F
<1>4. k < Len(F)
  BY <1>1, <1>2, <1>3, RestOf
<1>5. lines[1] = F[k + 1] /\ Tail(lines) = SubSeq(F, (k + 1) + 1, Len(F))
  BY <1>1, <1>3, <1>4, RestOf
<1> DEFINE r == [tree |-> T, ok |-> ok, died |-> FALSE]
<1>6. Runs(r, T) /\ r.tree = T
  <2> DEFINE no == FALSE
  <2>1. r = Running(T, ok, no) /\ ~no
    BY DEF Running
  <2>2. r.tree = T
    OBVIOUS
  <2> HIDE DEF no, r
  <2> QED
    BY <2>1, <2>2 DEF Runs
<1> HIDE DEF r
<1>7. s = Line(r, F[k + 1])
  BY <1>5 DEF r
<1>8. CASE k < Len(Lines[t])
  <2> DEFINE i == k + 1
  <2>1. i \in 1 .. Len(Lines[t]) /\ Lines[t][i] = F[i] /\ k \in 0 .. Len(Lines[t]) - 1 /\ i \in 0 .. Len(Lines[t])
    BY <1>2, <1>8
  <2>2. \A p \in DirsBefore(t, i) : T[p].type = "dir"
    BY DEF AtLine, DirsMade
  <2>3. AtLine(t, i, After(t, i, T))
    BY <2>1, AtLineStep
  <2> HIDE DEF i
  <2>4. Runs(s, After(t, i, T))
    BY <1>6, <1>7, <2>1, <2>2, LineIs DEF AtLine, i
  <2>5. s.tree = After(t, i, T) /\ ~s.died
    BY <2>4 DEF Runs, Running
  <2>6. Left(t, i, Tail(lines))
    BY <1>5 DEF Left, F, i
  <2> QED
    BY <2>1, <2>3, <2>5, <2>6
<1>9. CASE k = Len(Lines[t])
  <2>1. Dies(F[k + 1])
    BY <1>2, <1>4, <1>9
  <2>2. s = [r EXCEPT !.ok = FALSE, !.died = TRUE]
    BY <1>7, <2>1 DEF Line, Dies, IsEntry
  <2>3. s.tree = T /\ s.died
    BY <2>2 DEF r
  <2>4. Left(t, k, <<>>)
    BY <1>9 DEF Left
  <2> QED
    BY <2>3, <2>4
<1>10. k < Len(Lines[t]) \/ k = Len(Lines[t])
  BY <1>2
<1> QED
  BY <1>8, <1>9, <1>10, Zenon

\* The name of an image is no command of the script.
LEMMA NameIs ==
  ASSUME at \in DOMAIN Images
  PROVE  Name \in ToSet(Images) /\ Name # "chown" /\ Name # "makedevs"
<1>1. Name \in ToSet(Images)
  BY DEF Name, ToSet
<1> QED
  BY <1>1, ImageNames

\* The first command of the script tells how far it has come.
LEMMA CommandIs ==
  ASSUME Control, step = "fakeroot"
  PROVE  /\ script = <<Name>> => Complete(tables, tree) /\ ~devs.on
         /\ script # <<>> /\ script[1] = "chown" =>
              script = Written /\ (tables.rootfs # <<>> => table = FullTable(tables)) /\ ~devs.on
         /\ script # <<>> /\ script[1] = "makedevs" =>
              /\ script = <<"makedevs", Name>> /\ tables.rootfs # <<>> /\ table = FullTable(tables)
              /\ Kept(tables, tree) /\ (devs.on => Reading)
<1>1. AtCommand /\ (devs.on => script = <<"makedevs", Name>>) /\ at \in DOMAIN Images
  BY DEF Control
<1>2. Name # "chown" /\ Name # "makedevs"
  BY <1>1, NameIs
<1>3. Written[1] = "chown" /\ Len(Written) \in {2, 3}
  BY DEF Written
<1>4. /\ <<Name>>[1] = Name /\ Len(<<Name>>) = 1
      /\ <<"makedevs", Name>>[1] = "makedevs" /\ Len(<<"makedevs", Name>>) = 2
  OBVIOUS
<1>5. script = Written => script # <<Name>> /\ script # <<"makedevs", Name>> /\ script[1] = "chown"
  BY <1>3, <1>4
<1>6. script = <<"makedevs", Name>> => script # <<Name>> /\ script[1] = "makedevs"
  BY <1>4
<1>7. script = <<Name>> => script[1] = Name
  BY <1>4
<1> QED
  BY <1>1, <1>2, <1>5, <1>6, <1>7, Zenon DEF AtCommand

\* The invariant holds before the first build,
LEMMA ImageInit ==
  ASSUME AllOrderly, Init
  PROVE  ImageInv
<1>1. tables \in Tables /\ tree = Installed /\ at = 0 /\ step = "none" /\ ~devs.on
  BY DEF Init, NotRunning
<1>2. Control
  BY <1>1 DEF Control
<1>3. ATree(Installed)
  <2>1. Installed = [p \in Paths |-> Installed[p]]
    BY TargetDirectory DEF Forgotten
  <2>2. ASSUME NEW p \in Paths PROVE Value(Installed[p])
    <3> DEFINE ty == IF Installed[p].type = "dir" THEN "dir" ELSE "file"
               m == Installed[p].mode
               u == <<"user", "user">>
    <3>1. Installed[p] = Absent \/ Installed[p] = Node(ty, m, u, NoDev)
      BY TargetDirectory DEF Forgotten
    <3>2. ty # "none"
      OBVIOUS
    <3> HIDE DEF ty, m, u
    <3>3. Value(Absent) /\ Value(Node(ty, m, u, NoDev))
      BY <3>2, NodeFields, AbsentType
    <3> QED
      BY <3>1, <3>3
  <2> QED
    BY <2>1, <2>2 DEF ATree
<1>4. Kept(tables, Home)
  BY <1>1, HomeIsKept DEF AllOrderly
<1>5. OfPackages
  BY <1>1, <1>3, <1>4 DEF OfPackages, Home
<1>6. image = [f \in ToSet(Images) |-> NoImage]
  BY DEF Init
<1>7. ImagesByName /\ \A f \in ToSet(Images) : image[f] = NoImage
  BY <1>6 DEF ImagesByName
<1>8. NoImage.state # "whole"
  BY DEF NoImage
<1> QED
  BY <1>2, <1>5, <1>7, <1>8 DEF ImageInv, AllAsFirst, Whole

\* Steps that change no image.
LEMMA ImagesSame ==
  ASSUME ImagesByName, AllAsFirst, image' = image, tables' = tables
  PROVE  ImagesByName' /\ AllAsFirst'
BY DEF ImagesByName, AllAsFirst, Whole

\* Steps that leave the one being made whole if it was, or not whole.
LEMMA ImageLost ==
  ASSUME ImagesByName, AllAsFirst, tables' = tables, at \in DOMAIN Images,
         NEW v, image' = [image EXCEPT ![Name] = v], v = image[Name] \/ v.state # "whole"
  PROVE  ImagesByName' /\ AllAsFirst'
<1>1. ImagesByName' /\ \A f \in ToSet(Images) : image'[f] = v \/ image'[f] = image[f]
  BY OneImage
<1>2. v = image[Name] => image' = image
  BY DEF ImagesByName
<1>3. CASE v = image[Name]
  BY <1>2, <1>3, ImagesSame
<1>4. CASE v.state # "whole"
  BY <1>1, <1>4 DEF AllAsFirst, Whole
<1> QED
  BY <1>3, <1>4

\* and each step keeps it: a new /init is no name of the table,
LEMMA HooksKeep ==
  ASSUME AllOrderly, ImageInv, PreGenHooks
  PROVE  ImageInv'
<1>1. /\ tables \in Tables /\ Orderly(tables) /\ at \in DOMAIN Images /\ ~devs.on
      /\ ATree(tree) /\ Kept(tables, Owned(tree)) /\ Init0 \in Paths
  BY InitPath DEF ImageInv, Control, OfPackages, AllOrderly, PreGenHooks
<1>2. step' = "rm" /\ UNCHANGED <<tables, at, builds, warning, script, table, image, devs>>
  BY DEF PreGenHooks, Goes
<1>3. Control'
  BY <1>1, <1>2 DEF Control
<1>4. ImagesByName' /\ AllAsFirst'
  BY <1>2, ImagesSame DEF ImageInv
<1>5. OfPackages'
  <2>1. CASE tree' = tree
    BY <1>1, <1>2, <2>1 DEF OfPackages
  <2>2. CASE tree' # tree
    <3> DEFINE n == Node("file", "755", <<"user", "user">>, NoDev)
    <3>1. tree[Init0] = Absent /\ tree' = [tree EXCEPT ![Init0] = n]
      BY <2>2 DEF PreGenHooks, Exists
    <3>2. Value(n)
      BY NodeFields
    <3> HIDE DEF n
    <3>3. \A p \in Paths : Value(tree[p])
      BY <1>1 DEF ATree
    <3>4. ATree(tree') /\ tree'[Init0] = n /\ \A p \in Paths \ {Init0} : tree'[p] = tree[p]
      BY <1>1, <3>1, <3>2, <3>3 DEF ATree
    <3>5. \A p \in Paths : Owned(tree')[p] = OwnedValue(tree'[p]) /\ Owned(tree)[p] = OwnedValue(tree[p])
      BY <1>1, <3>4, OwnedIs
    <3>6. \A p \in Paths : May(tables, p, Owned(tree)[p])
      BY <1>1 DEF Kept
    <3>7. Installed[Init0] = Absent
      <4>1. Owned(tree)[Init0] = Absent
        BY <1>1, <3>1, <3>5, OwnedValueIs, AbsentType
      <4>2. Init0 \notin NodePaths(tables) /\ Init0 \notin DirNames(tables)
              /\ Init0 \notin WayPaths(tables) /\ Init0 \notin FileNames(tables)
        BY <1>1, NotTwoKinds
      <4>3. Absent = Home[Init0] \/ Installed[Init0] = Absent
        BY <1>1, <3>6, <4>1, <4>2 DEF May
      <4>4. Installed[Init0] # Absent => Home[Init0] # Absent
        <5> DEFINE ty == Installed[Init0].type
                   m == Installed[Init0].mode
        <5> SUFFICES ASSUME Installed[Init0] # Absent PROVE Home[Init0] # Absent
          OBVIOUS
        <5>1. Home[Init0] = Node(ty, m, Super, NoDev) /\ ty \in {"dir", "file"}
          BY <1>1, HomeIs
        <5> HIDE DEF ty, m
        <5> QED
          BY <5>1, NodeFields
      <4> QED
        BY <4>3, <4>4
    <3>8. \A v : May(tables, Init0, v)
      <4>1. Init0 \notin NodePaths(tables) /\ Init0 \notin DirNames(tables)
              /\ Init0 \notin WayPaths(tables) /\ Init0 \notin FileNames(tables)
        BY <1>1, NotTwoKinds
      <4> QED
        BY <3>7, <4>1 DEF May
    <3>9. \A p \in Paths : May(tables, p, Owned(tree')[p])
      BY <3>4, <3>5, <3>6, <3>8
    <3>10. ATree(Owned(tree'))
      BY <3>4, OwnedIs
    <3> QED
      BY <1>2, <3>4, <3>9, <3>10 DEF OfPackages, Kept
  <2> QED
    BY <2>1, <2>2
<1> QED
  BY <1>3, <1>4, <1>5 DEF ImageInv

\* the script is written with the table as it is configured,
LEMMA ScriptKeeps ==
  ASSUME AllOrderly, ImageInv, WriteScript
  PROVE  ImageInv'
<1>1. /\ tables \in Tables /\ at \in DOMAIN Images /\ ~devs.on /\ script = <<>>
      /\ step' = "fakeroot" /\ UNCHANGED <<tables, at, builds, tree, warning, image, devs>>
  BY DEF ImageInv, Control, WriteScript, Goes
<1>2. script' = Written /\ (tables.rootfs # <<>> => table' = FullTable(tables))
  <2>1. CASE tables.rootfs = <<>>
    BY <1>1, <2>1 DEF WriteScript, Written
  <2>2. CASE tables.rootfs # <<>>
    BY <1>1, <2>2 DEF WriteScript, Written
  <2> QED
    BY <2>1, <2>2
<1>3. Written' = Written
  BY <1>1 DEF Written, Name
<1>4. AtCommand'
  BY <1>1, <1>2, <1>3 DEF AtCommand
<1>5. Control'
  BY <1>1, <1>4 DEF Control
<1>6. ImagesByName' /\ AllAsFirst'
  BY <1>1, ImagesSame DEF ImageInv
<1>7. OfPackages'
  BY <1>1 DEF ImageInv, OfPackages
<1> QED
  BY <1>5, <1>6, <1>7 DEF ImageInv

\* every path is given to root, which is all when there is no table,
LEMMA ChownKeeps ==
  ASSUME AllOrderly, ImageInv, ChownAll
  PROVE  ImageInv'
<1>1. /\ tables \in Tables /\ Orderly(tables) /\ at \in DOMAIN Images
      /\ step = "fakeroot" /\ script # <<>> /\ script[1] = "chown"
      /\ step' = "fakeroot" /\ script' = Tail(script)
      /\ UNCHANGED <<tables, at, builds, warning, table, image, devs>>
  BY DEF ImageInv, Control, AllOrderly, ChownAll, Commanded, Goes
<1>2. script = Written /\ (tables.rootfs # <<>> => table = FullTable(tables)) /\ ~devs.on
  BY <1>1, CommandIs DEF ImageInv
<1>3. tree' = Owned(tree)
  BY Zenon DEF ChownAll, Owned
<1>4. Kept(tables, tree') /\ ATree(tree') /\ Kept(tables, Owned(tree'))
  <2>1. Kept(tables, tree') /\ ATree(tree')
    BY <1>3 DEF ImageInv, OfPackages, Kept
  <2> QED
    BY <1>1, <2>1, KeptOwned
<1>5. AtCommand'
  <2>1. Name' = Name
    BY <1>1 DEF Name
  <2>2. CASE tables.rootfs = <<>>
    <3>1. script' = <<Name>>
      BY <1>1, <1>2, <2>2 DEF Written
    <3>2. Len(Lines[tables]) = 0
      <4>1. Lines[tables] = <<>>
        BY <1>1, <2>2, LinesAre
      <4> QED
        BY <4>1
    <3>3. AtLine(tables, 0, tree')
      BY <1>1, <1>4, AtLineFirst
    <3>4. Complete(tables, tree')
      BY <1>1, <3>2, <3>3, AtLineLast
    <3> QED
      BY <1>1, <2>1, <3>1, <3>4 DEF AtCommand
  <2>3. CASE tables.rootfs # <<>>
    <3>1. script' = <<"makedevs", Name>>
      BY <1>1, <1>2, <2>3 DEF Written
    <3> QED
      BY <1>1, <1>2, <1>4, <2>1, <2>3, <3>1 DEF AtCommand
  <2> QED
    BY <2>2, <2>3
<1>6. Control'
  BY <1>1, <1>2, <1>5 DEF Control
<1>7. ImagesByName' /\ AllAsFirst'
  BY <1>1, ImagesSame DEF ImageInv
<1>8. OfPackages'
  BY <1>1, <1>4 DEF OfPackages
<1> QED
  BY <1>6, <1>7, <1>8 DEF ImageInv

\* The commands of makedevs, and what they leave as it is.
LEMMA AtMakedevs ==
  ASSUME AllOrderly, ImageInv, Commanded("makedevs"), Goes("fakeroot"), image' = image, table' = table
  PROVE  /\ tables \in Tables /\ Orderly(tables) /\ at \in DOMAIN Images
         /\ script = <<"makedevs", Name>> /\ tables.rootfs # <<>> /\ table = FullTable(tables)
         /\ Kept(tables, tree) /\ (devs.on => Reading)
         /\ step' = "fakeroot" /\ tables' = tables /\ at' = at /\ Name' = Name
         /\ ImagesByName' /\ AllAsFirst'
<1>1. /\ tables \in Tables /\ Orderly(tables) /\ at \in DOMAIN Images
      /\ step = "fakeroot" /\ script # <<>> /\ script[1] = "makedevs"
      /\ step' = "fakeroot" /\ tables' = tables /\ at' = at
  BY DEF ImageInv, Control, AllOrderly, Commanded, Goes
<1>2. /\ script = <<"makedevs", Name>> /\ tables.rootfs # <<>> /\ table = FullTable(tables)
      /\ Kept(tables, tree) /\ (devs.on => Reading)
  BY <1>1, CommandIs DEF ImageInv
<1>3. ImagesByName' /\ AllAsFirst'
  BY <1>1, ImagesSame DEF ImageInv
<1> QED
  BY <1>1, <1>2, <1>3 DEF Name

\* makedevs starts with all of the lines,
LEMMA StartKeeps ==
  ASSUME AllOrderly, ImageInv, StartMakedevs
  PROVE  ImageInv'
<1>1. /\ Commanded("makedevs") /\ Goes("fakeroot") /\ image' = image /\ table' = table
      /\ devs' = [left |-> table, ok |-> TRUE, on |-> TRUE] /\ tree' = tree /\ script' = script
  BY DEF StartMakedevs
<1>2. /\ tables \in Tables /\ Orderly(tables) /\ at \in DOMAIN Images
      /\ script = <<"makedevs", Name>> /\ tables.rootfs # <<>> /\ table = FullTable(tables)
      /\ Kept(tables, tree)
      /\ step' = "fakeroot" /\ tables' = tables /\ at' = at /\ Name' = Name
      /\ ImagesByName' /\ AllAsFirst'
  BY <1>1, AtMakedevs
<1>3. devs'.left = FullTable(tables) /\ devs'.on
  BY <1>1, <1>2
<1>4. Left(tables, 0, FullTable(tables))
  <2>1. PICK X : FullTable(tables) \in Seq(X)
    BY <1>2, FullTableIsList
  <2> QED
    BY <2>1, RestOf DEF Left
<1>5. AtLine(tables, 0, tree) /\ 0 \in 0 .. Len(Lines[tables])
  BY <1>2, AtLineFirst, LinesAre
<1>6. Reading'
  BY <1>1, <1>2, <1>3, <1>4, <1>5 DEF Reading
<1>7. AtCommand'
  BY <1>1, <1>2, <1>6 DEF AtCommand
<1>8. Control'
  BY <1>1, <1>2, <1>7 DEF Control
<1>9. OfPackages'
  BY <1>1, <1>2 DEF ImageInv, OfPackages
<1> QED
  BY <1>2, <1>8, <1>9 DEF ImageInv

\* reads one of them,
LEMMA LineKeeps ==
  ASSUME AllOrderly, ImageInv, ReadLine
  PROVE  ImageInv'
<1>1. /\ Commanded("makedevs") /\ Goes("fakeroot") /\ image' = image /\ table' = table
      /\ devs.on /\ devs.left # <<>> /\ script' = script
  BY DEF ReadLine
<1>2. /\ tables \in Tables /\ Orderly(tables) /\ at \in DOMAIN Images
      /\ script = <<"makedevs", Name>> /\ tables.rootfs # <<>> /\ table = FullTable(tables)
      /\ Reading
      /\ step' = "fakeroot" /\ tables' = tables /\ at' = at /\ Name' = Name
      /\ ImagesByName' /\ AllAsFirst'
  BY <1>1, AtMakedevs
<1>3. PICK s : /\ s = Line([tree |-> tree, ok |-> devs.ok, died |-> FALSE], devs.left[1])
               /\ tree' = s.tree
               /\ devs' = [left |-> IF s.died THEN <<>> ELSE Tail(devs.left), ok |-> s.ok, on |-> TRUE]
  BY Zenon DEF ReadLine
<1>4. PICK k \in 0 .. Len(Lines[tables]) : AtLine(tables, k, tree) /\ Left(tables, k, devs.left)
  BY <1>2 DEF Reading
<1>5. PICK j \in 0 .. Len(Lines[tables]) :
        AtLine(tables, j, s.tree) /\ Left(tables, j, IF s.died THEN <<>> ELSE Tail(devs.left))
  <2> DEFINE lines == devs.left
             ok == devs.ok
  <2>1. lines # <<>> /\ Left(tables, k, lines) /\ s = Line([tree |-> tree, ok |-> ok, died |-> FALSE], lines[1])
    BY <1>1, <1>3, <1>4
  <2> HIDE DEF lines, ok
  <2>2. \E j \in 0 .. Len(Lines[tables]) : AtLine(tables, j, s.tree) /\ Left(tables, j, IF s.died THEN <<>> ELSE Tail(lines))
    BY <1>2, <1>4, <2>1, OneLineRead
  <2> QED
    BY <2>2 DEF lines
<1>6. devs'.left = (IF s.died THEN <<>> ELSE Tail(devs.left)) /\ devs'.on
  BY <1>3
<1>7. Reading' /\ Kept(tables, tree')
  BY <1>2, <1>3, <1>5, <1>6 DEF Reading, AtLine
<1>8. AtCommand'
  BY <1>1, <1>2, <1>7 DEF AtCommand
<1>9. Control'
  BY <1>1, <1>2, <1>8 DEF Control
<1>10. OfPackages'
  BY <1>2, <1>7, KeptOwned DEF OfPackages, Kept
<1> QED
  BY <1>2, <1>9, <1>10 DEF ImageInv

\* and ends when it has read those it comes to.
LEMMA EndKeeps ==
  ASSUME AllOrderly, ImageInv, EndMakedevs
  PROVE  ImageInv'
<1>1. /\ Commanded("makedevs") /\ Goes("fakeroot") /\ image' = image /\ table' = table
      /\ devs.on /\ devs.left = <<>> /\ script' = Tail(script) /\ tree' = tree /\ devs' = NotRunning
  BY DEF EndMakedevs
<1>2. /\ tables \in Tables /\ Orderly(tables) /\ at \in DOMAIN Images
      /\ script = <<"makedevs", Name>> /\ tables.rootfs # <<>>
      /\ Reading
      /\ step' = "fakeroot" /\ tables' = tables /\ at' = at /\ Name' = Name
      /\ ImagesByName' /\ AllAsFirst'
  BY <1>1, AtMakedevs
<1>3. PICK k \in 0 .. Len(Lines[tables]) : AtLine(tables, k, tree) /\ Left(tables, k, devs.left)
  BY <1>2 DEF Reading
<1>4. k = Len(Lines[tables])
  <2>1. PICK X : FullTable(tables) \in Seq(X)
    BY <1>2, FullTableIsList
  <2>2. Len(Lines[tables]) \in Nat /\ Len(FullTable(tables)) \in Nat /\ Len(Lines[tables]) <= Len(FullTable(tables))
    BY <1>2, LinesAre
  <2>3. k \in 0 .. Len(FullTable(tables)) /\ k <= Len(Lines[tables])
    BY <2>2
  <2>4. SubSeq(FullTable(tables), k + 1, Len(FullTable(tables))) = <<>> => k = Len(FullTable(tables))
    BY <2>1, <2>3, RestOf
  <2> QED
    BY <1>1, <1>3, <2>2, <2>3, <2>4 DEF Left
<1>5. Complete(tables, tree)
  BY <1>2, <1>3, <1>4, AtLineLast
<1>6. script' = <<Name>>
  BY <1>1, <1>2
<1>7. AtCommand'
  BY <1>1, <1>2, <1>5, <1>6 DEF AtCommand
<1>8. ~devs'.on
  BY <1>1 DEF NotRunning
<1>9. Control'
  BY <1>2, <1>7, <1>8 DEF Control
<1>10. OfPackages'
  BY <1>1, <1>2 DEF ImageInv, OfPackages
<1> QED
  BY <1>2, <1>9, <1>10 DEF ImageInv

\* The image is made of a tree to which all of the table has been applied.
LEMMA MakeImageKeeps ==
  ASSUME AllOrderly, ImageInv, MakeImage
  PROVE  ImageInv'
<1>1. /\ tables \in Tables /\ Orderly(tables) /\ at \in DOMAIN Images /\ step = "fakeroot" /\ script = <<Name>>
      /\ step' = "restore" /\ UNCHANGED <<tables, at, builds, devs>>
      /\ image' = [image EXCEPT ![Name] = Made(tree, warning)] /\ tree' = Forgotten(tree)
  BY DEF ImageInv, Control, AllOrderly, MakeImage, Goes
<1>2. Complete(tables, tree) /\ ~devs.on
  BY <1>1, CommandIs DEF ImageInv
<1>3. Control'
  BY <1>1, <1>2 DEF Control
<1>4. OfPackages'
  BY <1>1, KeptForgotten DEF ImageInv, OfPackages
<1>5. ImagesByName' /\ AllAsFirst'
  <2> DEFINE v == Made(tree, warning)
  <2>1. v.tree = tree
    BY DEF Made
  <2> HIDE DEF v
  <2>2. ImagesByName' /\ \A f \in ToSet(Images) : image'[f] = v \/ image'[f] = image[f]
    BY <1>1, OneImage DEF ImageInv, v
  <2> QED
    BY <1>1, <1>2, <2>1, <2>2 DEF ImageInv, AllAsFirst, Whole
<1> QED
  BY <1>3, <1>4, <1>5 DEF ImageInv

\* Where make stops, the directory is as fakeroot leaves it.
LEMMA StoppedKeeps ==
  ASSUME AllOrderly, ImageInv, Stopped
  PROVE  Control' /\ OfPackages' /\ tables' = tables
<1>1. /\ tables \in Tables /\ Orderly(tables) /\ at' = 0 /\ step' = "none" /\ tables' = tables /\ devs' = NotRunning
      /\ tree' = Forgotten(tree) \/ tree' = tree
  BY DEF ImageInv, Control, AllOrderly, Stopped
<1>2. ~devs'.on
  BY <1>1 DEF NotRunning
<1>3. Control'
  BY <1>1, <1>2 DEF Control
<1>4. OfPackages'
  BY <1>1, KeptForgotten DEF ImageInv, OfPackages
<1> QED
  BY <1>1, <1>3, <1>4

\* The command of the image may fail,
LEMMA FailureKeeps ==
  ASSUME AllOrderly, ImageInv, ImageFails
  PROVE  ImageInv'
<1>1. /\ at \in DOMAIN Images /\ Stopped
      /\ image' = [image EXCEPT ![Name] = Partial]
  BY DEF ImageInv, Control, ImageFails
<1>2. Control' /\ OfPackages' /\ tables' = tables
  BY <1>1, StoppedKeeps
<1>3. Partial.state # "whole"
  BY DEF Partial
<1>4. ImagesByName' /\ AllAsFirst'
  BY <1>1, <1>2, <1>3, ImageLost DEF ImageInv
<1> QED
  BY <1>2, <1>4 DEF ImageInv

\* or an interrupt may come at any step.
LEMMA InterruptKeeps ==
  ASSUME AllOrderly, ImageInv, Interrupt
  PROVE  ImageInv'
<1>1. at \in DOMAIN Images /\ Stopped /\ \E left \in CutShort : image' = [image EXCEPT ![Name] = left]
  BY DEF Interrupt, ImageInv, Control
<1>2. PICK left \in CutShort : image' = [image EXCEPT ![Name] = left]
  BY <1>1
<1>3. left = image[Name] \/ left.state # "whole"
  BY <1>2 DEF CutShort, Partial, NoImage
<1>4. Control' /\ OfPackages' /\ tables' = tables
  BY <1>1, StoppedKeeps
<1>5. ImagesByName' /\ AllAsFirst'
  BY <1>1, <1>2, <1>3, <1>4, ImageLost DEF ImageInv
<1> QED
  BY <1>4, <1>5 DEF ImageInv

\* Steps between two images, and before the next.
LEMMA OtherKeeps ==
  ASSUME AllOrderly, ImageInv, make \/ RemoveOld \/ Restore \/ UNCHANGED vars
  PROVE  ImageInv'
<1>1. UNCHANGED <<tables, tree, image, devs>> /\ tables \in Tables
  BY DEF ImageInv, Control, make, RemoveOld, Restore, Goes, vars
<1>2. ImagesByName' /\ AllAsFirst' /\ OfPackages'
  BY <1>1, ImagesSame DEF ImageInv, OfPackages
<1>3. 1 \in DOMAIN Images /\ DOMAIN Images = 1 .. Len(Images) /\ Len(Images) \in Nat
  BY ImageNames
<1>4. ASSUME make PROVE Control'
  BY <1>1, <1>3, <1>4 DEF ImageInv, Control, make
<1>5. ASSUME RemoveOld PROVE Control'
  BY <1>1, <1>5 DEF ImageInv, Control, RemoveOld, Goes
<1>6. ASSUME Restore PROVE Control'
  BY <1>1, <1>3, <1>6 DEF ImageInv, Control, Restore, Finish
<1>7. ASSUME UNCHANGED vars PROVE Control'
  <2>1. UNCHANGED <<Name, script, table, step, at>>
    BY <1>7 DEF vars, Name
  <2>2. AtCommand' <=> AtCommand
    BY <1>1, <2>1 DEF AtCommand, Reading, Written
  <2> QED
    BY <1>1, <2>1, <2>2 DEF ImageInv, Control
<1> QED
  BY <1>2, <1>4, <1>5, <1>6, <1>7 DEF ImageInv

\* Those are all the steps.
LEMMA ImageStep ==
  ASSUME AllOrderly, ImageInv, [Next]_vars
  PROVE  ImageInv'
BY HooksKeep, ScriptKeeps, ChownKeeps, StartKeeps, LineKeeps, EndKeeps, MakeImageKeeps, FailureKeeps,
   InterruptKeeps, OtherKeeps DEF Next, Recipe

(* Whatever builds came before, wherever they failed or were cut short, an  *)
(* image that was made has the files of the packages with the table applied *)
(* to them once, and not the warning (common.mk:46-60), for every table in  *)
(* which each name is of one kind and the directory of a device comes       *)
(* before it.                                                               *)
THEOREM EveryImageAsFirst ==
  ASSUME \A t \in Tables : Orderly(t)
  PROVE  Spec => []ImageAsFirst
<1>1. AllOrderly
  BY DEF AllOrderly
<1>2. Init => ImageInv
  BY <1>1, ImageInit
<1>3. ImageInv /\ [Next]_vars => ImageInv'
  BY <1>1, ImageStep
<1>4. Init => WarningInv
  BY WarningInit
<1>5. WarningInv /\ [Next]_vars => WarningInv'
  BY WarningStep
<1>6. WarningInv /\ ImageInv => ImageAsFirst
  BY DEF WarningInv, ImageInv, AllAsFirst, Complete, ImageAsFirst
<1> QED
  BY <1>2, <1>3, <1>4, <1>5, <1>6, PTL DEF Spec

(* --------------------- what the table says of a name -------------------- *)

\* The device of a name is the one the usage message promises.
LEMMA DevIsRdev ==
  ASSUME NEW t \in Tables, Orderly(t), MinorsFit(t), NEW i \in 1 .. Len(Lines[t]), IsEntry(Lines[t][i]),
         Lines[t][i].type \notin {"d", "f"}, NEW p \in Named(Lines[t][i])
  PROVE  DevOf(Lines[t][i], p) = RdevOf(Lines[t][i], p)
<1> DEFINE l == Lines[t][i]
<1>1. OrdinaryEntry(l) /\ i \in EntriesOf(t, {"p", "c", "b"})
  BY EntryOf
<1>2. l.minor + (l.count - 1) * l.increment < Word
  BY <1>1 DEF MinorsFit
<1> HIDE DEF l
<1>3. l.minor \in Nat /\ l.increment \in Nat /\ l.count \in Nat /\ l.start \in Nat /\ l.type \notin {"d", "f"} /\ p \in Named(l)
  BY <1>1 DEF OrdinaryEntry, l
<1>4. CASE l.count = 0
  BY <1>3, <1>4 DEF DevOf, RdevOf, l
<1>5. CASE l.count # 0
  <2> DEFINE c == l.count
             name(j) == Numbered[<<l.name, l.start + j>>]
             minor(j) == l.minor + j * l.increment
             D == {<<l.major, minor(j)>> : j \in 0 .. c - 1}
             x == IndexOf(l, p)
  <2>1. \E j \in 0 .. c - 1 : p = name(j)
    BY <1>3, <1>5 DEF Named
  <2>2. x \in 0 .. c - 1 /\ p = name(x)
    BY <2>1 DEF IndexOf
  <2>3. \A j \in 0 .. c - 1 : p = name(j) => j = x
    BY <1>1, <2>2 DEF OrdinaryEntry
  <2>4. MinorOf(l, x) = minor(x)
    <3> HIDE DEF x
    <3> QED
      BY <1>2, <1>3, <2>2, MinorOfSeries
  <2>5. DevOf(l, p) = <<l.major, minor(x)>>
    <3> HIDE DEF minor
    <3> QED
      BY <1>5, <2>4 DEF DevOf
  <2>6. RdevOf(l, p) = CHOOSE d \in D : \E j \in 0 .. c - 1 : p = name(j) /\ d[2] = minor(j)
    BY <1>3, <1>5, Zenon DEF RdevOf
  <2> HIDE DEF x, name, minor
  <2>7. <<l.major, minor(x)>> \in D /\ \E j \in 0 .. c - 1 : p = name(j) /\ <<l.major, minor(x)>>[2] = minor(j)
    BY <2>2
  <2>8. ASSUME NEW d \in D, \E j \in 0 .. c - 1 : p = name(j) /\ d[2] = minor(j)
        PROVE  d = <<l.major, minor(x)>>
    <3>1. d[2] = minor(x)
      BY <2>3, <2>8
    <3>2. PICK j \in 0 .. c - 1 : d = <<l.major, minor(j)>>
      OBVIOUS
    <3>3. minor(j) = minor(x)
      BY <3>1, <3>2
    <3> QED
      BY <3>2, <3>3
  <2> HIDE DEF D
  <2>9. RdevOf(l, p) = <<l.major, minor(x)>>
    BY <2>6, <2>7, <2>8
  <2> QED
    BY <2>5, <2>9 DEF l
<1> QED
  BY <1>4, <1>5

\* What line i says of p.
Wanted(t, i, p) == LET l == Lines[t][i] IN Node(TypeOfLine(l), l.mode, l.owner, RdevOf(l, p))

\* A name in the table is a path, and not /init.
LEMMA NamedIs ==
  ASSUME NEW t \in Tables, Orderly(t), NEW i \in 1 .. Len(Lines[t]), IsEntry(Lines[t][i]), NEW p \in Named(Lines[t][i])
  PROVE  p \in Paths \ {Init0}
<1> DEFINE l == Lines[t][i]
<1>1. OrdinaryEntry(l)
  BY EntryOf
<1>2. p \in Paths
  BY <1>1 DEF OrdinaryEntry
<1>3. p \in DirNames(t) \cup FileNames(t) \cup NodePaths(t)
  BY EntryOf
<1> QED
  BY <1>2, <1>3, NotTwoKinds

\* The line itself gives a name what it says.
LEMMA NamedGets ==
  ASSUME NEW t \in Tables, Orderly(t), MinorsFit(t), NEW i \in 1 .. Len(Lines[t]), IsEntry(Lines[t][i]),
         NEW p \in Named(Lines[t][i]), ~(Lines[t][i].type = "f" /\ Installed[p] = Absent),
         NEW v, Value(v), May(t, p, v)
  PROVE  Effect(Lines[t][i], p, v) = Wanted(t, i, p) /\ Wanted(t, i, p) # Absent
<1> DEFINE l == Lines[t][i]
<1>1. p \in Paths
  BY NamedIs
<1>2. Wanted(t, i, p) = Node(TypeOfLine(l), l.mode, l.owner, RdevOf(l, p))
  BY DEF Wanted
<1>3. CASE l.type = "d"
  <2>1. p = l.name
    BY <1>3, EntryOf
  <2>2. Effect(l, p, v) = Node("dir", l.mode, l.owner, NoDev)
    BY <1>1, <1>3, <2>1, DirEffectIs
  <2>3. TypeOfLine(l) = "dir" /\ RdevOf(l, p) = NoDev
    BY <1>3 DEF TypeOfLine, RdevOf
  <2> HIDE DEF l
  <2>4. Node("dir", l.mode, l.owner, NoDev) # Absent
    BY NodeFields
  <2> QED
    BY <1>2, <2>2, <2>3, <2>4 DEF l
<1>4. CASE l.type = "f"
  <2>1. p = l.name /\ Installed[p] # Absent
    BY <1>4, EntryOf
  <2>2. Effect(l, p, v) = Node("file", l.mode, l.owner, NoDev)
    BY <1>1, <1>4, <2>1, FileEffectIs
  <2>3. TypeOfLine(l) = "file" /\ RdevOf(l, p) = NoDev
    BY <1>4 DEF TypeOfLine, RdevOf
  <2> HIDE DEF l
  <2>4. Node("file", l.mode, l.owner, NoDev) # Absent
    BY NodeFields
  <2> QED
    BY <1>2, <2>2, <2>3, <2>4 DEF l
<1>5. CASE l.type \notin {"d", "f"}
  <2>1. Effect(l, p, v) = Node(l.type, l.mode, l.owner, DevOf(l, p)) /\ l.type \in {"p", "c", "b"}
    BY <1>1, <1>5, NodeEffectIs
  <2>2. DevOf(l, p) = RdevOf(l, p)
    BY <1>5, DevIsRdev
  <2>3. TypeOfLine(l) = l.type
    BY <1>5 DEF TypeOfLine
  <2> DEFINE d == RdevOf(l, p)
             ty == l.type
  <2> HIDE DEF l, d, ty
  <2>4. ty # "none"
    BY <2>1 DEF ty
  <2>5. Node(ty, l.mode, l.owner, d) # Absent
    BY <2>4, NodeFields
  <2> QED
    BY <1>2, <2>1, <2>2, <2>3, <2>5 DEF l, d, ty
<1> QED
  BY <1>3, <1>4, <1>5

\* A line that does not name a path leaves it, unless it was not there.
LEMMA OthersLeave ==
  ASSUME NEW t \in Tables, Orderly(t), NEW j \in 1 .. Len(Lines[t]), NEW p \in Paths,
         IsEntry(Lines[t][j]) => p \notin Named(Lines[t][j]),
         NEW v, Value(v), May(t, p, v), v # Absent
  PROVE  Effect(Lines[t][j], p, v) = v
<1> DEFINE l == Lines[t][j]
<1>1. CASE ~IsEntry(l)
  BY <1>1 DEF Effect
<1>2. CASE IsEntry(l) /\ l.type = "d"
  <2>1. p # l.name
    BY <1>2, EntryOf
  <2> QED
    BY <1>2, <2>1, DirEffectIs
<1>3. CASE IsEntry(l) /\ l.type = "f"
  <2>1. p # l.name
    BY <1>3, EntryOf
  <2> QED
    BY <1>3, <2>1, FileEffectIs
<1>4. CASE IsEntry(l) /\ l.type \notin {"d", "f"}
  BY <1>4, NodeEffectIs
<1> QED
  BY <1>1, <1>2, <1>3, <1>4

\* The last line to name a path has the last word.
LEMMA LastLineWins ==
  ASSUME NEW t \in Tables, Orderly(t), MinorsFit(t), NEW i \in 1 .. Len(Lines[t]), IsEntry(Lines[t][i]),
         NEW p \in LastToName(Lines[t], i), ~(Lines[t][i].type = "f" /\ Installed[p] = Absent)
  PROVE  FromInstalled[t][p] = Wanted(t, i, p)
<1> DEFINE n == Len(Lines[t])
           R(k) == Ideal(t)[k].tree
           w == Wanted(t, i, p)
           G == {m \in Nat : i + m <= n => R(i + m)[p] = w /\ w # Absent}
<1>1. n \in Nat /\ i \in Nat
  BY LinesAre
<1>2. p \in Named(Lines[t][i]) /\ p \in Paths
  BY NamedIs DEF LastToName
<1>3. \A j \in i + 1 .. n : IsEntry(Lines[t][j]) => p \notin Named(Lines[t][j])
  BY DEF LastToName
<1>4. ASSUME NEW k \in 0 .. n, k < n
      PROVE  /\ Value(R(k)[p]) /\ May(t, p, R(k)[p])
             /\ R(k + 1)[p] = Effect(Lines[t][k + 1], p, R(k)[p])
  <2>1. Kept(t, R(k)) /\ R(k + 1) = After(t, k + 1, R(k))
    BY <1>4, IdealIs DEF IdealAt
  <2> HIDE DEF R
  <2> QED
    BY <2>1, <1>2 DEF Kept, ATree, After
<1>5. 0 \in G
  <2>1. i - 1 \in 0 .. n /\ i - 1 < n /\ (i - 1) + 1 = i /\ i + 0 = i
    BY <1>1
  <2> DEFINE v == R(i - 1)[p]
  <2>2. Value(v) /\ May(t, p, v) /\ R(i)[p] = Effect(Lines[t][i], p, v)
    <3> HIDE DEF R
    <3>1. /\ Value(R(i - 1)[p]) /\ May(t, p, R(i - 1)[p])
          /\ R((i - 1) + 1)[p] = Effect(Lines[t][(i - 1) + 1], p, R(i - 1)[p])
      BY <2>1, <1>4
    <3> QED
      BY <3>1, <2>1
  <2> HIDE DEF v, R
  <2>3. R(i)[p] = w /\ w # Absent
    BY <1>2, <2>2, NamedGets
  <2> HIDE DEF w
  <2> QED
    BY <2>1, <2>3
<1>6. ASSUME NEW m \in G PROVE m + 1 \in G
  <2>1. m \in Nat /\ m + 1 \in Nat
    OBVIOUS
  <2> SUFFICES ASSUME i + (m + 1) <= n PROVE R(i + (m + 1))[p] = w /\ w # Absent
    BY <2>1
  <2> DEFINE k == i + m
             j == k + 1
             v == R(k)[p]
  <2>2. k \in 0 .. n /\ k < n /\ j \in 1 .. n /\ j \in i + 1 .. n /\ i + (m + 1) = j
    BY <1>1, <2>1
  <2>3. v = w /\ w # Absent
    <3> HIDE DEF R, w
    <3> QED
      BY <1>6, <2>1, <2>2
  <2>4. Value(v) /\ May(t, p, v) /\ R(j)[p] = Effect(Lines[t][j], p, v)
    <3> HIDE DEF k, R
    <3> QED
      BY <2>2, <1>4
  <2>5. IsEntry(Lines[t][j]) => p \notin Named(Lines[t][j])
    BY <2>2, <1>3
  <2> HIDE DEF v, j, k, R, w
  <2>6. Effect(Lines[t][j], p, v) = v
    BY <2>2, <2>3, <2>4, <2>5, <1>2, OthersLeave
  <2> QED
    BY <2>2, <2>3, <2>4, <2>6
<1>7. G = Nat
  <2>1. G \subseteq Nat
    OBVIOUS
  <2> HIDE DEF G
  <2> QED
    BY <1>5, <1>6, <2>1, SetInduction
<1>8. R(n)[p] = w
  <2>1. n - i \in Nat /\ i + (n - i) = n /\ n - i \in G
    <3>1. n - i \in Nat /\ i + (n - i) = n
      BY <1>1
    <3> HIDE DEF G
    <3> QED
      BY <1>7, <3>1
  <2> HIDE DEF R, w
  <2> QED
    BY <2>1, <1>1
<1> QED
  BY <1>8, IdealExists DEF IsIdeal

(* Every name a line of the table stands for is in a whole image with the   *)
(* type, mode, owner and device of the last line that names it              *)
(* (makedevs.c:312-349, 477-532), for every table of that kind whose series *)
(* have no more devices than there are minor numbers.                       *)
THEOREM ImagesHaveTheTable ==
  ASSUME \A t \in Tables : Orderly(t) /\ MinorsFit(t)
  PROVE  Spec => []TableApplied
<1>1. AllOrderly
  BY DEF AllOrderly
<1>2. Init => ImageInv
  BY <1>1, ImageInit
<1>3. ImageInv /\ [Next]_vars => ImageInv'
  BY <1>1, ImageStep
<1>4. ImageInv => TableApplied
  <2> SUFFICES ASSUME ImageInv, NEW f \in ToSet(Images), Whole(f), NEW i \in DOMAIN Lines[tables], IsEntry(Lines[tables][i]),
                      NEW p \in LastToName(Lines[tables], i),
                      ~(Lines[tables][i].type = "f" /\ Installed[p] = Absent)
               PROVE  image[f].tree[p] = Wanted(tables, i, p)
    BY DEF TableApplied, Wanted
  <2>1. tables \in Tables /\ Orderly(tables) /\ MinorsFit(tables) /\ Complete(tables, image[f].tree)
    BY <1>1 DEF ImageInv, Control, AllAsFirst
  <2>2. i \in 1 .. Len(Lines[tables])
    BY <2>1, LinesAre
  <2>3. p \in Paths \ {Init0}
    BY <2>1, <2>2, NamedIs DEF LastToName
  <2>4. FromInstalled[tables][p] = Wanted(tables, i, p)
    BY <2>1, <2>2, LastLineWins
  <2> QED
    BY <2>1, <2>3, <2>4 DEF Complete
<1> QED
  BY <1>2, <1>3, <1>4, PTL DEF Spec
=============================================================================
