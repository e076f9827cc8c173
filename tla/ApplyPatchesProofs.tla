------------------------- MODULE ApplyPatchesProofs -------------------------
(***************************************************************************)
(* What apply-patches.sh does for every layout of the directories, however *)
(* deep, and however often it is run, fails and is interrupted.            *)
(***************************************************************************)
EXTENDS ApplyPatches, SequenceTheorems, TLAPS

(* ------------------------------- the types ------------------------------ *)

LEMMA LayoutFacts ==
  ASSUME TypeOK, layout \in Layouts, NEW d \in Dir
  PROVE  /\ layout[d] \in Contents /\ Sound(layout[d])
         /\ layout[d].list \in Seq(Name)
         /\ Frame(d) \in Call
         /\ Held(d) \subseteq Name
<1>1. layout[d] \in Contents /\ Sound(layout[d])
  BY ApplyPatchesAssumption
<1>2. layout[d].list \in Seq(Name) /\ layout[d].series \in BOOLEAN /\ layout[d].files \subseteq Name
  BY <1>1 DEF Contents
<1>3. QED
  BY <1>1, <1>2 DEF Frame, Call, Held

\* The calls of scan_patchdir when the innermost one has taken its next name.
LEMMA RestFacts ==
  ASSUME TypeOK, AtEntry
  PROVE  /\ Rest \in Seq(Call) /\ Rest # <<>>
         /\ Head(Rest) = [Head(stack) EXCEPT !.todo = Tail(Head(stack).todo)]
         /\ Tail(Rest) = Tail(stack)
         /\ Head(stack) \in Call
         /\ Current \in Name
<1>1. stack \in Seq(Call) /\ stack # <<>>
  BY DEF TypeOK, AtEntry
<1>2. Head(stack) \in Call /\ Tail(stack) \in Seq(Call)
  BY <1>1, HeadTailProperties
<1>3. Head(stack).todo \in Seq(Name) /\ Head(stack).todo # <<>>
  BY <1>2 DEF Call, AtEntry
<1>4. Current \in Name /\ Tail(Head(stack).todo) \in Seq(Name)
  BY <1>3, HeadTailProperties DEF Current
<1> DEFINE h == [Head(stack) EXCEPT !.todo = Tail(Head(stack).todo)]
<1>5. h \in Call
  BY <1>2, <1>4 DEF Call
<1>6. Rest = <<h>> \o Tail(stack)
  BY DEF Rest
<1> HIDE DEF h
<1>7. <<h>> \in Seq(Call) /\ Len(<<h>>) = 1 /\ <<h>>[1] = h
  BY <1>5
<1>8. /\ Rest \in Seq(Call) /\ Len(Rest) = 1 + Len(Tail(stack))
      /\ \A i \in 1 .. 1 + Len(Tail(stack)) : Rest[i] = IF i <= 1 THEN <<h>>[i] ELSE Tail(stack)[i - 1]
  BY <1>2, <1>6, <1>7, ConcatProperties
<1>9. Len(Tail(stack)) \in Nat
  BY <1>2, LenProperties
<1>10. Rest # <<>>
  BY <1>8, <1>9, EmptySeq
<1>11. Head(Rest) = h
  BY <1>7, <1>8, <1>9, <1>10
<1>12. Tail(Rest) = Tail(stack)
  <2>1. /\ Tail(Rest) \in Seq(Call) /\ Len(Tail(Rest)) = Len(Tail(stack))
        /\ \A i \in 1 .. Len(Tail(Rest)) : Tail(Rest)[i] = Rest[i + 1]
    BY <1>8, <1>9, <1>10, HeadTailProperties
  <2>2. \A i \in 1 .. Len(Tail(Rest)) : Tail(Rest)[i] = Tail(stack)[i]
    BY <2>1, <1>8, <1>9
  <2> QED
    BY <1>2, <2>1, <2>2, SeqEqual
<1> QED
  BY <1>2, <1>4, <1>8, <1>10, <1>11, <1>12 DEF h

\* The same with a call for the directory e on top of it.
LEMMA EnterFacts ==
  ASSUME TypeOK, layout \in Layouts, AtEntry, NEW e \in Dir
  PROVE  LET s == << Frame(e) >> \o Rest IN
         /\ s \in Seq(Call) /\ s # <<>>
         /\ Head(s) = Frame(e)
         /\ Tail(s) = Rest
<1> DEFINE s == << Frame(e) >> \o Rest
           f == Frame(e)
<1>1. f \in Call /\ Rest \in Seq(Call)
  BY LayoutFacts, RestFacts
<1>0. s = <<f>> \o Rest
  OBVIOUS
<1> HIDE DEF s, f
<1>2. <<f>> \in Seq(Call) /\ Len(<<f>>) = 1 /\ <<f>>[1] = f
  BY <1>1
<1>3. /\ s \in Seq(Call) /\ Len(s) = 1 + Len(Rest)
      /\ \A i \in 1 .. 1 + Len(Rest) : s[i] = IF i <= 1 THEN <<f>>[i] ELSE Rest[i - 1]
  BY <1>0, <1>1, <1>2, ConcatProperties
<1>4. Len(Rest) \in Nat
  BY <1>1, LenProperties
<1>5. s # <<>> /\ Head(s) = f
  BY <1>2, <1>3, <1>4, EmptySeq
<1>6. Tail(s) = Rest
  <2>1. /\ Tail(s) \in Seq(Call) /\ Len(Tail(s)) = Len(Rest)
        /\ \A i \in 1 .. Len(Tail(s)) : Tail(s)[i] = s[i + 1]
    BY <1>3, <1>4, <1>5, HeadTailProperties
  <2>2. \A i \in 1 .. Len(Tail(s)) : Tail(s)[i] = Rest[i]
    BY <2>1, <1>3, <1>4
  <2> QED
    BY <1>1, <2>1, <2>2, SeqEqual
<1> QED
  BY <1>3, <1>5, <1>6 DEF s, f

LEMMA TypeInit == Init => TypeOK
<1> SUFFICES ASSUME Init PROVE TypeOK
  OBVIOUS
<1>1. DOMAIN layout = Dir
  BY ApplyPatchesAssumption DEF Init
<1>2. stack \in Seq(Call) /\ path \in Dir
  BY EmptySeq DEF Init, Dir
<1> QED
  BY <1>1, <1>2 DEF Init, TypeOK

TypeInv == TypeOK /\ layout \in Layouts

LEMMA TypeStep == TypeInv /\ [Next]_vars => TypeInv'
<1> SUFFICES ASSUME TypeOK, layout \in Layouts, [Next]_vars PROVE TypeOK' /\ layout' \in Layouts
  BY DEF TypeInv
<1>1. layout' = layout
  BY DEF Next, Script, Run, Descend, Unpack, Skip, ApplyPatch, PatchFails, Return, Exit,
         Interrupt, StartOver, vars
<1>2. CASE Run
  <2>1. Frame(Root) \in Call /\ Root \in Dir
    BY LayoutFacts DEF Dir
  <2> QED
    BY <1>1, <1>2, <2>1 DEF Run, TypeOK
<1>3. CASE Descend
  <2>1. Current \in Dir
    BY <1>3 DEF Descend, IsFolder, Dir
  <2> QED
    BY <1>1, <1>3, <2>1, EnterFacts DEF Descend, Enter, TypeOK
<1>4. CASE Unpack
  <2>1. Current \in Dir /\ Nowhere \in Dir
    BY <1>4 DEF Unpack, IsArchive, Dir
  <2> QED
    BY <1>1, <1>4, <2>1, EnterFacts DEF Unpack, Enter, TypeOK
<1>5. CASE Skip
  BY <1>1, <1>5, RestFacts DEF Skip, TypeOK
<1>6. CASE ApplyPatch
  <2>1. Current \in Patch /\ <<path, Current>> \in File
    BY <1>6 DEF ApplyPatch, Applying, TypeOK, File
  <2> QED
    BY <1>1, <1>6, <2>1, RestFacts DEF ApplyPatch, Applying, TypeOK
<1>7. CASE PatchFails
  <2>1. Current \in Patch /\ <<path, Current>> \in File
    BY <1>7 DEF PatchFails, Applying, TypeOK, File
  <2> QED
    BY <1>1, <1>7, <2>1 DEF PatchFails, TypeOK
<1>8. CASE Return
  BY <1>1, <1>8, HeadTailProperties DEF Return, TypeOK
<1>9. CASE Exit
  BY <1>1, <1>9 DEF Exit, TypeOK
<1>10. CASE Interrupt
  <2>1. Applying => Current \in Patch /\ <<path, Current>> \in File
    BY DEF Applying, TypeOK, File
  <2> QED
    BY <1>1, <1>10, <2>1 DEF Interrupt, TypeOK
<1>11. CASE StartOver
  BY <1>1, <1>11 DEF StartOver, TypeOK, Dir
<1>12. CASE UNCHANGED vars
  BY <1>12 DEF vars, TypeOK, File, Dir
<1> QED
  BY <1>2, <1>3, <1>4, <1>5, <1>6, <1>7, <1>8, <1>9, <1>10, <1>11, <1>12 DEF Next, Script

(* The types hold of every layout (scan_patchdir and apply_patch).          *)
THEOREM TypeCorrect == Spec => []TypeInv
<1>1. Init => TypeInv
  BY TypeInit DEF Init, TypeInv
<1> QED
  BY <1>1, TypeStep, PTL DEF Spec

(* --------------------------- the list of patches ------------------------ *)

(* Whatever the directories hold and wherever a run stops, what it has done *)
(* to the tree is in .applied_patches_list: apply_patch writes the name     *)
(* before it calls patch (apply-patches.sh:77).                             *)
THEOREM EverythingIsListed == Spec => []AppliedIsListed
<1>1. Init => AppliedIsListed
  BY DEF Init, AppliedIsListed
<1>2. AppliedIsListed /\ [Next]_vars => AppliedIsListed'
  <2> SUFFICES ASSUME AppliedIsListed, [Next]_vars PROVE AppliedIsListed'
    OBVIOUS
  <2>1. \/ tree' = {}
        \/ tree' = tree /\ listed \subseteq listed'
        \/ /\ tree' \in { tree, tree \cup {<<path, Current>>} }
           /\ listed' = listed \cup {Current}
    <3>1. CASE ApplyPatch
      BY <3>1 DEF ApplyPatch
    <3>2. CASE PatchFails
      BY <3>2 DEF PatchFails
    <3>3. CASE Interrupt
      BY <3>3 DEF Interrupt
    <3>4. CASE StartOver
      BY <3>4 DEF StartOver
    <3>5. CASE Run \/ Descend \/ Unpack \/ Skip \/ Return \/ Exit \/ UNCHANGED vars
      BY <3>5 DEF Run, Descend, Unpack, Skip, Return, Exit, vars
    <3> QED
      BY <3>1, <3>2, <3>3, <3>4, <3>5 DEF Next, Script
  <2> QED
    BY <2>1 DEF AppliedIsListed
<1> QED
  BY <1>1, <1>2, PTL DEF Spec

(* --------------- what is applied if a directory comes last -------------- *)

LEMMA ScannedFacts ==
  /\ Scanned \subseteq Dir /\ Root \in Scanned
  /\ \A d \in Scanned : Below(d) \subseteq Scanned
<1>1. Scanned \subseteq Dir
  BY DEF Scanned
<1>2. Root \in Scanned
  BY DEF Scanned, Dir
<1>3. ASSUME NEW d \in Scanned, NEW e \in Below(d) PROVE e \in Scanned
  <2>1. e \in Dir
    BY DEF Below, Dir
  <2>2. ASSUME NEW S \in SUBSET Dir, Root \in S, \A x \in S : Below(x) \subseteq S PROVE e \in S
    BY <2>2 DEF Scanned
  <2> QED
    BY <2>1, <2>2 DEF Scanned
<1> QED
  BY <1>1, <1>2, <1>3

\* What depends on the layout alone.
LEMMA SameLayout ==
  ASSUME layout' = layout
  PROVE  Scanned' = Scanned /\ DescentLast' = DescentLast /\ Wanted' = Wanted
BY DEF Scanned, DescentLast, Wanted, Below, Held

List == layout[path].list

\* t is what is left of l after its first k names.
Left(t, l, k) ==
  /\ Len(t) = Len(l) - k
  /\ \A i \in 1 .. Len(l) - k : t[i] = l[k + i]

LEMMA LeftOfTail ==
  ASSUME NEW t \in Seq(Name), t # <<>>, NEW l \in Seq(Name), NEW k \in 0 .. Len(l), Left(t, l, k)
  PROVE  /\ k + 1 \in 1 .. Len(l) /\ t[1] = l[k + 1]
         /\ Left(Tail(t), l, k + 1)
         /\ k + 1 = Len(l) => Tail(t) = <<>>
<1>1. Len(t) \in Nat \ {0} /\ Len(l) \in Nat
  BY EmptySeq, LenProperties
<1>2. k + 1 \in 1 .. Len(l)
  BY <1>1 DEF Left
<1>3. /\ Tail(t) \in Seq(Name) /\ Len(Tail(t)) = Len(t) - 1
      /\ \A i \in 1 .. Len(Tail(t)) : Tail(t)[i] = t[i + 1]
  BY HeadTailProperties
<1>4. t[1] = l[k + 1]
  BY <1>1, <1>2 DEF Left
<1>5. Len(Tail(t)) = Len(l) - (k + 1)
  BY <1>1, <1>3 DEF Left
<1>6. ASSUME NEW i \in 1 .. Len(l) - (k + 1) PROVE Tail(t)[i] = l[(k + 1) + i]
  <2>1. i + 1 \in 1 .. Len(l) - k /\ k + (i + 1) = (k + 1) + i /\ i \in 1 .. Len(Tail(t))
    BY <1>1, <1>5
  <2> QED
    BY <1>3, <2>1 DEF Left
<1>7. k + 1 = Len(l) => Tail(t) = <<>>
  BY <1>1, <1>3, <1>5, EmptySeq
<1> QED
  BY <1>2, <1>4, <1>5, <1>6, <1>7 DEF Left

\* The patches of the directories in V, of the last one only up to the k-th
\* name of its list.
Passed(V, k) ==
  { f \in File : /\ f[1] \in V /\ f[2] \in Listed(layout[f[1]]) \cap Held(f[1])
                 /\ f[1] = path => \E i \in 1 .. k : List[i] = f[2] }

\* The run has scanned the directories in V, path and the last one of them
\* included, of which it has done the first k names; the calls under the
\* innermost one have nothing left to do, and what has been passed is applied.
At(V, k) ==
  /\ Root \in V /\ path \in V
  /\ \A d \in V \ {path} : Below(d) \subseteq V
  /\ \A e \in Below(path) \ V : \E i \in k + 1 .. Len(List) : List[i] = e
  /\ stack = <<>> => k = Len(List)
  /\ stack # <<>> =>
       /\ Left(Head(stack).todo, List, k)
       /\ Head(stack).todo # <<>> => Head(stack).series = layout[path].series
       /\ \A j \in 1 .. Len(Tail(stack)) : Tail(stack)[j].todo = <<>>
  /\ Passed(V, k) \subseteq tree

InOrder == \E V \in SUBSET Scanned : \E k \in 0 .. Len(List) : At(V, k)

CompleteInv ==
  /\ TypeInv
  /\ DescentLast => tree \subseteq Wanted
  /\ DescentLast /\ status = "running" => InOrder
  /\ CompleteIfDescentLast

LEMMA NextName ==
  ASSUME TypeInv, DescentLast, AtEntry, NEW V \in SUBSET Scanned, NEW k \in 0 .. Len(List), At(V, k)
  PROVE  /\ path \in Scanned /\ path \in Dir /\ List \in Seq(Name)
         /\ k + 1 \in 1 .. Len(List) /\ Current = List[k + 1]
         /\ Head(stack).series = layout[path].series
         /\ Head(stack).todo \in Seq(Name) /\ Head(stack).todo # <<>>
         /\ Left(Tail(Head(stack).todo), List, k + 1)
         /\ k + 1 = Len(List) => Tail(Head(stack).todo) = <<>>
         /\ Current \in Listed(layout[path])
<1>1. path \in Scanned /\ path \in Dir
  BY ScannedFacts DEF At
<1>2. List \in Seq(Name)
  BY <1>1, LayoutFacts DEF TypeInv, List
<1>3. Head(stack) \in Call /\ Head(stack).todo # <<>> /\ stack # <<>>
  BY RestFacts DEF TypeInv, AtEntry
<1>4. Head(stack).todo \in Seq(Name)
  BY <1>3 DEF Call
<1>6. Left(Head(stack).todo, List, k)
  BY <1>3 DEF At
<1>7. k + 1 \in 1 .. Len(List) /\ Head(stack).todo[1] = List[k + 1]
  BY <1>2, <1>3, <1>4, <1>6, LeftOfTail
<1>9. Current = List[k + 1]
  BY <1>3, <1>4, <1>7 DEF Current
<1>10. Current \in Listed(layout[path])
  BY <1>2, <1>7, <1>9, LenProperties DEF Listed, List
<1> QED
  BY <1>1, <1>2, <1>3, <1>4, <1>6, <1>7, <1>9, <1>10, LeftOfTail DEF At

\* The directory that a run goes down into is there, and is the last name.
LEMMA DownIsLast ==
  ASSUME TypeInv, DescentLast, AtEntry, IsFolder \/ IsArchive,
         NEW V \in SUBSET Scanned, NEW k \in 0 .. Len(List), At(V, k)
  PROVE  /\ Current \in Below(path) /\ Current \in Held(path) /\ Current \notin Patch
         /\ Current \in Scanned
         /\ k + 1 = Len(List)
<1>1. Current \in Below(path) /\ Current \notin Patch
  BY NextName, ApplyPatchesAssumption DEF Below, IsFolder, IsArchive
<1>2. Current \in Held(path)
  BY NextName, LayoutFacts DEF IsFolder, IsArchive, TypeInv, Sound, Held
<1>3. Current \in Scanned
  BY <1>1, NextName, ScannedFacts
<1>4. k + 1 = Len(List)
  <2>1. k + 1 \in DOMAIN layout[path].list
    BY NextName, LenProperties DEF List
  <2> QED
    BY <1>1, <2>1, NextName DEF DescentLast, List
<1> QED
  BY <1>1, <1>2, <1>3, <1>4

LEMMA EnterInOrder ==
  ASSUME TypeInv, DescentLast, AtEntry, IsFolder \/ IsArchive, InOrder,
         Enter(Current), layout' = layout, tree' = tree
  PROVE  InOrder'
<1> PICK V \in SUBSET Scanned, k \in 0 .. Len(List) : At(V, k)
  BY DEF InOrder
<1>1. /\ Current \in Below(path) /\ Current \notin Patch /\ Current \in Scanned
      /\ k + 1 = Len(List) /\ Current \in Dir
  BY DownIsLast, ScannedFacts
<1>0. /\ List \in Seq(Name) /\ Len(List) \in Nat /\ DOMAIN List = 1 .. Len(List)
      /\ Current = List[k + 1]
      /\ stack # <<>> /\ Head(stack).todo \in Seq(Name) /\ Head(stack).todo # <<>>
  BY NextName, LenProperties DEF AtEntry
<1>2. layout[Current].list \in Seq(Name) /\ Len(layout[Current].list) \in Nat
  BY <1>1, LayoutFacts, LenProperties DEF TypeInv
<1>3. path' = Current /\ List' = layout[Current].list /\ stack' = << Frame(Current) >> \o Rest
  BY DEF Enter, List
<1> PICK W \in SUBSET Scanned : W = V \cup {Current}
  BY <1>1
<1>4. W \in SUBSET Scanned' /\ 0 \in 0 .. Len(List')
  BY <1>2, <1>3, SameLayout
<1>5. At(W, 0)'
  <2>1. Root \in W /\ path' \in W
    BY <1>3 DEF At
  <2>2. ASSUME NEW d \in W \ {path'} PROVE Below(d)' \subseteq W
    <3>1. Below(d)' = Below(d) /\ d \in V
      BY <1>3 DEF Below
    <3>2. CASE d # path
      BY <3>1, <3>2 DEF At
    <3>3. CASE d = path
      <4> SUFFICES ASSUME NEW e \in Below(path), e \notin V PROVE e = Current
        BY <3>1, <3>3
      <4>1. PICK i \in k + 1 .. Len(List) : List[i] = e
        BY DEF At
      <4> QED
        BY <1>0, <1>1, <4>1
    <3> QED
      BY <3>2, <3>3
  <2>3. \A e \in Below(path)' \ W : \E i \in 0 + 1 .. Len(List') : List'[i] = e
    BY <1>2, <1>3, LenProperties DEF Below, Listed, List
  <2>4. /\ stack' # <<>> /\ Head(stack') = Frame(Current) /\ Tail(stack') = Rest
    BY <1>1, <1>3, EnterFacts DEF TypeInv
  <2>5. /\ Left(Head(stack').todo, List', 0)
        /\ Head(stack').series = layout'[path'].series
    BY <1>2, <1>3, <2>4 DEF Frame, Left
  <2>6. \A j \in 1 .. Len(Tail(stack')) : Tail(stack')[j].todo = <<>>
    <3>1. Rest \in Seq(Call) /\ Rest # <<>> /\ Tail(Rest) = Tail(stack)
      BY RestFacts DEF TypeInv
    <3>2. Head(Rest).todo = <<>>
      <4>1. Head(Rest).todo = Tail(Head(stack).todo)
        BY RestFacts DEF TypeInv, Call
      <4> QED
        BY <1>1, <4>1, NextName
    <3>3. \A j \in 1 .. Len(Tail(stack)) : Tail(stack)[j].todo = <<>>
      BY DEF At, AtEntry
    <3>4. Len(Tail(Rest)) = Len(Rest) - 1 /\ \A i \in 1 .. Len(Tail(Rest)) : Tail(Rest)[i] = Rest[i + 1]
      BY <3>1, HeadTailProperties
    <3>5. Len(Rest) \in Nat /\ Head(Rest) = Rest[1]
      BY <3>1, LenProperties
    <3>6. ASSUME NEW j \in 1 .. Len(Rest) PROVE Rest[j].todo = <<>>
      <4>1. CASE j = 1
        BY <3>2, <3>5, <4>1
      <4>2. CASE j # 1
        <5>1. j - 1 \in 1 .. Len(Tail(Rest)) /\ (j - 1) + 1 = j
          BY <3>4, <3>5, <4>2
        <5>2. Rest[j] = Tail(Rest)[j - 1]
          BY <3>4, <5>1
        <5> QED
          BY <3>1, <3>3, <5>1, <5>2
      <4> QED
        BY <4>1, <4>2
    <3> QED
      BY <2>4, <3>6
  <2>7. Passed(W, 0)' \subseteq tree'
    <3> SUFFICES ASSUME NEW f \in Passed(W, 0)' PROVE f \in tree
      OBVIOUS
    <3>1. /\ f \in File /\ f[1] \in W /\ f[2] \in Listed(layout[f[1]]) \cap Held(f[1])
          /\ f[1] = Current => \E i \in 1 .. 0 : List'[i] = f[2]
      BY <1>3 DEF Passed, Held
    <3>2. f[1] # Current /\ f[1] \in V /\ f[2] \in Patch
      BY <3>1 DEF File
    <3>3. ASSUME f[1] = path PROVE \E i \in 1 .. k : List[i] = f[2]
      <4>1. PICK i \in 1 .. Len(List) : List[i] = f[2]
        BY <1>0, <3>1, <3>3 DEF Listed, List
      <4> QED
        BY <1>0, <1>1, <3>2, <4>1
    <3> QED
      BY <3>1, <3>2, <3>3 DEF Passed, At
  <2> QED
    BY <2>1, <2>2, <2>3, <2>4, <2>5, <2>6, <2>7 DEF At
<1> QED
  BY <1>4, <1>5 DEF InOrder

\* A name that is no directory is done with: skipped, or a patch applied.
LEMMA NameInOrder ==
  ASSUME TypeInv, DescentLast, AtEntry, ~IsFolder, ~IsArchive, InOrder,
         stack' = Rest, path' = path, layout' = layout, tree \subseteq tree',
         Current \in Patch \cap Held(path) => <<path, Current>> \in tree'
  PROVE  InOrder'
<1> PICK V \in SUBSET Scanned, k \in 0 .. Len(List) : At(V, k)
  BY DEF InOrder
<1>1. /\ List \in Seq(Name) /\ Len(List) \in Nat /\ DOMAIN List = 1 .. Len(List)
      /\ k + 1 \in 1 .. Len(List) /\ Current = List[k + 1] /\ Current \in Listed(layout[path])
      /\ stack # <<>> /\ Head(stack).todo \in Seq(Name) /\ Head(stack).todo # <<>>
      /\ Head(stack).series = layout[path].series /\ path \in Dir
  BY NextName, LenProperties DEF AtEntry
<1>2. List' = List /\ Scanned' = Scanned
  BY SameLayout DEF List
<1> PICK n \in 0 .. Len(List) : n = k + 1
  BY <1>1
<1>3. At(V, n)'
  <2>1. Root \in V /\ path' \in V
    BY DEF At
  <2>2. \A d \in V \ {path'} : Below(d)' \subseteq V
    BY DEF At, Below
  <2>3. \A e \in Below(path)' \ V : \E i \in n + 1 .. Len(List') : List'[i] = e
    <3> SUFFICES ASSUME NEW e \in Below(path), e \notin V
                 PROVE  \E i \in n + 1 .. Len(List) : List[i] = e
      BY <1>2 DEF Below
    <3>1. PICK i \in k + 1 .. Len(List) : List[i] = e
      BY DEF At
    <3>2. e # Current
      BY <1>1, LayoutFacts DEF Below, IsFolder, IsArchive, TypeInv, Sound, Held
    <3> QED
      BY <1>1, <3>1, <3>2
  <2>4. /\ stack' # <<>> /\ Head(stack') = [Head(stack) EXCEPT !.todo = Tail(Head(stack).todo)]
        /\ Tail(stack') = Tail(stack) /\ Head(stack) \in Call
    BY RestFacts DEF TypeInv
  <2>5. Head(stack').todo = Tail(Head(stack).todo) /\ Head(stack').series = Head(stack).series
    BY <2>4 DEF Call
  <2>6. Left(Tail(Head(stack).todo), List, n)
    BY NextName
  <2>7. \A j \in 1 .. Len(Tail(stack)) : Tail(stack)[j].todo = <<>>
    BY <1>1 DEF At
  <2>10. Passed(V, n)' \subseteq tree'
    <3> SUFFICES ASSUME NEW f \in Passed(V, n)' PROVE f \in tree'
      OBVIOUS
    <3>1. /\ f \in File /\ f[1] \in V /\ f[2] \in Listed(layout[f[1]]) \cap Held(f[1])
          /\ f[1] = path => \E i \in 1 .. n : List[i] = f[2]
      BY <1>2 DEF Passed, Held
    <3>2. f = <<f[1], f[2]>> /\ f[2] \in Patch
      BY <3>1 DEF File
    <3>3. CASE f[1] = path /\ f[2] = Current
      BY <3>1, <3>2, <3>3
    <3>4. CASE f[1] = path /\ f[2] # Current
      <4>1. \E i \in 1 .. k : List[i] = f[2]
        BY <1>1, <3>1, <3>4
      <4> QED
        BY <3>1, <4>1 DEF Passed, At
    <3>5. CASE f[1] # path
      BY <3>1, <3>5 DEF Passed, At
    <3> QED
      BY <3>3, <3>4, <3>5
  <2> QED
    BY <1>1, <1>2, <2>1, <2>2, <2>3, <2>4, <2>5, <2>6, <2>7, <2>10 DEF At
<1> QED
  BY <1>2, <1>3 DEF InOrder

LEMMA ReturnInOrder ==
  ASSUME TypeInv, DescentLast, InOrder, Return
  PROVE  InOrder'
<1> PICK V \in SUBSET Scanned, k \in 0 .. Len(List) : At(V, k)
  BY DEF InOrder
<1>1. List' = List /\ Scanned' = Scanned
  BY SameLayout DEF Return, List
<1>2. stack \in Seq(Call) /\ stack # <<>> /\ Head(stack).todo = <<>> /\ stack' = Tail(stack)
  BY DEF Return, TypeInv, TypeOK
<1>3. path \in Dir /\ List \in Seq(Name) /\ Len(List) \in Nat
  BY ScannedFacts, LayoutFacts, LenProperties DEF At, TypeInv, List
<1>4. Left(<<>>, List, k) /\ k = Len(List)
  BY <1>2, <1>3, EmptySeq DEF At, Left
<1>5. At(V, k)'
  <2>1. Root \in V /\ path' \in V /\ \A d \in V \ {path'} : Below(d)' \subseteq V
    BY DEF At, Below, Return
  <2>2. \A e \in Below(path)' \ V : \E i \in k + 1 .. Len(List') : List'[i] = e
    BY <1>1 DEF At, Below, Return
  <2>3. stack' = <<>> => k = Len(List')
    BY <1>1, <1>3, <1>4
  <2>4. /\ stack' \in Seq(Call) /\ Len(stack') = Len(stack) - 1
        /\ \A j \in 1 .. Len(stack') : stack'[j].todo = <<>>
    BY <1>2, HeadTailProperties DEF At
  <2>5. ASSUME stack' # <<>>
        PROVE  /\ Head(stack').todo = <<>>
               /\ \A j \in 1 .. Len(Tail(stack')) : Tail(stack')[j].todo = <<>>
    <3>1. Len(stack') \in Nat \ {0} /\ Head(stack') = stack'[1]
      BY <2>4, <2>5, EmptySeq
    <3>2. /\ Len(Tail(stack')) = Len(stack') - 1
          /\ \A i \in 1 .. Len(Tail(stack')) : Tail(stack')[i] = stack'[i + 1]
      BY <2>4, <2>5, HeadTailProperties
    <3> QED
      BY <2>4, <3>1, <3>2
  <2>6. Passed(V, k)' \subseteq tree'
    BY <1>1 DEF At, Passed, Held, Return
  <2> QED
    BY <1>1, <1>3, <1>4, <2>1, <2>2, <2>3, <2>5, <2>6, EmptySeq DEF At
<1> QED
  BY <1>1, <1>5 DEF InOrder

LEMMA RunInOrder ==
  ASSUME TypeInv, Run
  PROVE  InOrder'
<1>1. layout' = layout /\ path' = Root /\ stack' = << Frame(Root) >> /\ tree' = tree /\ Root \in Dir
  BY DEF Run, Dir
<1>2. List' = layout[Root].list /\ layout[Root].list \in Seq(Name) /\ Frame(Root) \in Call
  BY <1>1, LayoutFacts DEF List, TypeInv
<1>3. /\ Len(List') \in Nat /\ DOMAIN List' = 1 .. Len(List')
  BY <1>2, LenProperties
<1>4. {Root} \in SUBSET Scanned'
  BY <1>1, SameLayout, ScannedFacts
<1>5. stack' # <<>> /\ Head(stack') = Frame(Root) /\ 1 .. Len(Tail(stack')) = {}
  <2>1. stack' \in Seq(Call) /\ Len(stack') = 1 /\ stack'[1] = Frame(Root)
    BY <1>1, <1>2
  <2>2. stack' # <<>> /\ Head(stack') = Frame(Root) /\ 1 .. Len(Tail(stack')) = {}
    <3>1. stack' # <<>>
      BY <2>1, EmptySeq
    <3>2. Len(Tail(stack')) = 0
      BY <2>1, <3>1, HeadTailProperties
    <3>3. 1 .. 0 = {}
      OBVIOUS
    <3>4. Head(stack') = stack'[1]
      BY <2>1, <3>1
    <3>5. 1 .. Len(Tail(stack')) = {}
      BY <3>2, <3>3, Zenon
    <3> QED
      BY <2>1, <3>1, <3>4, <3>5, Zenon
  <2> QED
    BY <2>2
<1>6. At({Root}, 0)'
  <2>1. \A e \in Below(path)' : \E i \in 0 + 1 .. Len(List') : List'[i] = e
    BY <1>1, <1>2, <1>3 DEF Below, Listed
  <2>2. Left(Head(stack').todo, List', 0) /\ Head(stack').series = layout'[path'].series
    BY <1>1, <1>2, <1>3, <1>5 DEF Left, Frame
  <2>3. Passed({Root}, 0)' \subseteq tree'
    BY <1>1 DEF Passed
  <2>4. \A d \in {Root} \ {path'} : Below(d)' \subseteq {Root}
    BY <1>1
  <2>5. \A j \in 1 .. Len(Tail(stack')) : Tail(stack')[j].todo = <<>>
    BY <1>5
  <2>6. Root \in {Root} /\ path' \in {Root} /\ stack' # <<>>
    BY <1>1, <1>5
  <2> QED
    BY <2>1, <2>2, <2>3, <2>4, <2>5, <2>6 DEF At
<1> QED
  BY <1>3, <1>4, <1>6 DEF InOrder

\* What a patch that is found in its directory adds is among the wanted.
LEMMA OpenedIsWanted ==
  ASSUME TypeInv, DescentLast, InOrder, Applying, Opened
  PROVE  <<path, Current>> \in Wanted
<1> PICK V \in SUBSET Scanned, k \in 0 .. Len(List) : At(V, k)
  BY DEF InOrder
<1>1. path \in Scanned /\ Current \in Listed(layout[path]) /\ path \in Dir
  BY NextName DEF Applying
<1> QED
  BY <1>1 DEF Wanted, Applying, Opened, File

\* A run that has come to its end has been everywhere.
LEMMA EndIsComplete ==
  ASSUME TypeInv, DescentLast, InOrder, stack = <<>>
  PROVE  Wanted \subseteq tree
<1> PICK V \in SUBSET Scanned, k \in 0 .. Len(List) : At(V, k)
  BY DEF InOrder
<1>1. path \in Dir /\ List \in Seq(Name) /\ Len(List) \in Nat /\ k = Len(List)
      /\ DOMAIN List = 1 .. Len(List)
  BY ScannedFacts, LayoutFacts, LenProperties DEF At, TypeInv, List
<1>2. \A d \in V : Below(d) \subseteq V
  BY <1>1 DEF At
<1>3. Scanned \subseteq V
  BY <1>2, ScannedFacts DEF Scanned, At
<1>4. Wanted \subseteq Passed(V, k)
  BY <1>1, <1>3 DEF Wanted, Passed, Listed, List
<1> QED
  BY <1>4 DEF At

LEMMA CompleteStep == CompleteInv /\ [Next]_vars => CompleteInv'
<1> SUFFICES ASSUME CompleteInv, [Next]_vars PROVE CompleteInv'
  OBVIOUS
<1>1. TypeInv /\ TypeInv' /\ layout' = layout
  BY TypeStep DEF CompleteInv, Next, Script, Run, Descend, Unpack, Skip, ApplyPatch, PatchFails,
                  Return, Exit, Interrupt, StartOver, vars
<1>2. DescentLast' = DescentLast /\ Wanted' = Wanted
  BY <1>1, SameLayout
<1> SUFFICES ASSUME DescentLast
             PROVE  /\ tree' \subseteq Wanted
                    /\ status' = "running" => InOrder'
                    /\ status' = "ok" => tree' = Wanted
  BY <1>1, <1>2 DEF CompleteInv, CompleteIfDescentLast
<1>3. tree \subseteq Wanted /\ (status = "running" => InOrder) /\ (status = "ok" => tree = Wanted)
  BY DEF CompleteInv, CompleteIfDescentLast
<1>4. CASE Run
  BY <1>1, <1>3, <1>4, RunInOrder DEF Run
<1>5. CASE Descend
  BY <1>1, <1>3, <1>5, EnterInOrder DEF Descend, AtEntry
<1>6. CASE Unpack
  <2>1. InOrder /\ AtEntry /\ IsArchive
    BY <1>3, <1>6 DEF Unpack, AtEntry
  <2>2. Current \in Held(path)
    BY <1>1, <2>1, DownIsLast DEF InOrder
  <2>3. Enter(Current)
    BY <1>6, <2>2 DEF Unpack
  <2> QED
    BY <1>1, <1>3, <1>6, <2>1, <2>3, EnterInOrder DEF Unpack, AtEntry
<1>7. CASE Skip
  BY <1>1, <1>3, <1>7, NameInOrder DEF Skip, AtEntry
<1>8. CASE ApplyPatch
  <2>1. ~IsFolder /\ ~IsArchive /\ AtEntry /\ status = "running"
    BY <1>8, ApplyPatchesAssumption DEF ApplyPatch, Applying, IsFolder, IsArchive, AtEntry
  <2>2. tree' \subseteq Wanted
    BY <1>1, <1>3, <1>8, <2>1, OpenedIsWanted DEF ApplyPatch
  <2>3. InOrder'
    BY <1>1, <1>3, <1>8, <2>1, NameInOrder DEF ApplyPatch, Opened
  <2> QED
    BY <1>8, <2>1, <2>2, <2>3 DEF ApplyPatch
<1>9. CASE PatchFails
  <2>1. status = "running" /\ Applying /\ Opened
    BY <1>9 DEF PatchFails, Applies, Applying, AtEntry
  <2> QED
    BY <1>1, <1>3, <1>9, <2>1, OpenedIsWanted DEF PatchFails
<1>10. CASE Return
  BY <1>1, <1>3, <1>10, ReturnInOrder DEF Return
<1>11. CASE Exit
  BY <1>1, <1>3, <1>11, EndIsComplete DEF Exit
<1>12. CASE Interrupt
  BY <1>1, <1>3, <1>12, OpenedIsWanted DEF Interrupt
<1>13. CASE StartOver
  BY <1>3, <1>13 DEF StartOver
<1>14. CASE UNCHANGED vars
  <2>1. InOrder' = InOrder
    BY <1>14 DEF vars, InOrder, At, Passed, List, Scanned, Below, Held
  <2> QED
    BY <1>3, <1>14, <2>1 DEF vars
<1> QED
  BY <1>4, <1>5, <1>6, <1>7, <1>8, <1>9, <1>10, <1>11, <1>12, <1>13, <1>14 DEF Next, Script

(* On every layout, of any depth, in which nothing is listed after a        *)
(* directory or an archive, a run of the script that ends well has applied  *)
(* every patch that there is and nothing else, whatever earlier runs did.   *)
THEOREM AllAreApplied == Spec => []CompleteIfDescentLast
<1>1. Init => CompleteInv
  BY TypeInit DEF Init, CompleteInv, CompleteIfDescentLast, TypeInv
<1>2. CompleteInv => CompleteIfDescentLast
  BY DEF CompleteInv
<1> QED
  BY <1>1, <1>2, CompleteStep, PTL DEF Spec
=============================================================================
