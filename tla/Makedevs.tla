------------------------------ MODULE Makedevs -----------------------------
(* The host program makedevs, package/makedevs/makedevs.c: what the lines   *)
(* of a device table do to a tree, under fakeroot, as root.  A line that is *)
(* an entry has all of name, type, mode, user and group: without the last   *)
(* two the code uses a user and a group that nobody set.                    *)
EXTENDS Integers, Sequences, SequencesExt

CONSTANTS
  Paths,         \* the names in the tree
  Root,          \* the root directory, one of them
  Parent,        \* the directory a path is in
  Numbered,      \* Numbered[<<p, i>>]: p followed by the number i
  Ids,           \* numbers, and the users and groups the host knows
  FieldMax,      \* the most a numeric field may be, 0xfffff
  Word           \* how far an unsigned int counts, 2^32

ASSUME RootIsAPath == Root \in Paths /\ Parent \in [Paths \ {Root} -> Paths]

\* Going up from a path one comes to the root.
ASSUME Rooted == \A S \in SUBSET (Paths \ {Root}) : S # {} => \E p \in S : Parent[p] \notin S

ASSUME Widths == FieldMax \in Nat /\ Word \in Nat \ {0} /\ FieldMax < Word

Absent == [type |-> "none"]
Node(type, mode, owner, rdev) == [type |-> type, mode |-> mode, owner |-> owner, rdev |-> rdev]
NoDev == <<0, 0>>
Super == <<"0", "0">>

(* ---------------------------- what the calls do ------------------------- *)

Exists(tree, p) == tree[p] # Absent
IsDir(tree, p) == Exists(tree, p) /\ tree[p].type = "dir"
InDir(tree, p) == p = Root \/ IsDir(tree, Parent[p])

\* Each of them gives the tree and whether it succeeded.
Done(tree, ok) == [tree |-> tree, ok |-> ok]
mkdir(tree, p) ==
  IF Exists(tree, p) \/ ~InDir(tree, p) THEN Done(tree, FALSE)
  ELSE Done([tree EXCEPT ![p] = Node("dir", "777", Super, NoDev)], TRUE)
chown(tree, p, owner) ==
  IF Exists(tree, p) THEN Done([tree EXCEPT ![p].owner = owner], TRUE) ELSE Done(tree, FALSE)
chmod(tree, p, mode) ==
  IF Exists(tree, p) THEN Done([tree EXCEPT ![p].mode = mode], TRUE) ELSE Done(tree, FALSE)
\* fakeroot makes a file, or empties the one there is, and notes a device.
mknod(tree, p, type, mode, rdev) ==
  IF IsDir(tree, p) \/ ~InDir(tree, p) THEN Done(tree, FALSE)
  ELSE Done([tree EXCEPT ![p] = Node(type, mode, Super, rdev)], TRUE)

(* ----------------------------- the program ------------------------------ *)

Way[p \in Paths] == IF p = Root THEN <<>> ELSE Append(Way[Parent[p]], p)

\* Op(v), for which TLC computes v once.
With(v, Op(_)) == CHOOSE w \in {Op(x) : x \in {v}} : TRUE

\* One directory on the way to p.  Those above it keep the mode of mkdir.
MakeOne(r, q, p, mode) ==
  IF ~r.ok \/ IsDir(r.tree, q) THEN r
  ELSE LET m == mkdir(r.tree, q) IN IF q = p /\ m.ok THEN chmod(m.tree, q, mode) ELSE m
bb_make_directory(tree, p, mode) ==
  LET made[n \in 0 .. Len(Way[p])] ==
        IF n = 0 THEN Done(tree, TRUE) ELSE With(made[n - 1], LAMBDA r : MakeOne(r, Way[p][n], p, mode))
  IN  made[Len(Way[p])]

OwnerThenMode(tree, l) ==
  LET r == chown(tree, l.name, l.owner) IN IF r.ok THEN chmod(r.tree, l.name, l.mode) ELSE r

\* That the directory could be made is not looked at.
Directory(tree, l) == OwnerThenMode(bb_make_directory(tree, l.name, l.mode).tree, l)
RegularFile(tree, l) ==
  IF Exists(tree, l.name) /\ tree[l.name].type = "file" THEN OwnerThenMode(tree, l) ELSE Done(tree, FALSE)

\* The node is given its mode even if it could not be made.
Finished(r, p, l) ==
  LET c == IF r.ok THEN chown(r.tree, p, l.owner) ELSE r
      d == chmod(c.tree, p, l.mode)
  IN  Done(d.tree, c.ok /\ d.ok)
OneNode(r, p, l, minor) ==
  LET f == Finished(mknod(r.tree, p, l.type, l.mode, <<l.major, minor>>), p, l)
  IN  Done(f.tree, r.ok /\ f.ok)

MinorOf(l, i) == (l.minor + i * l.increment) % Word
StartUnused(tree, l) ==     \* mutant
  IF l.count = 0 THEN OneNode(Done(tree, TRUE), l.name, l, l.minor)
  ELSE LET made[n \in 0 .. l.count] ==
             IF n = 0 THEN Done(tree, TRUE)
             ELSE With(made[n - 1], LAMBDA r : OneNode(r, Numbered[<<l.name, n - 1>>], l, MinorOf(l, n - 1)))
       IN  made[l.count]
Nodes(tree, l) ==
  IF l.count = 0 THEN OneNode(Done(tree, TRUE), l.name, l, l.minor)
  ELSE LET made[n \in 0 .. l.count] ==
             IF n = 0 THEN Done(tree, TRUE)
             ELSE With(made[n - 1], LAMBDA r : OneNode(r, Numbered[<<l.name, l.start + n - 1>>], l, MinorOf(l, n - 1)))
       IN  made[l.count]

\* A line that is no entry, of more than 20 bits in a field, or commented out.
InRange(l) == \A n \in {l.major, l.minor, l.start, l.increment, l.count} : n <= FieldMax
Known(l) == l.owner[1] \in Ids /\ l.owner[2] \in Ids

EntryMade(tree, l) ==
  CASE l.type = "d" -> Directory(tree, l)
    [] l.type = "f" -> RegularFile(tree, l)
    [] l.type \in {"p", "c", "b"} -> Nodes(tree, l)
    [] OTHER -> Done(tree, FALSE)

\* s has the tree, whether all went well and whether the program has died.
Result(s, r) == [s EXCEPT !.tree = r.tree, !.ok = @ /\ r.ok]
Line(s, l) ==
  CASE l.kind = "comment" -> s
    [] l.kind = "invalid" -> [s EXCEPT !.ok = FALSE]
    [] l.kind = "entry" ->
         IF ~InRange(l) THEN [s EXCEPT !.ok = FALSE]
         ELSE IF ~Known(l) THEN [s EXCEPT !.ok = FALSE, !.died = TRUE]
         ELSE Result(s, EntryMade(s.tree, l))
=============================================================================
