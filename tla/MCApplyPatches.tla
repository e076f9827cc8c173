--------------------------- MODULE MCApplyPatches ---------------------------
(***************************************************************************)
(* ApplyPatches on every layout of a directory, a folder and an archive    *)
(* with at most three, two and two names in them.                          *)
(***************************************************************************)
EXTENDS ApplyPatches, TLC

CONSTANTS p1, p2, p3, notes, dir, tgz

Lists(names, n) == { s \in UNION { [1..k -> names] : k \in 0..n } :
                        \A i, j \in DOMAIN s : s[i] = s[j] => i = j }
Ran(s) == { s[i] : i \in DOMAIN s }
Plain(names, n) == { [series |-> FALSE, list |-> s, files |-> Ran(s)] : s \in Lists(names, n) }
(* A series file may leave out what is there and name what is not. *)
Series(names, n) == { [series |-> TRUE, list |-> s, files |-> f] :
                         s \in Lists(names, n), f \in SUBSET names }

Empty == [series |-> FALSE, list |-> <<>>, files |-> {}]
Roots == Plain({p1, p2, dir, tgz}, 3) \cup Plain({p1, notes}, 2) \cup Series({p1, p2}, 2)
Inner == Plain({p1, p3}, 2) \cup Series({p1, p3}, 1)

(* A folder and an archive side by side, or the archive in the folder. *)
Layout(r, d, a) == (Root :> r) @@ (dir :> d) @@ (tgz :> a) @@ (Nowhere :> Empty)
MCLayouts ==
    { Layout(r, d, a) : r \in Roots, d \in Inner, a \in Plain({p2, p3}, 2) }
        \cup { Layout(r, d, a) : r \in { x \in Roots : tgz \notin x.files },
                                 d \in Plain({p1, tgz}, 2), a \in Plain({p2, p3}, 2) }
MCBad == { <<dir, p3>> }
=============================================================================
