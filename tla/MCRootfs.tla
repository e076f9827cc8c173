------------------------------ MODULE MCRootfs -----------------------------
(* Two images, of which cpio adds /init, and device tables with a node, a   *)
(* series, a new directory, a file, and lines that makedevs refuses.        *)
EXTENDS Rootfs

MCPaths == {"/", "dev", "dev/x", "dev/x0", "dev/x1", "dev/x2", "dev/x3", "etc", "etc/f", "a", "a/b", "init"}
MCParent ==
  [p \in MCPaths \ {"/"} |->
     CASE p \in {"dev/x", "dev/x0", "dev/x1", "dev/x2", "dev/x3"} -> "dev"
       [] p = "etc/f" -> "etc"
       [] p = "a/b" -> "a"
       [] OTHER -> "/"]
MCNumbered == [n \in {"dev/x"} \X (0 .. 3) |-> <<"dev/x0", "dev/x1", "dev/x2", "dev/x3">>[n[2] + 1]]
MCIds == {"0", "1", "www"}
MCImages == <<"ext2", "cpio">>
MCWithInit == {"cpio"}

MCInstalled ==
  [p \in MCPaths |-> IF p \in {"/", "dev", "etc"} THEN Node("dir", "755", <<"user", "user">>, NoDev)
                     ELSE IF p = "etc/f" THEN Node("file", "644", <<"user", "user">>, NoDev) ELSE Absent]

Entry(name, type, mode, owner, major, minor, start, increment, count) ==
  [kind |-> "entry", name |-> name, type |-> type, mode |-> mode, owner |-> owner, major |-> major,
   minor |-> minor, start |-> start, increment |-> increment, count |-> count]
Plain(name, type, mode, owner) == Entry(name, type, mode, owner, 0, 0, 0, 0, 0)
Comment == [kind |-> "comment"]
Invalid == [kind |-> "invalid"]

Dev == Plain("dev", "d", "755", <<"0", "0">>)
Console == Entry("dev/x", "c", "622", <<"0", "0">>, 5, 1, 0, 0, 0)
Series == Entry("dev/x", "b", "640", <<"0", "1">>, 3, 1, 1, 2, 3)
Shadow == Plain("etc/f", "f", "600", <<"www", "0">>)
Lost == Plain("a/b", "f", "600", <<"0", "0">>)
Below == Plain("a/b", "d", "700", <<"0", "0">>)
Stranger == Plain("etc/f", "f", "666", <<"nobody", "0">>)
Wide == Entry("dev/x", "c", "666", <<"0", "0">>, 32, 0, 0, 0, 0)

MCTables ==
  [rootfs : {<<>>, <<Comment, Dev, Series>>, <<Console, Invalid, Below, Wide>>, <<Lost, Shadow, Stranger, Console>>},
   devices : {<<Console>>}, permissions : {<<Shadow>>}, static : BOOLEAN]

\* What the theorems about the images ask of the tables.
ASSUME TablesAreOrderly == \A t \in Tables : Orderly(t) /\ MinorsFit(t)
=============================================================================
