-------------------------- MODULE MCStoreMetadata --------------------------
(* A small instance of StoreMetadata for TLC.                              *)
EXTENDS StoreMetadata, TLC

CONSTANTS r1, r2, t1, t2, h1

MiB == 1048576

(* The ends of the ladder, and both sides of its first and last steps.     *)
MCLengths == {0, 1, MiB, MiB + 1, 2 * MiB, 2 * MiB + 1, 512 * MiB + 1, 1024 * MiB, 1024 * MiB + 1}

MCEntries ==
    {Item("l", Text(t1)), Item("l", Pair), Item("p", Hash(h1)), Item("p", Text(t1)),
     Item("b", Bytes(<<9>>)), Item("x", Pair), Item("sz", Pair)}
    \cup {Item("sz", Bytes(bytes)) : bytes \in {<<>>, <<0>>, <<1>>, <<10>>, <<11>>, <<0, 1>>}}

MCForeignItems ==
    {<<e>> : e \in MCEntries} \cup {<<e, f>> : e \in MCEntries, f \in MCEntries}
=============================================================================
