---------------------------- MODULE MCDiscovery ----------------------------
(* Small instances of Discovery for TLC.                                   *)
EXTENDS Discovery, TLC

CONSTANTS d1, d2, o1, o2

MCForeignMemos == {DATASTORE_LAUNCHER_HINT, <<"sha256", "a later kind">>}

Symmetry == Permutations({d1, d2}) \cup Permutations({o1, o2})
=============================================================================
