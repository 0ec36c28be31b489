----------------------- MODULE MCDirectoryCollection -----------------------
(* Four commands on the directory of the county offices, with two          *)
(* inventories.                                                            *)
EXTENDS DirectoryCollection, TLC

CONSTANTS c1, c2, c3, c4

MCCommand == {c1, c2, c3, c4}
MCScope == {4, 5}
MCSymmetry == Permutations(MCCommand)
=============================================================================
