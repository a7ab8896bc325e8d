--------------------------- MODULE MCMoveDetection ---------------------------
(* Three paths, two of them in a folder that can be scanned on its own, and *)
(* two contents for TLC.                                                    *)
EXTENDS MoveDetection, TLC

CONSTANTS here, there, elsewhere, A, B

MCPaths == {here, there, elsewhere}
MCBytes == {A, B}
MCScopes == {MCPaths, {here, there}}

(* The contents are interchangeable, and so are the paths of the folder.    *)
MCSymmetry == Permutations(MCBytes) \union Permutations({here, there})
=============================================================================
