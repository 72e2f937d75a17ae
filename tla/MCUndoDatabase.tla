--------------------------- MODULE MCUndoDatabase ---------------------------
(* Small instances of UndoDatabase for TLC.                                *)
EXTENDS UndoDatabase, TLC

CONSTANTS v1, v2, v3

MCValues == {v1, v2, v3}

\* The contents are interchangeable: no definition tells two of them apart
\* but by equality, and no property of these runs is a liveness property.
Symmetry == Permutations(MCValues)
=============================================================================
