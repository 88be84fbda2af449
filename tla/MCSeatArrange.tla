---------------------------- MODULE MCSeatArrange ---------------------------
(* Model values for SeatArrange: four players, whom nothing tells from one    *)
(* another, and every mode, also the one that is not for four.                *)
EXTENDS SeatArrange

CONSTANTS p0, p1, p2, p3

MCIds      == {p0, p1, p2, p3}
MCModes    == SeatModes
MCSymmetry == Permutations(MCIds)
=============================================================================
