---------------------------- MODULE MCStatsMerge ----------------------------
(* A variable of three samples and three callers. *)
EXTENDS StatsMerge, TLC

CONSTANTS c1, c2, c3, p1, p2, p3

MCCells   == {c1, c2, c3}
MCParts   == {p1, p2, p3}
MCCenters == <<0, 2>>
MCValues  == {-1, 1, 2}

\* No position and no caller is named in the specification.
Symmetry == Permutations(MCParts) \cup Permutations(MCCells)
=============================================================================
