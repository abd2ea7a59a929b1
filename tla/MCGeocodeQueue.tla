--------------------------- MODULE MCGeocodeQueue ---------------------------
(* Small instances of GeocodeQueue for TLC.                                *)
EXTENDS GeocodeQueue, TLC

CONSTANTS s1, s2, p1, p2

SourceSymmetry == Permutations(Sources)
ProcSymmetry == Permutations(Procs)
BothSymmetries == SourceSymmetry \union ProcSymmetry

=============================================================================
