---------------------------- MODULE MCPhpunitLog ----------------------------
(* Small instances of PhpunitLog for TLC.                                  *)
EXTENDS PhpunitLog

CONSTANTS r1, r2, r3, m1, m2, n1, n2

Symmetry == Permutations(Requests) \union Permutations(Modules) \union Permutations(Names)

=============================================================================
