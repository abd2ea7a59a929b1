--------------------------- MODULE MCCtoolsWizard ---------------------------
(* Small instances of CtoolsWizard for TLC.                                *)
EXTENDS CtoolsWizard, TLC

CONSTANTS t1, t2, a

Symmetry == Permutations(Tabs)

=============================================================================
