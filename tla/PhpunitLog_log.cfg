SPECIFICATION Spec
CONSTANTS
    r1 = r1  r2 = r2  r3 = r3
    m1 = m1  m2 = m2  n1 = n1  n2 = n2
    Requests = {r1, r2, r3}
    Modules = {m1, m2}
    Names = {n1, n2}
    MaxTests = 1
    MaxGroup = 2
    NoReport = NoReport
SYMMETRY Symmetry
INVARIANTS TypeOK PairingExplained OrphansExplained GroupRunCovers CountIsTrue
\* Every request is used once, so all of them come to an end.
CHECK_DEADLOCK FALSE
