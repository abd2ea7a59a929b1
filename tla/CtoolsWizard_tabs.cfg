SPECIFICATION Spec
CONSTANTS
    t1 = t1
    t2 = t2
    a = a
    Tabs = {t1, t2}
    Ids = {a}
    LastStep = 2
    Outside = outside
    None = None
    MaxEdits = 2
    MaxOutside = 1
SYMMETRY Symmetry
INVARIANTS
    TypeOK
    ErrorsExplained
PROPERTIES
    LostOnlyToARace
CHECK_DEADLOCK FALSE
