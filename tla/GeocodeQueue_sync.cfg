SPECIFICATION Spec
CONSTANTS
    s1 = s1  s2 = s2  p1 = p1  p2 = p2
    Entities = {e1}
    Sources = {s1, s2}
    Procs = {p1, p2}
    Editors = {p1, p2}
    Workers = {}
    UseQueue = FALSE
    PresaveDisabled = FALSE
    Handling = "preserve"
    SkipNotEmpty = FALSE
    QueueInTransaction = TRUE
    MaxItems = 2
    MaxFaults = 1
    NoValue = NoValue
    Absent = Absent
    Deleted = Deleted
    NoEntity = NoEntity
    NoItem = NoItem
SYMMETRY BothSymmetries
INVARIANTS StaleIsExplained
