SPECIFICATION Spec
CONSTANTS
    zero = zero  one = one  two = two  dash = dash  default = default
    Parts = {zero, one, two, dash, default}
    Dash = dash
    Sites <- MCSites
    Numeric <- MCNumeric
    Zero <- Folder0
    Programs <- MCPrograms
    NoProgram = NoProgram
    Versions <- MCVersions
    NoVersion = NoVersion
    FirstVersion <- Version1
    CourseLists <- MCCourseLists
    Durations = {2}
    MaxItems = 2
    MaxChanges = 2
    NoItem = NoItem
INVARIANTS ShownIsOfThisSite ShownIsTheClicked LinksOpen TotalsExplained
