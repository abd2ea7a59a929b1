SPECIFICATION PageSpec
CONSTANTS
    Maps = {"m1", "m2", "m3"}
    Edited = {"m1", "m3"}
    Shapes = {"a", "b"}
    Invalid = Invalid
    AutoCenter = TRUE
    MaxLayers = 2
    Contents <- MCContents
    Remote = {"uri1", "uri2"}
    BadJson = {"bad1"}
    Refused = {"uri2"}
    BadStyle = {}
    ZoomToGeojson = TRUE
    Rows = {"r1", "r2", "s1"}
    FieldOf <- MCFieldOf
    Origins = {"o1", "o2"}
    Contexts = {"page", "group", "fieldR", "fieldS", "viewO", "viewP"}
    Page = "page"
    RowsIn <- MCRowsIn
    OriginsIn <- MCOriginsIn
    NoOrigin = NoOrigin
    MaxAttached = 2
    MaxWaiting = 2
INVARIANTS PageTypeOK TextFollows OwnOverlays AnswersArrive
PROPERTIES EveryMapServed ReplacedWithReason
CHECK_DEADLOCK FALSE
