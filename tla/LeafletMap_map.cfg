SPECIFICATION LeafletFairSpec
CONSTANTS
    Features = {"f1", "f2"}
    Ajax = {"f1"}
    WithTooltip = {"f1", "f2"}
    Search = Search
    NoPopup = NoPopup
    MaxRequests = 2
    MaxFrames = 2
    Vector = "vector"
    NoLabel = NoLabel
    Definitions <- MCDefinitions
INVARIANTS LeafletTypeOK TooltipGivesWay PlaceholderIsAwaited  CanBeSeen MarkersKept StartsAtStart
PROPERTIES FetchedOnce 
