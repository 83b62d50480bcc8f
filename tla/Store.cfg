SPECIFICATION Spec
CONSTANTS
    Flows = {f1, f2}
    Early = {f1}
    Writers = {w1, w2}
    EventCap = 2
    MaxRev = 2
    NoFlow = NoFlow
INVARIANTS
    ListedOrComing
    DetailLive
    ClicksAndMotionsLand
PROPERTIES
    ListStable
    WritersAndListGetOn
