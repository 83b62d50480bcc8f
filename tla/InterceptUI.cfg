SPECIFICATION UISpec
CONSTANTS
    c1 = c1
    c2 = c2
    f1 = f1
    f2 = f2
    ui = ui
    Directions = {"request"}
    Calls <- MCTwo
    Flows <- MCFlows
    FlowOf <- MCFlowOf
    Scopes <- MCScopes
    UI = ui
    Resolvers = {ui}
    MaxToken = 2
    NoCall = NoCall
    NoVerdict = NoVerdict
    PauseChCap = 1
    Overlays = {"help", "repeater", "detail"}
    Inputs = {"filter", "cmdline"}
    NoPause = NoPause
INVARIANTS
    LineIsPending
    EditorBelongs
PROPERTIES
    InArrivalOrder
    ImplementsPauseSpec
    EveryPauseReleased
