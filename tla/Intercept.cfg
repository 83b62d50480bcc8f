SPECIFICATION Spec
CONSTANTS
    c1 = c1
    c2 = c2
    c3 = c3
    f1 = f1
    f2 = f2
    r1 = r1
    r2 = r2
    Directions = {"request"}
    Calls <- MCCalls
    Flows <- MCFlows
    FlowOf <- MCFlowOf
    Scopes <- MCScopes
    Resolvers = {r1, r2}
    MaxToken = 3
    NoCall = NoCall
    NoVerdict = NoVerdict
SYMMETRY MCSymmetry
INVARIANTS
    NoLostPause
    ResolveNeverBlocks
    StatusTellsPaused
    NoStaleRegistration
