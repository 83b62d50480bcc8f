SPECIFICATION Spec
CONSTANTS
    Programs = {p1, p2}
    Faults = {}
    MaxPairs = 3
    MaxSaves = 3
INVARIANTS
    ChildTrusts
    SavedIsFound
