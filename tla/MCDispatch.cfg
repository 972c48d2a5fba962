SPECIFICATION Spec
CONSTANTS
    P = P
    X = X
    f = f
    g = g
    Types <- MCTypes
    SubTypes <- MCSubTypes
    Programs <- MCPrograms
    MaxDefs = 4
    MaxRedefs = 2
INVARIANTS
    MostDerivedRuns
    CallsKept
    MostSpecificChosen
    LocationsKnown
