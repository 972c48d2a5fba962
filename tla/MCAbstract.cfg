SPECIFICATION Spec
CONSTANTS
    P = P
    X = X
    f = f
    g = g
    Types <- MCTypes
    SubTypes <- MCSubTypes
    Programs <- MCAbstractPrograms
    MaxDefs = 4
    MaxRedefs = 2
INVARIANT AbstractAllRedefined
