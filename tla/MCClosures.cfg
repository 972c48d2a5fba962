\* Closures, classes and aliases, from the analysis of captures to the backend.
CONSTANTS
    Programs <- MCPrograms
SPECIFICATION Spec
CHECK_DEADLOCK FALSE
INVARIANTS
    CapturesAreFree
    ClosuresShareVariables
    SimplifiedAlike
    NamesDefined
