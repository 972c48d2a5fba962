\* Classes that are instantiated by a closure next to them.
CONSTANTS
    Programs <- MCByClosure
SPECIFICATION Spec
CHECK_DEADLOCK FALSE
INVARIANTS
    InstantiatedWhereAvailable
