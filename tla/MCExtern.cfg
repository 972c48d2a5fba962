\* Aliases of definitions that may be extern.
CONSTANTS
    Programs <- MCExtern
SPECIFICATION Spec
CHECK_DEADLOCK FALSE
INVARIANTS
    ExternsResolved
