\* Functions in a method that name `this'.
CONSTANTS
    Programs <- MCThis
SPECIFICATION Spec
CHECK_DEADLOCK FALSE
INVARIANTS
    ThisIsTheMethods
