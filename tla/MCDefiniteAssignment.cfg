SPECIFICATION Spec
CONSTANTS
    Var = {v}
    Class = {C}
    MaxItems = 6
    Core = {"declare", "assign", "use", "fun", "if"}
    MaxCore = 8
    Programs <- MCPrograms
INVARIANTS
    InitializedOnEveryPath
    ErrorsAreFaults
    ReassignedIsMutable
