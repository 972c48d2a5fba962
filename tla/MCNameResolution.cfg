CONSTANTS
    Names <- MCNames
    Programs <- MCPrograms
SPECIFICATION Spec
INVARIANTS
    SupersAcyclic
    InheritsAll
    ThisReaches
    AbsoluteIffGlobal
    BodiesSettled
    InnermostWins
