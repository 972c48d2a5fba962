SPECIFICATION MCSpec
CONSTANTS
    Names <- MCNames
    Literals <- MCLiterals
    MaxPhrases = 3
CHECK_DEADLOCK FALSE
INVARIANTS
    AcceptedIffGrammatical
    PrecedenceRespected
    NoHoles
    ReadsBack
