SPECIFICATION Spec
CONSTANTS
    Char <- MCChar
    NoChar <- MCNoChar
    EofChar <- MCEofChar
    Texts <- MCTexts
    Kinds = {"string", "stream"}
    MaxBufferSize = 2
    Sizes <- MCSizes
    MaxLength = 2
    MaxLong = 5
INVARIANTS
    EndsWithReadable
    ObjectsIntact
    LongestMatch
    FatalIffUnfinished
PROPERTIES
    PlainSpec
    ParseEnds
