SPECIFICATION Spec
CONSTANTS
    Char <- MCChar
    NoChar <- MCNoChar
    EofChar <- MCEofChar
    Texts <- MCTexts
    Kinds = {"stream", "unsignedStream"}
    MaxBufferSize = 2
    Sizes <- MCSizes
    MaxLength = 2
    MaxLong = 5
INVARIANT
    FillsBuffer
