SPECIFICATION FairSpec
CONSTANTS
    N = 3
    MaxLinks = 3
    Kinds = {"rightBefore", "before"}
    Name <- MCName
    Node <- MCNode
    Declarations <- MCReadable
INVARIANT
    CyclicIsImpossible
