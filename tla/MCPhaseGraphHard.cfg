SPECIFICATION FairSpec
CONSTANTS
    N = 3
    MaxLinks = 2
    Kinds = {"rightAfter", "rightBefore"}
    Name <- MCName
    Node <- MCNode
    Declarations <- MCReadable
INVARIANT
    ExecutionOrder
