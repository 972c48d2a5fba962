SPECIFICATION FairSpec
CONSTANTS
    N = 3
    MaxLinks = 1
    Kinds = {"after", "before"}
    Name <- MCName
    Node <- MCNode
    Declarations <- MCDeclarations
INVARIANT
    ExecutionOrder
