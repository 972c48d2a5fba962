SPECIFICATION FairSpec
CONSTANTS
    N = 4
    MaxLinks = 3
    Kinds = {"rightAfter", "rightBefore", "after", "before"}
    Name <- MCName
    Node <- MCNode
    Declarations <- MCDeclarations
INVARIANTS
    TypeOK
    OrderIsValid
    RejectsOnlyImpossible
    SortedIsTopological
    CyclicOnlyWithCycle
PROPERTY
    Terminates
