CONSTANTS
    Size = 3
    Versions = {right, other}
    Right = right
    NoTag = notag
    MaxTries = 3
SPECIFICATION DSpec
INVARIANTS VerifiedIsWhole
PROPERTIES InstallEnds
