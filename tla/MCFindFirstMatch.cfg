CONSTANTS
    NumNames = 4
    r1 = r1
    c1 = c1
    c2 = c2
    Conns = {c1, c2}
    Readers = {r1}
    NoRule = NoRule
    Published <- MCPublished
SPECIFICATION FairSpec
INVARIANTS
    TypeOK
PROPERTIES
    ReturnsFirstMatch
    SearchEnds
    ImplementsLookup
CHECK_DEADLOCK FALSE
