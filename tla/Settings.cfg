\* One dealership, two readers, one editor, with fairness.
SPECIFICATION FairSpec
CONSTANTS
    d1 = d1
    r1 = r1
    r2 = r2
    e1 = e1
    Dealership = {d1}
    Company = Company
    NoScope = NoScope
    Reader = {r1, r2}
    Editor = {e1}
    NoReader = NoReader
    MaxReads = 3
    MaxEdits = 2
INVARIANTS
    IInv
    OneLoadPerKey
PROPERTIES
    FreshReads
    EveryReadEnds
\* The reads and edits are bounded: after the last nothing is left to do.
CHECK_DEADLOCK FALSE
