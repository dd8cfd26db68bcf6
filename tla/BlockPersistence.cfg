\* Crashes anywhere but in the two windows the code leaves unprotected.
CONSTANTS
    Pages = {p1, p2}
    Content = {c1, c2}
    MaxBlock = 3
    MaxQueue = 2
    RiskyCrash = {}
SPECIFICATION Spec
INVARIANTS
    TypeOK
    CrashConsistent
    Recoverable
PROPERTIES
    HeightAdvancesByOne
    ImplementsDurableTable
