\* Three servers, two terms and a fault; none of the events the vote is
\* exposed to.
CONSTANTS
    Server = {a, b, c}
    MaxTerm = 2
    MaxFault = 1
    MaxMail = 1
    Exposed = {}
SPECIFICATION Spec
SYMMETRY Symmetry
INVARIANTS
    TypeOK
    ElectionSafety
    LeaderHasMajority
CHECK_DEADLOCK FALSE
