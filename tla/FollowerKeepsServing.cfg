\* As RaftVote.cfg: a leader of a lower term hears of a higher one.
CONSTANTS
    Server = {a, b, c}
    MaxTerm = 2
    MaxFault = 1
    MaxMail = 2
    Exposed = {}
SPECIFICATION Spec
SYMMETRY Symmetry
INVARIANTS
    MasterLeads
CHECK_DEADLOCK FALSE
