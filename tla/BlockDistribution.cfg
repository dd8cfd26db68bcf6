\* Three peers, a quorum of two, two blocks and connections that break; none
\* of the events the bookkeeping is exposed to.
CONSTANTS
    Peers = {a, b, c}
    Kafka = 2
    MaxBlock = 2
    MaxQueue = 2
    MaxBreak = 1
    MaxFail = 1
    Exposed = {}
SPECIFICATION Spec
INVARIANTS
    TypeOK
    QuorumStored
    CountIsHonest
    TimersHaveBlock
PROPERTIES
    PackedIsPersisted
CHECK_DEADLOCK FALSE
