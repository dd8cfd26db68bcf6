\* Three peers, a quorum of two and one block persisted before; peers may hold
\* other blocks that never came to be persisted.  One fault.  Of the events
\* the start has no defence against only "groupLeaves" may happen: one fault is
\* not enough for it.
CONSTANTS
    Peers = {1, 2, 3}
    Kafka = 2
    Contents = {1, 2}
    Histories <- MCHistories
    MaxBlock = 2
    MaxMail = 1
    MaxFault = 1
    Exposed = {"groupLeaves"}
SPECIFICATION MCSpec
INVARIANTS
    TypeOK
    ServesPersisted
    QuorumKept
    OrderStaysUp
PROPERTIES
    SyncEnds
CHECK_DEADLOCK FALSE
