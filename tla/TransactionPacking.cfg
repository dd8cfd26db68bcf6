\* Three transactions fill a block, two blocks may be queued, and a rollback
\* finds a block stored, two queued and one half packed.
CONSTANTS
    MaxTrans = 3
    MaxQueue = 2
    MaxID = 2
    MaxBlock = 4
    Versions = {1, 2}
    Exposed = {}
SPECIFICATION Spec
INVARIANTS
    TypeOK
    ChainLinked
    IdsContiguous
    TableFollowsBlocks
    AckedKept
CHECK_DEADLOCK FALSE
