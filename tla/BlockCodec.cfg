CONSTANTS
    InitNodes = 1
    NodeStep = 1
    Serials = 4
    Channel = 2
    MaxCount = 3
    PackSize = 5
    Payloads = {1, 2}
    MaxID = 3
    MaxSubmit = 5
    NULL = NULL
    Exposed = {}
SPECIFICATION Spec
INVARIANTS
    BlocksDecode
PROPERTY
    DamageIsRefused
CHECK_DEADLOCK FALSE
