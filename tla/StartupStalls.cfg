\* No fault: every peer connects, answers and does what it is told.
CONSTANTS
    Peers = {1, 2, 3}
    Kafka = 2
    Contents = {1, 2}
    Histories <- MCHistories
    MaxBlock = 2
    MaxMail = 1
    MaxFault = 0
    Exposed = {}
SPECIFICATION MCSpec
PROPERTIES
    StartupCompletes
CHECK_DEADLOCK FALSE
