CONSTANTS
    Clients = {c1, c2, c3}
    NoClient = none
    MaxObjects = 3
    MaxConfig = 2
SPECIFICATION ServerSpec
INVARIANTS
    ServerTypeOK
    StaysPublished
    NoDeadPublisher
    ConfigComplete
CHECK_DEADLOCK FALSE
