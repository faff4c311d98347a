CONSTANTS
    LastFrame = 2
    KeyFrames = {1}
    AudioFiles = {2}
    Lengths = {0}
    Publishers = {1, 2}
    MaxCommands = 3
SPECIFICATION PublisherSpec
INVARIANTS
    PublisherTypeOK
    OneChain
    ChainAlive
    InOrder
 
CHECK_DEADLOCK FALSE
