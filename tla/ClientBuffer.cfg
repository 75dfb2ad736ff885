SPECIFICATION FairSpec
CONSTANTS
    QueueSize = 4
    WarnLevel = 75
    NormalLevel = 25
    MaxEvents = 8
INVARIANTS
    TypeOK
    RingIntact
    EveryEventOnce
    SentInOrder
    
    
PROPERTIES
    Delivers
    Recovers
