CONSTANTS
    Configured = 0
    Unset = 15
    Grace = 30
    ProcessLimit = 1
    ReviewLimit = 30
    PublishLimit = 5
    ForgeTTL = 60
    GlobalTimeout = 15
    MaxTime = 70
CHECK_DEADLOCK FALSE
SPECIFICATION Spec
INVARIANTS
    
    HeardOnlyIfPosted
