SPECIFICATION FairSpec
CONSTANTS
    Operations = {o1, o2, o3}
    Refused = {o2}
    Unsendable = {o3}
    MaxAttempts = 3
    NetworkMayFail = TRUE
INVARIANTS
    TypeOK
    RefusalMeansNoPayment
    DoneNamesThePayment
PROPERTIES
    EveryDeliveryEnds
CHECK_DEADLOCK FALSE
