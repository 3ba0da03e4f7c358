SPECIFICATION Spec
CONSTANTS
    OperationIds = {o1, o2}
    PaymentIds = {p1, p2}
    Instances = {i1}
    Null = Null
    MaxAttempts = 1
    BatchSize = 2
    Concurrency = 1
    MaxDisruptions = 1
    StrayReceipts <- Misdirected
    o1 = o1
    p1 = p1
    p2 = p2
CHECK_DEADLOCK FALSE
INVARIANTS
    AppliedReceiptDecides
PROPERTIES
    DeliveryKeepsItsClaim
