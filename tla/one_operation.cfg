SPECIFICATION Spec
CONSTANTS
    OperationIds = {o1}
    PaymentIds = {p1, p2}
    Instances = {i1}
    Null = Null
    MaxAttempts = 2
    BatchSize = 1
    Concurrency = 1
    MaxDisruptions = 4
    StrayReceipts = {}
INVARIANTS
    TypeOK
    OnePaymentPerOperation
    DoneMeansCharged
    NoPaymentMismatch
    InFlightIffLeased
    GivenUpOnlyWhenExhausted
    DeliveryInv
    AcceptedOnce
PROPERTIES
    KeepsPromise
