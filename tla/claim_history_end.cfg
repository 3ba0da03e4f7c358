SPECIFICATION Spec
CONSTANTS
    OperationIds = {o1}
    PaymentIds = {p1}
    Instances = {i1}
    Null = Null
    MaxAttempts = 2
    BatchSize = 1
    Concurrency = 1
    MaxDisruptions = 0
    StrayReceipts = {}
INVARIANT
    HistoryEndsAtStatus
