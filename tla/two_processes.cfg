SPECIFICATION FairSpec
CONSTANTS
    OperationIds = {o1}
    PaymentIds = {p1}
    Instances = {i1, i2}
    Null = Null
    MaxAttempts = 2
    BatchSize = 1
    Concurrency = 1
    MaxDisruptions = 1
    StrayReceipts = {}
INVARIANTS
    HistoryTellsStatus
    TerminalClosesIntent
PROPERTIES
    NothingIsUndone
    DeliveryConcludes
    OperationSettles
