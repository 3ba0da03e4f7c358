SPECIFICATION Spec
CONSTANTS
    OperationIds = {o1}
    PaymentIds = {p1, p2}
    Null = Null
    Op = o1
    p1 = p1
    p2 = p2
    Txs <- AllTxs
    Mixes <- FiveMixes
    Kind <- AllKinds
    PaymentOf <- Payments
    MaxCollisions = 2
    MaxFaults = 1
INVARIANTS
    TypeOK
    EventIdsDense
    RepliesTellTheTruth
    RequestsKeepOneOrder
    CollisionsAreCommits
    OneReceiptSettles
PROPERTIES
    TransactionsAreAtomic
    StatementsUndoNothing
