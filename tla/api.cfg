SPECIFICATION Spec
CONSTANTS
    o1 = o1
    o2 = o2
    p1 = p1
    p2 = p2
    padded = padded
    blank = blank
    OperationIds = {o1, o2}
    PaymentIds = {p1, p2}
    Null = Null
    Spellings = {o1, o2, padded, blank}
    Stripped <- StripMap
    Blank = Blank
    Routable = {o1, o2, padded}
    AmountTexts <- SomeAmounts
    MaxWhole = 999
    Currencies = {"RUB", "USD"}
    PaidBy <- Payers
    Reports <- SomeReports
INVARIANTS
    AmountIsKept
    ClientsSeeProgress
    GenuineReceiptIsTaken
    MismatchIsFinal
