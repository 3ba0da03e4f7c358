SPECIFICATION Spec
CONSTANTS
    Operations = {o1}
    Base = 500
    Maximum = 15000
    Jitter = 30
    Draws <- SomeDraws
    MaxExponent = 8
    MaxAttempts = 10
    Outage = 52000
INVARIANTS
    DelayBounded
    OutlastsOutage
PROPERTIES
    WaitsGrow
CHECK_DEADLOCK FALSE
