SPECIFICATION Spec
CONSTANTS
    Items = {i1, i2, i3, i4}
    Concurrency = 2
    CallLimit = 14
    Lease = 30
    Grace = 5
    StopGrace = 10
    Drain = 4
    Never = Never
SYMMETRY Symmetry
INVARIANTS
    LeaseOutlivesDelivery
    KilledOnlyByDrain
CHECK_DEADLOCK FALSE
