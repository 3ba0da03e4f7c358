SPECIFICATION FairSpec
CONSTANTS
    MigrationAttempts = 3
    RecoveryAttempts = 2
    MaxOutages = 3
    MaxStops = 3
INVARIANTS
    ServesMigratedSchema
    BatchHasItsClients
PROPERTIES
    ComesToServe
