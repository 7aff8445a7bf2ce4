\* One part and every accepted WHERE clause.
CONSTANTS
    NumColumns = 6
    TypeOf <- MCTypeOf
    Batches <- MCBatches
    MaxParts = 1
    TypeMin <- MCTypeMin
    TypeMax <- MCTypeMax
    Inexact <- MCInexact
    TrueValue <- MCTrue
    MaxDepth = 2
    Queries <- MCQueries
SPECIFICATION Spec
INVARIANT
    AcceptedIsLowered
CHECK_DEADLOCK FALSE
