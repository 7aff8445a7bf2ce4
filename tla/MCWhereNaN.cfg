\* One part, with a NaN first or last.
CONSTANTS
    NumColumns = 6
    TypeOf <- MCTypeOf
    Batches <- MCNaNBatches
    MaxParts = 1
    TypeMin <- MCTypeMin
    TypeMax <- MCTypeMax
    Inexact <- MCInexact
    TrueValue <- MCTrue
    MaxDepth = 2
    Queries <- MCQueries
SPECIFICATION Spec
INVARIANT
    SkippedRowsDoNotPass
CHECK_DEADLOCK FALSE
