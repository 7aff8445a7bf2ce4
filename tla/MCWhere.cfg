\* Up to two parts, with and without NaN and -0.0.
CONSTANTS
    NumColumns = 6
    TypeOf <- MCTypeOf
    Batches <- MCBatches
    MaxParts = 2
    TypeMin <- MCTypeMin
    TypeMax <- MCTypeMax
    Inexact <- MCInexact
    TrueValue <- MCTrue
    MaxDepth = 2
    Queries <- MCQueries
SPECIFICATION Spec
INVARIANTS
    WhereTypeOK
    ZonesAreBounds
    SkipsNothingWanted
    WhereAnswerExact
    WellTypedIsAnswered
CHECK_DEADLOCK FALSE
