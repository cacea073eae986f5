SPECIFICATION MCSpec
CONSTANTS
    a1 = a1
    a2 = a2
    a3 = a3
    A = A
    B = B
    C = C
    Null = Null
    Outputs <- MCOutputs
    KreisOrder <- MCKreisOrder
    Tables <- MCTables
    Requests <- MCRequests
    KeyFiles <- MCKeyFiles
    Atoms = {a1, a2, a3}
    Kreise = {A, B, C}
    Years = {1, 2, 3}
    Histories <- MCHistories
    Spans <- MCSpans
    Selections <- MCSelections
    Defects = {"scaled_within", "scaled_beyond", "negative", "twice", "zero"}
    Policies = {"raise", "drop", "flag"}
    One = 60
    Tolerance = 6
    Unit = 5940
INVARIANTS
    TrueOnTargetBorders
    TotalConserved
    NothingLost
    OutputsShareTheirRows
    NullsExplainedOnTheirRow
CHECK_DEADLOCK FALSE
