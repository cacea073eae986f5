SPECIFICATION Spec
CONSTANTS
    g1 = g1
    g2 = g2
    g3 = g3
    A = A
    B = B
    C = C
    r1 = r1
    r2 = r2
    Null = Null
    Gemeinden = {g1, g2, g3}
    Kreise = {A, B, C}
    Regions = {r1, r2}
    Last = 3
    Histories <- MCHistories
    Geographies <- MCGeographies
    HistoryYears = {{2}, {2, 3}}
    Columns <- MCColumns
INVARIANT RedirectIsSuccessor
CHECK_DEADLOCK FALSE
