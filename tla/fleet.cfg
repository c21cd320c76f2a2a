SPECIFICATION Spec
CONSTANTS
    CarIds = {c1, c2}
    ResIds = {r1, r2}
    RecIds = {x1}
    Cells = {west, east}
    Windows <- MCWindows
    Period = 3
    HoldTTL = 1
    MaxTime = 2
    MaxWrites = 4
INVARIANTS TypeOK IndexesAgree FoundIsFree FreeIsFound
SYMMETRY Symmetry
