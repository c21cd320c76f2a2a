\* A transaction longer than half the lag.
SPECIFICATION Spec
CONSTANTS
    Writers = {w1, w2}
    Rows = {a, b}
    Pods = {pod1}
    Lag = 2
    Retention = 5
    MaxTxn = 2
    MaxBehind = 3
    MaxSeq = 2
    MaxTime = 6
SYMMETRY Symmetry
INVARIANTS
    NothingSkipped
