\* A pod that rebuilds in vain, while another prunes the log.
SPECIFICATION OutageSpec
CONSTANTS
    Writers = {w1}
    Rows = {a}
    Pods = {pod1, pod2}
    Lag = 0
    Retention = 2
    MaxTxn = 0
    MaxBehind = 8
    MaxSeq = 1
    MaxTime = 8
INVARIANTS
    NothingSkipped
