\* Transactions at most half as long as the lag, and every pod read well within
\* the retention; reads keep failing and the pod restarts.
SPECIFICATION FairSpec
CONSTANTS
    Writers = {w1, w2}
    Rows = {a, b}
    Pods = {pod1}
    Lag = 2
    Retention = 4
    MaxTxn = 1
    MaxBehind = 2
    MaxSeq = 2
    MaxTime = 5
INVARIANTS
    TypeOK
    NothingSkipped
PROPERTIES
    NeverBackInTime
    Converges
