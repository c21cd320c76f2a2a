\* The counter of reaped holds against its help text.
SPECIFICATION MetricsSpec
CONSTANTS
    car1 = car1
    car2 = car2
    olga = olga
    ann = ann
    bob = bob
    k1 = k1
    Users = {olga, ann, bob}
    Cars = {car1}
    Owner <- MCOwner
    Orderers = {p1, p2}
    Updaters = {}
    ResIds = {r1, r2, r3}
    NoRes = NoRes
    RecIds = {}
    Keys = {k1}
    NoKey = NoKey
    Orders <- MCMetricOrders
    RawRows <- NoRaw
    Spans <- MCSpans
    SeedCars <- MCCars
    Rates = {}
    Listings = {}
    Period = 4
    HoldTTL = 1
    CancelLead = 1
    BookGrace = 1
    PastGrace = 0
    MaxTime = 2
    MaxCount = 4
SYMMETRY Symmetry
INVARIANTS
    OnlyDeletedAreCounted
