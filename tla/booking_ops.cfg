\* Two cars under one key, the second listed while the others book; schedules,
\* prices and blocks of the owner; and a tool that inserts without the car lock.
SPECIFICATION OpsSpec
CONSTANTS
    car1 = car1
    car2 = car2
    olga = olga
    ann = ann
    bob = bob
    k1 = k1
    Users = {olga, ann, bob}
    Cars = {car1, car2}
    Owner <- MCOwner
    Orderers = {p1, p2}
    Updaters = {}
    ResIds = {r1, r2}
    NoRes = NoRes
    RecIds = {x1}
    Keys = {k1}
    NoKey = NoKey
    Orders <- MCOpsOrders
    RawRows <- MCRaw
    Spans <- MCSpans
    SeedCars <- MCOneCar
    Rates = {2}
    Listings = {"listed", "hidden"}
    Period = 4
    HoldTTL = 1
    CancelLead = 1
    BookGrace = 1
    PastGrace = 0
    MaxTime = 1
SYMMETRY Symmetry
INVARIANTS
    NoDoubleBooking
    RetriesAgree
    SchedulesYieldOnlyToOlder
PROPERTIES
    LedgerSpec
CHECK_DEADLOCK FALSE
