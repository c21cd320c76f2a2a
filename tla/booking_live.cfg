\* Every call is answered, with calls on two cars under one key.
SPECIFICATION FairSpec
CONSTANTS
    car1 = car1
    car2 = car2
    olga = olga
    ann = ann
    bob = bob
    k1 = k1
    Users = {olga, ann, bob}
    Cars = {car1, car2}
    Owner <- MCOwner
    Orderers = {p1, p2}
    Updaters = {u1}
    ResIds = {r1, r2}
    NoRes = NoRes
    RecIds = {}
    Keys = {k1}
    NoKey = NoKey
    Orders <- MCLiveOrders
    RawRows <- NoRaw
    Spans <- MCSpans
    SeedCars <- MCCars
    Rates = {}
    Listings = {}
    Period = 4
    HoldTTL = 1
    CancelLead = 1
    BookGrace = 1
    PastGrace = 0
    MaxTime = 1
PROPERTIES
    OrderAnswered
    UpdateAnswered
