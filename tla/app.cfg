SPECIFICATION Spec
CONSTANTS
    ann = ann
    script = script
    k1 = k1
    Browsers = {b1, b2}
    Persons = {ann}
    PersonOf <- MCPersonOf
    SessionTTL = 2
    NoOne = NoOne
    MaxAccounts = 2
    MaxTokens = 1
    Car = car
    Owner = olga
    MaxRes = 2
    NoRes = NoRes
    NoKey = NoKey
    HoldTTL = 1
    CancelLead = 1
    BookGrace = 1
    PastGrace = 0
    Offers <- MCOffers
    Schedule <- MCSchedule
    Renters = {b1}
    Trip <- MCTrip
    Calls = {c1, c2}
    NoCall = NoCall
    ScriptOrders <- MCScriptOrders
    MaxTime = 2
SYMMETRY Symmetry
INVARIANTS TypeOK OneAccount RetrySuffices HeldKeepsCar ConfirmStands
PROPERTIES LedgerSpec
