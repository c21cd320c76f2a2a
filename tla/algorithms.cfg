SPECIFICATION Spec
CONSTANTS
    CellSize = 2
    CosNum = 1
    CosDen = 2
    PageSize = 1
    MaxPages = 2
    PriceCandidateFactor = 2
    Fleets <- MCFleets
    Queries <- MCQueries
    DayLen = 3
    WeekDays = 2
    MonthDays <- MCMonthDays
    LeapMonth = 2
    Years = 6
    Schedules <- MCSchedules
    WindowStarts <- MCWindowStarts
    WindowLengths = {1, 30}
    Rates = {0, 1, 2, 3, 4, 5, 6, 7, 8}
    Minutes = {15, 20, 30, 45, 60, 90}
    MaskCell = 2
    MaxAttempts = 1
    Masks <- MCMasks
    Places <- MCPlaces
INVARIANTS PageIsExact TotalsAgree PricePageIsPrefix GuessSuffices ImplementationsAgree QuoteHonoured CarsAreDry
