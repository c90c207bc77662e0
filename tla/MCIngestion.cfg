SPECIFICATION Spec
CONSTANTS
    None = None
    Day = 4
    TehranOffset = 1
    TicksPerBar = 2
    TargetBars = 2
    MaxAge = 1
    UsdStaleAfter = 1
    OilStaleDays = 0
    McapStaleAfter = 1
    MaxDeviation = 5
    UsdDeviation = 5
    MinSources = 2
    HistoryLimit = 2
    Tolerance = 1
    Horizons = {3}
    Paths <- OnePerKind
    Prices = {100, 104, 120}
    Charts = {1, 4}
    Lags <- AheadAndBehind
    Start = 10
    MaxTime = 11
    MaxIngests = 3
CHECK_DEADLOCK FALSE
INVARIANTS
    TypeOK
    CryptoPriceSound
    SeriesEndsWithValue
    McapHistoryReal
    FallbackIsNewest
    PriceSurvives
