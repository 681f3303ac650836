SPECIFICATION FetchSpec
CONSTANTS
    none = none
    Second = 2
    Hour = 6
    MaxTime = 8
    RowIds = {1, 2, 3, 4}
    Opening <- MCOpening
    ZoneHour <- MCZoneHour
    PageSize = 2
    MaxAttempts = 2
    DefaultLimits <- MCLimits
    BackfillPerHour = 4
    MaxStarts = 2
    Unknown = none
CHECK_DEADLOCK FALSE
INVARIANTS HourlyCeiling PacePerSecond AnswerIsComplete
PROPERTIES NumbersAreKept CeilingStopsOnlyTheHasty
