SPECIFICATION LiveSpec
CONSTANTS
    none = none
    NumDays = 3
    HoursPerDay = 2
    PollHours = 1
    Seeded <- MCSeeded
    InitialHour = 4
    MaxFailures = 1
    MaxTruncates = 1
    NotFetched = none
CHECK_DEADLOCK FALSE
PROPERTIES RunCoversItsWindow ResumedRunCompletes NoDayIsFetchedForEver
