SPECIFICATION LiveSpec
CONSTANTS
    Null = Null
    a = a
    b = b
    u = u
    Zone = a
    Keys = {a, u}
    Windows = {"168h", "all"}
    Queries = {"region", "mix"}
    Heavy = {"all"}
    Readers = {"reader"}
    Warmer = "warmer"
    CACHE_MAX_AGE_HOURS = 2
    MaxHour = 2
    MaxCommits = 2
    MaxFaults = 1
    Views = {1, 2, 3}
    VisitorOf <- MCVisitorOf
    SALT_RETENTION_DAYS = 1
    MaxDay = 3
    Configs <- MCConfigs
    Deployed <- GoodConfig
    Cases <- MCCases
INVARIANTS NewestHourIsThere AnswersAreRecent VisitorsAreCountedOnce OnlySoundConfigServes SeriesAreTheReadings
PROPERTIES EveryRequestIsAnswered
CHECK_DEADLOCK FALSE
