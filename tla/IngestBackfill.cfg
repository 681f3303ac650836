SPECIFICATION Spec
CONSTANTS
    p = p
    b = b
    v = v
    s = s
    g = g
    Jobs = {p, b}
    Kind <- MCKind
    NumRows = 4
    NumHours = 3
    NumDocs = 5
    Dataset <- MCDataset
    HourOf <- MCHourOf
    BucketHours <- MCBucketHours
    Resolution <- MCResolution
    Windows <- MCWindows
    Anchors = {1, 2, 3}
    MaxVersion <- MCMaxVersion
    MaxFailures = 1
    NoDoc = NoDoc
INVARIANTS TypeOK StaleHourIsOwed OnlyReviseOwesHours MarkedDayHasSnapshots HolderIsAhead
PROPERTIES RevisedAtIsHonest PollRepairs ImplementsMapStore
