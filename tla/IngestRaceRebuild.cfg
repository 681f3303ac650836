SPECIFICATION Spec
CONSTANTS
    p = p
    b = b
    v = v
    s = s
    g = g
    Jobs = {p, s}
    Kind <- MCKind
    NumRows = 4
    NumHours = 3
    NumDocs = 5
    Dataset <- MCDataset
    HourOf <- MCHourOf
    BucketHours <- MCBucketHours
    Resolution <- MCResolution
    Windows <- MCWindows
    Anchors = {1, 2, 3}
    MaxVersion <- MCMaxVersion
    MaxFailures = 0
    NoDoc = NoDoc
INVARIANTS StaleHourIsOwed
