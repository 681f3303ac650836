SPECIFICATION LiveSpec
CONSTANTS
    Null = Null
    a = a
    b = b
    Zones = {a, b}
    Pointed = {b}
    Metrics_ = {"demand_mw", "net_interchange_mw"}
    Resolutions = {"hour", "day"}
    Statistics = {"mean", "peak"}
    KeysPressed = {"ArrowLeft", "PageUp", "End"}
    Hours <- MCHours
    MaxSwitches = 3
    MaxSpan <- MCMaxSpan
    Tables <- MCTables
    Readings <- MCReadings
INVARIANTS WindowIsOfControls ReadoutIsOfCursor MapShowsWhatIsStored RequestIsAdmitted
PROPERTIES EmptyPageIsFilled
