SPECIFICATION Spec
CONSTANTS
    Null = Null
    a = a
    b = b
    Zones = {a, b}
    DetailWindows = {"168h", "30d"}
    MIX_ORDER <- MCMixOrder
    STORAGE_MODES = {"battery_storage"}
    MapWindows <- MCMapWindows
    Docs <- MCDocs
INVARIANTS PanelIsOfSelection StackIsTheReadings
PROPERTIES ScrubMovesBoth
