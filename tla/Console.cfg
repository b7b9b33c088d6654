CONSTANTS
    r1 = r1
    x = x
    y = y
    Absent = Absent
    None = None
    Ids <- MCIds
    Contents <- MCContents
    EmptyContent = x
    SeedRows <- MCSeedRows
    Tabs = {t1}
    Slots = {s1, s2}
    MaxCalls = 2
    MaxFaults = 2
SPECIFICATION ConsoleFairSpec
INVARIANTS ConsoleTypeOK OwnWritesVisible
PROPERTIES ListNeverGoesBack ClosedMeansSaved SavedIsShown
CHECK_DEADLOCK FALSE
