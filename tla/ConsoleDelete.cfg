CONSTANTS
    r1 = r1
    x = x
    y = y
    Absent = Absent
    None = None
    Ids <- MCIds
    Contents <- MCContents
    EmptyContent = x
    SeedRows <- MCSeedRows
    Tabs = {t1}
    Slots = {s1}
    MaxCalls = 1
    MaxFaults = 0
SPECIFICATION ConsoleSpec
PROPERTY CompletedMutationRefetches
CHECK_DEADLOCK FALSE
