CONSTANTS
    Base = Base
    Sales = Sales
    Ann = Ann
    Invoice = Invoice
    Read = Read
    RoleIds = {Base, Sales}
    UserIds = {Ann}
    ResourceKeys = {Invoice}
    Actions = {Read}
    CondIds = {}
    NoRole = NoRole
    Absent = Absent
    RolePuts <- MCRolePuts
    UserPuts <- MCUserPuts
    StartConfigs <- MCStart
    SeedConfig <- MCSeed
    Handlers = {h1, h2}
    MaxMutations = 3
    MaxFaults = 1
SPECIFICATION HSpec
INVARIANTS HistoryTypeOK SoloSyncIsExact NoInventedTuples NothingOlderSurvives WholeSnapshotOrNothing DenyAccompaniesGrant
PROPERTY ImplementsOverlappingSync
CHECK_DEADLOCK FALSE
