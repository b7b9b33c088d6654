CONSTANTS
    Base = Base
    Sales = Sales
    Ann = Ann
    Invoice = Invoice
    Read = Read
    RoleIds = {Base, Sales}
    UserIds = {Ann}
    ResourceKeys = {Invoice}
    Actions = {Read}
    CondIds = {}
    NoRole = NoRole
    Absent = Absent
    RolePuts <- MCRolePuts
    UserPuts <- MCUserPuts
    StartConfigs <- MCStart
    SeedConfig <- MCSeed
    Handlers = {h1}
    MaxMutations = 3
    MaxFaults = 2
SPECIFICATION FairSpec
INVARIANTS TypeOK AckedMeansSynced
PROPERTIES Settles ImplementsAtomicSync
CHECK_DEADLOCK FALSE
