CONSTANTS
    Base = Base
    Sales = Sales
    Ann = Ann
    Invoice = Invoice
    Read = Read
    Invoice1 = Invoice1
    Owner = Owner
    RoleIds = {Base, Sales}
    UserIds = {Ann}
    ResourceKeys = {Invoice}
    Actions = {Read}
    CondIds = {Owner}
    ItemIds = {Invoice1}
    NoRole = NoRole
    NoItem = NoItem
    NoCheck = NoCheck
    Absent = Absent
    SeedConfig <- MCSeed
    Checkers = {c1}
    CheckInputs <- MCChecks
    CondPuts <- MCCondPuts
    SeedOthers <- MCOthers
    MaxChecks = 1
    RolePuts <- MCDecideRolePuts
    UserPuts <- MCDecideUserPuts
    StartConfigs <- MCDeniedStart
    Handlers = {h1}
    MaxMutations = 1
    MaxFaults = 0
SPECIFICATION DSpec
PROPERTY DenyBeatsAllow
CHECK_DEADLOCK FALSE
