CONSTANTS
    Base = Base
    Sales = Sales
    Ann = Ann
    Invoice = Invoice
    Read = Read
    Invoice1 = Invoice1
    Owner = Owner
    RoleIds = {Base, Sales}
    UserIds = {Ann}
    ResourceKeys = {Invoice}
    Actions = {Read}
    CondIds = {Owner}
    ItemIds = {Invoice1}
    NoRole = NoRole
    NoItem = NoItem
    NoCheck = NoCheck
    Absent = Absent
    SeedConfig <- MCSeed
    Checkers = {c1}
    CheckInputs <- MCChecks
    CondPuts <- MCCondPuts
    SeedOthers <- MCOthers
    MaxChecks = 1
    RolePuts <- MCUngrantedRolePuts
    UserPuts <- MCUngrantedUserPuts
    StartConfigs <- MCUngrantedStart
    Handlers = {h1, h2}
    MaxMutations = 3
    MaxFaults = 0
SPECIFICATION DSpec
PROPERTY NoGrantNoAllow
CHECK_DEADLOCK FALSE
