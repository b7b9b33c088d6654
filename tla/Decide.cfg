CONSTANTS
    Base = Base
    Sales = Sales
    Ann = Ann
    Invoice = Invoice
    Read = Read
    Invoice1 = Invoice1
    Owner = Owner
    RoleIds = {Base, Sales}
    UserIds = {Ann}
    ResourceKeys = {Invoice}
    Actions = {Read}
    CondIds = {Owner}
    ItemIds = {Invoice1}
    NoRole = NoRole
    NoItem = NoItem
    NoCheck = NoCheck
    Absent = Absent
    SeedConfig <- MCSeed
    Checkers = {c1}
    CheckInputs <- MCChecks
    CondPuts <- MCCondPuts
    SeedOthers <- MCOthers
    MaxChecks = 1
    RolePuts <- MCDecideRolePuts
    UserPuts <- MCDecideUserPuts
    StartConfigs <- MCStart
    Handlers = {h1, h2}
    MaxMutations = 2
    MaxFaults = 1
SPECIFICATION GSpec
INVARIANTS GuardTypeOK ServedOnlyIfEverReachable
PROPERTIES CalmDecisionIsPolicy AllowedOnlyIfEverReachable
CHECK_DEADLOCK FALSE
