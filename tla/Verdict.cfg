CONSTANTS
    Invoice = Invoice
    Read = Read
    Ann = Ann
    RoleIds = {r1, r2, r3}
    UserIds = {Ann}
    ResourceKeys = {Invoice}
    Actions = {Read}
    CondIds = {owner}
    NoRole = NoRole
    Absent = Absent
    RoleInputs <- MCRoleInputs
    UserInputs <- MCUserInputs
    Subject = Ann
    Key <- MCKey
SPECIFICATION VSpec
SYMMETRY MCSymmetry
INVARIANTS KetoFollowsChains MatchExistsWhenReachable NearestRoleDecides DenyElseLast NeverLaxerThanPrototype
    ExpansionExplains
