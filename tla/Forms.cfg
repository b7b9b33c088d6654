CONSTANTS
    NaN = NaN
    Undeclared = Undeclared
    NoItem = NoItem
    Owner = "owner"
    Blank = ""
    SubjectKeys = {"clearance"}
    AttrKeys = {"level", "owner"}
    Numbers = {2}
    Texts <- MCTexts
    GoText <- MCGoText
    JsText <- MCGoText
    GoNumber <- MCNumber
    JsNumber <- MCNumber
    Elements <- MCElements
    Subject <- MCSubject
    ItemIds = {"i1"}
    NoType = NoType
    NoName = NoName
    NameOf <- MCNameOf
    Typed <- MCTyped
    NumberOf <- MCNumber
    MaxDecls = 2
    RoleIds = {"base", "sales"}
    UserIds = {"u1"}
    ResourceKeys = {"invoice", "memo"}
    Actions = {"read"}
    CondIds = {"own", "ready"}
    NoRole = NoRole
    Absent = Absent
    StartDbs <- MCStart
    OtherPuts <- MCPuts
    None = None
    AnyItem = AnyItem
    MaxOpens = 1
    MaxOthers = 1
SPECIFICATION FormsSpec
INVARIANTS FormsTypeOK HiddenGrantsSurvive HiddenOverridesSurvive HiddenRolesSurvive
    FieldShowsWhatDecides
PROPERTIES UntouchedSaveKeeps DeletingNeverAdmits ItemAskedIsOfItsType
