CONSTANTS
    NaN = NaN
    Undeclared = Undeclared
    NoItem = NoItem
    Owner = "owner"
    Blank = ""
    SubjectKeys = {"clearance", "id"}
    AttrKeys = {"level", "owner"}
    Numbers <- MCNumbers
    Texts <- MCTexts
    GoText <- MCGoText
    JsText <- MCJsText
    GoNumber <- MCGoNumber
    JsNumber <- MCJsNumber
    Elements <- MCElements
    Subject <- MCSubject
    TypeInputs <- MCTypeInputs
    ItemInputs <- MCItemInputs
    CondInputs <- MCCondInputs
SPECIFICATION AbacSpec
INVARIANTS AbacTypeOK AgreesOnOrdinaryValues EqualIsNotOrdered UndeclaredDecidesNothing
