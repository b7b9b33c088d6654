-------------------------------- MODULE MCAbac --------------------------------
(* A subject with a clearance and an id, a type that may declare a level or an *)
(* owner, an item that may override the level, and every operator.            *)
EXTENDS Abac, TLC

MCNumbers == {2, 5, 1000000}
MCTexts == {"", "true", "false", "undefined", "2", "5", "1000000", "1e+06",
            "5 days", "u1", "2, u1"}
MCGoText == 2 :> "2" @@ 5 :> "5" @@ 1000000 :> "1e+06"
MCJsText == 2 :> "2" @@ 5 :> "5" @@ 1000000 :> "1000000"
Parsed == "2" :> 2 @@ "5" :> 5 @@ "1000000" :> 1000000 @@ "1e+06" :> 1000000
MCGoNumber == Parsed @@ [t \in MCTexts |-> NaN]
MCJsNumber == Parsed @@ "5 days" :> 5 @@ "2, u1" :> 2 @@ [t \in MCTexts |-> NaN]
MCElements == "2, u1" :> {"2", "u1"} @@ [t \in MCTexts |-> {t}]

MCSubject == "clearance" :> Num(2) @@ "id" :> Text("u1")

MCDefaults == {Undeclared, Num(2), Num(5), Num(1000000), Text(""), Text("2")}
MCTypeInputs == {"level" :> d @@ "owner" :> o :
                    d \in MCDefaults, o \in {Undeclared, Text("2")}}
MCOverrides == {Missing, Num(5), Num(1000000), Flag(TRUE), Text(""), Text("5 days")}
MCItemInputs == {[owner |-> o, attrs |-> ("level" :> v @@ "owner" :> Missing)] :
                    o \in {"u1", ""}, v \in MCOverrides}

\* A rule compares with an attribute or with a literal; the other field is idle.
AnyName == <<"resource", "owner">>
MCCondInputs ==
    [left : Names, op : Ops, rightType : {"attr"}, right : Names, literal : {""}]
    \cup [left : Names, op : Ops, rightType : {"literal"}, right : {AnyName},
          literal : {"2", "5", "1e+06", "true", "2, u1"}]
=============================================================================
