-------------------------------- MODULE MCForms --------------------------------
(* Two resource types, of which the second may be missing, two roles, two      *)
(* conditions, one item and one user.                                          *)
EXTENDS Forms

MCTexts == {"", "true", "false", "undefined", "2", "u1", "resource.level"}
MCTyped == {"", "2", "resource.level"}
MCGoText == 2 :> "2"
MCNumber == "2" :> 2 @@ [t \in MCTexts |-> NaN]
MCElements == [t \in MCTexts |-> {t}]
MCNameOf == "resource.level" :> <<"resource", "level">> @@ [t \in MCTexts |-> NoName]
MCSubject == "clearance" :> Num(2)

Decl(k, v) == [key |-> k, value |-> v]
Level == [actions |-> {"read"}, attrs |-> <<Decl("level", Num(2))>>]
Twice == [actions |-> {}, attrs |-> <<Decl("level", Num(2)), Decl("level", Text("u1"))>>]
Rule == [type |-> NoType, left |-> "resource.level", op |-> "eq",
         rightType |-> "literal", right |-> "2"]
\* Every item also overrides an attribute that no type declares.
Override(t, v) == [type |-> t, owner |-> "u1",
                   attrs |-> [k \in AttrKeys |-> IF k = "level" THEN v ELSE Text("2")]]
Role(parent, invoice, memo) ==
    [parent |-> parent,
     grants |-> (<<"invoice", "read">> :> invoice @@ <<"memo", "read">> :> memo)]

Table(ids, present, row) == [id \in ids |-> IF id \in present THEN row ELSE Absent]

\* One condition is missing, and the memo type in one of two; both are referred to.
Start(types, override) ==
    [types |-> Table(ResourceKeys, types, Level),
     items |-> Table(ItemIds, ItemIds, Override("invoice", override)),
     conditions |-> Table(CondIds, {"own"}, Rule),
     roles |-> Table(RoleIds, {"sales"},
                     Role("base", Conditional({"own", "ready"}), Conditional({"ready"}))),
     users |-> Table(UserIds, UserIds, <<"sales", "base">>)]
MCStart == {Start({"invoice"}, Text("u1")), Start({"invoice", "memo"}, Text(""))}

MCPuts == [p \in Pages |->
    CASE p = "types" -> {Level, Twice}
      [] p = "items" -> {Override("memo", Num(2))}
      [] p = "conditions" -> {Rule, [Rule EXCEPT !.op = "neq"]}
      [] p = "roles" -> {Role(NoRole, Allow, Deny)}
      [] p = "users" -> {<<"base", "sales", "base">>}]
=============================================================================
