------------------------------- MODULE FormRows -------------------------------
(***************************************************************************)
(* What the console's five forms hold, what one event in a form does to    *)
(* its row, and what the service makes of the row.                         *)
(*                                                                         *)
(* db is the record of the five tables.  Names, labels and the columns of  *)
(* a user beside the roles are left out.  Every user has the attributes    *)
(* Subject.                                                                 *)
(***************************************************************************)
EXTENDS Rbac, AbacRules

CONSTANTS
    ItemIds,
    NoType,         \* the type of a new item; the scope "generic"
    NoName,         \* names no attribute
    NameOf,         \* the attribute that the text of an operand names
    Typed,          \* texts that are typed into a field
    NumberOf,       \* Number(t) of JavaScript; NaN if refused
    MaxDecls        \* bound: attributes that a type declares

ASSUME FormAssumption ==
    /\ UserIds \subseteq Texts /\ Typed \subseteq Texts
    /\ NoType \notin ResourceKeys
    /\ Blank \notin AttrKeys
    /\ NoName \notin Names
    /\ NameOf \in [Texts -> Names \cup {NoName}]
    /\ NumberOf \in [Texts -> Numbers \cup {NaN}]
    /\ MaxDecls \in Nat

-----------------------------------------------------------------------------
(* Rows *)

\* The operators that the condition form offers.
Symbols == {"==", "!=", ">", ">=", "<", "<=", "in", "contains"}

AttrDecls == [key : AttrKeys \cup {Blank}, value : Values]
TypeRows == [actions : SUBSET Actions, attrs : Seq(AttrDecls)]
ItemRows == [type : ResourceKeys \cup {NoType}, owner : UserIds \cup {Blank},
             attrs : [AttrKeys -> Values]]
ConditionRows == [type : ResourceKeys \cup {NoType}, left : Texts, op : Ops \cup Symbols,
                  rightType : {"attr", "literal"}, right : Texts]

Pages == {"types", "items", "conditions", "roles", "users"}
IdsOf(p) == CASE p = "types" -> ResourceKeys [] p = "items" -> ItemIds
              [] p = "conditions" -> CondIds [] p = "roles" -> RoleIds
              [] p = "users" -> UserIds
RowsOf(p) == CASE p = "types" -> TypeRows [] p = "items" -> ItemRows
               [] p = "conditions" -> ConditionRows [] p = "roles" -> RoleRows
               [] p = "users" -> UserRows
ASSUME NoItemAssumption == NoItem \notin ItemRows

Db == [types : [ResourceKeys -> TypeRows \cup {Absent}],
       items : [ItemIds -> ItemRows \cup {Absent}],
       conditions : [CondIds -> ConditionRows \cup {Absent}],
       roles : RoleTables, users : UserTables]

\* Faulty variant: EMPTY lacks the list of attributes.
EmptyTypeBare == [actions |-> {}]

\* The rows that "New" starts from.
EmptyType == [actions |-> {}, attrs |-> <<>>]
EmptyItem == [type |-> NoType, owner |-> Blank, attrs |-> [k \in AttrKeys |-> Missing]]
EmptyCondition == [type |-> NoType, left |-> Blank, op |-> "==",
                   rightType |-> "literal", right |-> Blank]
EmptyRole == [parent |-> NoRole, grants |-> [k \in GrantKeys |-> NoGrant]]
EmptyUser == <<>>
EmptyOf(p) == CASE p = "types" -> EmptyType [] p = "items" -> EmptyItem
                [] p = "conditions" -> EmptyCondition [] p = "roles" -> EmptyRole
                [] p = "users" -> EmptyUser

-----------------------------------------------------------------------------
(* An effect on its way between the service and a form *)

Wire(form, ids) == [form |-> form, ids |-> ids]

\* MarshalJSON; a legacy text, which UnmarshalJSON accepts, is never written.
GoEncode(e) == IF e.kind = "conditional" THEN Wire("array", e.conds) ELSE Wire(e.kind, {})

\* effectFromWire and UnmarshalJSON read alike: a text that is neither "allow"
\* nor "deny" is the id of one condition.
Decode(w) == IF w.form = "allow" THEN Allow
             ELSE IF w.form = "deny" THEN Deny ELSE Conditional(w.ids)

\* Faulty variant: a conditional grant without conditions is sent as an allow.
JsEncodeShortened(e) ==
    IF e.kind = "conditional" /\ e.conds # {} THEN Wire("array", e.conds) ELSE Wire("allow", {})

\* effectToWire
JsEncode(e) == CASE e.kind = "allow" -> Wire("allow", {})
                 [] e.kind = "deny" -> Wire("deny", {})
                 [] e.kind = "conditional" -> Wire("array", e.conds)

\* A role as the list shows it, and as a PUT of it is stored.
RoleFromWire(r) ==
    [r EXCEPT !.grants = [k \in GrantKeys |->
        IF r.grants[k] = NoGrant THEN NoGrant ELSE Decode(GoEncode(r.grants[k]))]]
RoleToWire(r) ==
    [r EXCEPT !.grants = [k \in GrantKeys |->
        IF r.grants[k] = NoGrant THEN NoGrant ELSE Decode(JsEncode(r.grants[k]))]]

Listed(p, row) == IF p = "roles" THEN RoleFromWire(row) ELSE row
Stored(p, row) == IF p = "roles" THEN RoleToWire(row) ELSE row

-----------------------------------------------------------------------------
(* Controls *)

\* filter: what is chosen but is not in values.
Without(chosen, values) ==
    FoldLeft(LAMBDA kept, x : IF x \in values THEN kept ELSE Append(kept, x), <<>>, chosen)

\* A MultiSelect takes every copy of a chosen value out, or appends the value.
Toggle(chosen, v) ==
    IF v \in ToSet(chosen) THEN Without(chosen, {v}) ELSE Append(chosen, v)
ToggleIn(chosen, v) == IF v \in chosen THEN chosen \ {v} ELSE chosen \cup {v}

\* What a default value is after a keystroke.
Coerce(t) == IF t = "true" THEN Flag(TRUE)
             ELSE IF t = "false" THEN Flag(FALSE)
             ELSE IF NumberOf[t] # NaN THEN Num(NumberOf[t]) ELSE Text(t)

\* What an override is after a keystroke: blank takes it away.
SetAttr(t) == IF t = Blank THEN Missing ELSE Text(t)

\* The kind that the effect select shows is the kind of the effect.  Choosing
\* "conditional" keeps the condition ids that there are.
OfKind(kind, effect) == CASE kind = "none" -> NoGrant
                          [] kind = "allow" -> Allow
                          [] kind = "deny" -> Deny
                          [] kind = "conditional" -> Conditional(effect.conds)
Kinds == {"none", "allow", "deny", "conditional"}

-----------------------------------------------------------------------------
(* What a form shows *)

GrantShown(db, k) == db.types[k[1]] # Absent /\ k[2] \in db.types[k[1]].actions

\* The attributes that the selected type declares, in an item's form.
ShownAttrs(db, row) ==
    {k \in AttrKeys : row.type \in Present(db.types)
                      /\ \E i \in DOMAIN db.types[row.type].attrs :
                             db.types[row.type].attrs[i].key = k}

Tagged(tag, values) == {tag} \X values

\* The options and the parts of the row that page p's form shows.
Shown(p, db, id, row) ==
    CASE p = "items" -> Tagged("type", Present(db.types)) \cup Tagged("user", Present(db.users))
                        \cup Tagged("attr", ShownAttrs(db, row))
      [] p = "conditions" -> Tagged("type", Present(db.types))
      [] p = "roles" -> Tagged("role", Present(db.roles) \ {id})
                        \cup Tagged("grant", {k \in GrantKeys : GrantShown(db, k)})
                        \cup Tagged("cond", Present(db.conditions))
      [] p = "users" -> Tagged("role", Present(db.roles))
      [] p = "types" -> {}

Shows(shown, tag, value) == <<tag, value>> \in shown

-----------------------------------------------------------------------------
(* Rows that one event in a form makes of a row, given what the form shows *)

\* The declared attributes are addressed by position; keys may repeat.
AttrDeclEdits(attrs) ==
    (IF Len(attrs) < MaxDecls THEN {Append(attrs, [key |-> Blank, value |-> Text(Blank)])} ELSE {})
    \cup {RemoveAt(attrs, i) : i \in DOMAIN attrs}
    \cup {[attrs EXCEPT ![i].key = k] : i \in DOMAIN attrs, k \in AttrKeys \cup {Blank}}
    \cup {[attrs EXCEPT ![i].value = Coerce(t)] : i \in DOMAIN attrs, t \in Typed}

TypeEdits(shown, row) ==
    {[row EXCEPT !.actions = ToggleIn(row.actions, a)] : a \in Actions}
    \cup {[row EXCEPT !.attrs = attrs] : attrs \in AttrDeclEdits(row.attrs)}

\* Faulty variant: the overrides of a type go when another type is selected.
ItemEditsDropping(shown, row) ==
    {[EmptyItem EXCEPT !.type = t, !.owner = row.owner] : t \in {t \in ResourceKeys : Shows(shown, "type", t)}}
    \cup {[row EXCEPT !.owner = u] : u \in {u \in UserIds : Shows(shown, "user", u)}}
    \cup {[row EXCEPT !.attrs = [row.attrs EXCEPT ![k] = SetAttr(t)]] :
             k \in {k \in AttrKeys : Shows(shown, "attr", k)}, t \in Typed}

ItemEdits(shown, row) ==
    {[row EXCEPT !.type = t] : t \in {t \in ResourceKeys : Shows(shown, "type", t)}}
    \cup {[row EXCEPT !.owner = u] : u \in {u \in UserIds : Shows(shown, "user", u)}}
    \cup {[row EXCEPT !.attrs = [row.attrs EXCEPT ![k] = SetAttr(t)]] :
             k \in {k \in AttrKeys : Shows(shown, "attr", k)}, t \in Typed}

ConditionEdits(shown, row) ==
    {[row EXCEPT !.type = t] : t \in {NoType} \cup {t \in ResourceKeys : Shows(shown, "type", t)}}
    \cup {[row EXCEPT !.left = t] : t \in Typed}
    \cup {[row EXCEPT !.op = op] : op \in Symbols}
    \cup {[row EXCEPT !.rightType = kind] : kind \in {"attr", "literal"}}
    \cup {[row EXCEPT !.right = t] : t \in Typed}

\* Faulty variant: the menu hands over the ids among its options only.
ConditionPicksShownOnly(shown, row) ==
    {[row EXCEPT !.grants = [row.grants EXCEPT ![k] =
          Conditional(ToggleIn({i \in row.grants[k].conds : Shows(shown, "cond", i)}, c))]] :
        k \in {k \in GrantKeys : Shows(shown, "grant", k) /\ row.grants[k].kind = "conditional"},
        c \in {c \in CondIds : Shows(shown, "cond", c)}}

\* One block per shown type, one line per action that it supports.
ConditionPicks(shown, row) ==
    {[row EXCEPT !.grants = [row.grants EXCEPT ![k] = Conditional(ToggleIn(row.grants[k].conds, c))]] :
        k \in {k \in GrantKeys : Shows(shown, "grant", k) /\ row.grants[k].kind = "conditional"},
        c \in {c \in CondIds : Shows(shown, "cond", c)}}
KindPicks(shown, row, k) ==
    {[row EXCEPT !.grants = [row.grants EXCEPT ![k] = OfKind(kind, row.grants[k])]] :
        kind \in IF Shows(shown, "grant", k) THEN Kinds ELSE {}}

RoleEdits(shown, row) ==
    {[row EXCEPT !.parent = r] : r \in {NoRole} \cup {r \in RoleIds : Shows(shown, "role", r)}}
    \cup ConditionPicks(shown, row)

\* Faulty variant: the menu hands over the roles among its options only.
UserEditsShownOnly(shown, row) ==
    {Toggle(Without(row, {x \in RoleIds : ~Shows(shown, "role", x)}), r) :
        r \in {r \in RoleIds : Shows(shown, "role", r)}}

UserEdits(shown, row) ==
    {Toggle(row, r) : r \in {r \in RoleIds : Shows(shown, "role", r)}}

Edits(p, shown, row) ==
    CASE p = "types" -> TypeEdits(shown, row) [] p = "items" -> ItemEdits(shown, row)
      [] p = "conditions" -> ConditionEdits(shown, row) [] p = "roles" -> RoleEdits(shown, row)
      [] p = "users" -> UserEdits(shown, row)

\* What the Save button asks of a row beside its id.
Valid(p, row) == CASE p = "items" -> row.type # NoType
                   [] p = "conditions" -> row.left # Blank
                   [] OTHER -> TRUE

-----------------------------------------------------------------------------
(* What the service decides once Keto is in step with the tables *)

\* The bag gets the declared attributes in their order, so the last wins.
DeclsOf(attrs) ==
    [k \in AttrKeys |->
        LET at == {i \in DOMAIN attrs : attrs[i].key = k}
        IN  IF at = {} THEN Undeclared
            ELSE attrs[CHOOSE i \in at : \A j \in at : j <= i].value]

ItemOf(db, i) == IF i \in ItemIds /\ db.items[i] # Absent THEN db.items[i] ELSE NoItem

\* The attribute that a text names, in the bag for a type and an item.
Operand(db, type, i, t) ==
    IF NameOf[t] = NoName THEN Missing
    ELSE Lookup(DeclsOf(db.types[type].attrs), ItemOf(db, i), NameOf[t])

RightOperand(db, type, i, c) ==
    IF c.rightType = "literal" THEN Text(c.right) ELSE Operand(db, type, i, c.right)

\* Faulty variant: an unknown condition is skipped.
PassingSkipsUnknown(db, type, i) ==
    {c \in CondIds :
        db.conditions[c] # Absent =>
            ApplyOp(db.conditions[c].op, Operand(db, type, i, db.conditions[c].left),
                    RightOperand(db, type, i, db.conditions[c]))}

\* The conditions that hold; one that has no row does not.
Passing(db, type, i) ==
    {c \in CondIds :
        /\ db.conditions[c] # Absent
        /\ ApplyOp(db.conditions[c].op, Operand(db, type, i, db.conditions[c].left),
                   RightOperand(db, type, i, db.conditions[c]))}

Allowed(db, u, k, i) ==
    /\ db.users[u] # Absent
    /\ db.types[k[1]] # Absent
    /\ LET keto == Tuples(db.roles, db.users)
       IN  Precedence(KetoCheck(keto, u, k, TRUE), KetoCheck(keto, u, k, FALSE),
                      MatchOf(EffectiveUserGrant(db.roles, db.users[u], k)),
                      Passing(db, k[1], i)) = "allow"
=============================================================================
