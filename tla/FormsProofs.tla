------------------------------ MODULE FormsProofs ------------------------------
(***************************************************************************)
(* What the console's forms keep and show, for any tables, edits and other *)
(* clients.                                                                *)
(*                                                                         *)
(* Every form works on the whole row through the parts that it shows, so   *)
(* the arguments rest on one fact: what a form shows now, it has shown.    *)
(***************************************************************************)
EXTENDS Forms, RbacProofs

-----------------------------------------------------------------------------
(* An effect through the two encodings *)

\* What the service sends is what the console reads, and the other way round.
LEMMA CodecsAgree ==
    ASSUME NEW e \in Effects
    PROVE  Decode(GoEncode(e)) = e /\ Decode(JsEncode(e)) = e
  BY DEF Effects, Allow, Deny, Conditional, Decode, GoEncode, JsEncode, Wire

\* So a role is listed as it is stored, and stored as it was in the form.
LEMMA RolesTravel ==
    ASSUME NEW r \in RoleRows
    PROVE  RoleFromWire(r) = r /\ RoleToWire(r) = r
  <1>1. /\ r = [parent |-> r.parent, grants |-> r.grants]
        /\ r.grants \in [GrantKeys -> Effects \cup {NoGrant}]
    BY DEF RoleRows
  <1>2. r.grants = [k \in GrantKeys |->
            IF r.grants[k] = NoGrant THEN NoGrant ELSE Decode(GoEncode(r.grants[k]))]
    BY <1>1, CodecsAgree
  <1>3. r.grants = [k \in GrantKeys |->
            IF r.grants[k] = NoGrant THEN NoGrant ELSE Decode(JsEncode(r.grants[k]))]
    BY <1>1, CodecsAgree
  <1> QED
    BY <1>1, <1>2, <1>3 DEF RoleFromWire, RoleToWire

-----------------------------------------------------------------------------
(* What filter keeps *)

\* filter goes through the values, from the first to the last, and keeps those
\* that are not in the set: out is what it has kept after each.
Filtering(out, R, s, S) ==
    /\ out \in [0..Len(s) -> Seq(R)]
    /\ out[0] = <<>>
    /\ \A k \in 1..Len(s) :
          out[k] = IF s[k] \in S THEN out[k - 1] ELSE Append(out[k - 1], s[k])
    /\ Without(s, S) = out[Len(s)]
LEMMA WithoutTurns ==
    ASSUME NEW R, NEW s \in Seq(R), NEW S
    PROVE  \E out : Filtering(out, R, s, S)
  <1> DEFINE n == Len(s)
             Keep(x, kept) == IF x \in S THEN kept ELSE Append(kept, x)
             step == [k \in 1..n |-> [kept \in Seq(R) |-> Keep(s[k], kept)]]
             IsFold(g) == g = [t \in SUBSET (1..n) |-> IF t = {} THEN <<>>
                                ELSE Keep(s[Max(t)], g[t \ {Max(t)}])]
             fold == CHOOSE g : IsFold(g)
  <1>1. n \in Nat /\ DOMAIN s = 1..n /\ \A k \in 1..n : s[k] \in R
    OBVIOUS
  <1>2. n \in Nat
    BY <1>1
  <1>3. \A x \in R, kept \in Seq(R) : Keep(x, kept) \in Seq(R)
    OBVIOUS
  <1>4. Without(s, S) = fold[1..n]
    BY <1>1 DEF Without, FoldLeft, MapThenFoldSet
  <1> HIDE DEF n, Keep
  <1>5. step \in [1..n -> [Seq(R) -> Seq(R)]] /\ <<>> \in Seq(R)
    BY <1>1, <1>3
  <1>6. PICK g : Folding(g, Seq(R), <<>>, n, step)
    <2> HIDE DEF step
    <2> QED
      BY <1>2, <1>5, FoldExists
  <1>7. IsFold(g)
    <2>1. ASSUME NEW t \in SUBSET (1..n), t # {}
          PROVE  step[Max(t)][g[t \ {Max(t)}]] = Keep(s[Max(t)], g[t \ {Max(t)}])
      <3>1. Max(t) \in 1..n
        BY <1>2, <2>1, GreatestNatural
      <3>2. g[t \ {Max(t)}] \in Seq(R)
        BY <1>6 DEF Folding
      <3> QED
        BY <3>1, <3>2
    <2> HIDE DEF step
    <2> QED
      BY <1>6, <2>1 DEF Folding
  <1>8. IsFold(fold)
    <2> HIDE DEF IsFold
    <2> QED
      BY <1>7
  <1> HIDE DEF fold
  <1> DEFINE out == [k \in 0..n |-> fold[1..k]]
  <1>9. out[0] = <<>>
    BY <1>2, <1>8
  <1>10. ASSUME NEW k \in 1..n PROVE out[k] = Keep(s[k], out[k - 1])
    <2>0. k \in Nat \ {0} /\ k \in 1..k /\ k - 1 \in 0..n /\ k <= n
      BY <1>2
    <2>1. 1..k \in SUBSET (1..n) /\ 1..k # {} /\ k \in Nat \ {0} /\ k - 1 \in 0..n
      BY <1>2, <2>0
    <2>2. Max(1..k) = k /\ (1..k) \ {k} = 1..(k - 1)
      BY <2>1, TopPosition
    <2>3. fold[1..k] = Keep(s[Max(1..k)], fold[(1..k) \ {Max(1..k)}])
      BY <1>8, <2>1
    <2>4. k \in 0..n /\ out[k] = fold[1..k] /\ out[k - 1] = fold[1..(k - 1)]
      BY <2>1, <1>2
    <2> HIDE DEF out
    <2> QED
      BY <2>2, <2>3, <2>4
  <1>11. out \in [0..n -> Seq(R)]
    <2> DEFINE P == {k \in 0..n : out[k] \in Seq(R)}
    <2>1. out = [k \in 0..n |-> out[k]]
      OBVIOUS
    <2> HIDE DEF out
    <2>2. 0 \in P
      <3>1. 0 \in 0..n /\ out[0] \in Seq(R)
        BY <1>2, <1>5, <1>9
      <3> QED
        BY <3>1
    <2>3. ASSUME NEW k \in 1..n, k - 1 \in P PROVE k \in P
      BY <1>1, <1>3, <1>10, <2>3
    <2> HIDE DEF P
    <2>4. \A k \in 0..n : k \in P
      BY <1>2, <2>2, <2>3, CountingTo
    <2> QED
      BY <2>1, <2>4 DEF P
  <1>12. out[n] = fold[1..n]
    BY <1>2
  <1> HIDE DEF out
  <1>13. Filtering(out, R, s, S)
    BY <1>4, <1>9, <1>10, <1>11, <1>12 DEF Filtering, n, Keep
  <1> QED
    BY <1>13

\* A value more at the end is kept at the end, or not at all.
LEMMA WithoutAppend ==
    ASSUME NEW R, NEW s \in Seq(R), NEW x \in R, NEW S
    PROVE  Without(Append(s, x), S) = IF x \in S THEN Without(s, S)
                                      ELSE Append(Without(s, S), x)
  <1> DEFINE n == Len(s)
             longer == Append(s, x)
  <1>1. PICK out : Filtering(out, R, s, S)
    BY WithoutTurns
  <1>2. longer \in Seq(R) /\ Len(longer) = n + 1 /\ longer[n + 1] = x
        /\ \A k \in 1..n : longer[k] = s[k]
    OBVIOUS
  <1>3. PICK more : Filtering(more, R, longer, S)
    BY <1>2, WithoutTurns
  <1>4. n \in Nat
    OBVIOUS
  <1>4a. /\ out[0] = <<>> /\ more[0] = <<>>
         /\ \A k \in 1..n : out[k] = IF s[k] \in S THEN out[k - 1]
                                     ELSE Append(out[k - 1], s[k])
         /\ \A k \in 1..(n + 1) : more[k] = IF longer[k] \in S THEN more[k - 1]
                                           ELSE Append(more[k - 1], longer[k])
         /\ Without(s, S) = out[n] /\ Without(longer, S) = more[n + 1]
    <2> HIDE DEF longer
    <2> QED
      BY <1>1, <1>2, <1>3 DEF Filtering
  <1> HIDE DEF n, longer
  <1> DEFINE P == {k \in 0..n : more[k] = out[k]}
  <1>5. 0 \in P
    BY <1>4, <1>4a
  <1>6. ASSUME NEW k \in 1..n, k - 1 \in P PROVE k \in P
    <2>1. k \in 0..n /\ k \in 1..(n + 1) /\ longer[k] = s[k]
      BY <1>2, <1>4
    <2> QED
      BY <1>4a, <1>6, <2>1
  <1>7. \A k \in 0..n : k \in P
    <2> HIDE DEF P
    <2> QED
      BY <1>4, <1>5, <1>6, CountingTo
  <1>8. more[n] = out[n] /\ n + 1 \in 1..(n + 1) /\ (n + 1) - 1 = n
    BY <1>4, <1>7
  <1> QED
    BY <1>2, <1>4a, <1>8 DEF longer

\* Filtering twice is filtering once by both sets; and what is kept is of the kind
\* that there was.
LEMMA WithoutTwice ==
    ASSUME NEW R, NEW s \in Seq(R), NEW S, NEW T
    PROVE  /\ Without(s, S) \in Seq(R)
           /\ Without(Without(s, S), T) = Without(s, S \cup T)
  <1> DEFINE n == Len(s)
  <1>1. PICK out : Filtering(out, R, s, S)
    BY WithoutTurns
  <1>2. PICK both : Filtering(both, R, s, S \cup T)
    BY WithoutTurns
  <1>3. n \in Nat /\ \A k \in 1..n : s[k] \in R
    OBVIOUS
  <1>3a. /\ out \in [0..n -> Seq(R)] /\ out[0] = <<>> /\ both[0] = <<>>
         /\ \A k \in 1..n : out[k] = IF s[k] \in S THEN out[k - 1]
                                     ELSE Append(out[k - 1], s[k])
         /\ \A k \in 1..n : both[k] = IF s[k] \in S \cup T THEN both[k - 1]
                                      ELSE Append(both[k - 1], s[k])
         /\ Without(s, S) = out[n] /\ Without(s, S \cup T) = both[n]
    BY <1>1, <1>2 DEF Filtering
  <1>4. Without(<<>>, T) = <<>>
    <2>1. <<>> \in Seq(R) /\ Len(<<>>) = 0
      OBVIOUS
    <2>2. PICK none : Filtering(none, R, <<>>, T)
      BY <2>1, WithoutTurns
    <2> QED
      BY <2>1, <2>2 DEF Filtering
  <1> HIDE DEF n
  <1> DEFINE P == {k \in 0..n : Without(out[k], T) = both[k]}
  <1>5. 0 \in P
    BY <1>3, <1>3a, <1>4
  <1>6. ASSUME NEW k \in 1..n, k - 1 \in P PROVE k \in P
    <2>1. k - 1 \in 0..n /\ k \in 0..n /\ s[k] \in R /\ out[k - 1] \in Seq(R)
      BY <1>3, <1>3a
    <2>2. \A kept \in Seq(R), x \in R :
             Without(Append(kept, x), T) = IF x \in T THEN Without(kept, T)
                                           ELSE Append(Without(kept, T), x)
      BY WithoutAppend
    <2> QED
      BY <1>3a, <1>6, <2>1, <2>2
  <1>7. \A k \in 0..n : k \in P
    <2> HIDE DEF P
    <2> QED
      BY <1>3, <1>5, <1>6, CountingTo
  <1>8. n \in 0..n
    BY <1>3
  <1> QED
    BY <1>3a, <1>7, <1>8

-----------------------------------------------------------------------------
(* The invariant *)

\* The form of a page holds rows of it, and has shown what it shows.
RowOK(row) == row \in RowsOf(page)
FormOK ==
    form # None =>
        /\ page \in Pages
        /\ form = [id |-> form.id, isNew |-> form.isNew, row |-> form.row,
                   opened |-> form.opened, seen |-> form.seen, kinds |-> form.kinds]
        /\ form.id \in IdsOf(page) \cup {None}
        /\ RowOK(form.row) /\ RowOK(form.opened)
        /\ Shown(page, db, form.id, form.row) \subseteq form.seen

FormsInv == /\ db \in Db /\ FormOK
            /\ HiddenGrantsSurvive /\ HiddenOverridesSurvive /\ HiddenRolesSurvive

\* The pages, with their tables and rows.
LEMMA PagesAre ==
    /\ Pages = {"types", "items", "conditions", "roles", "users"}
    /\ IdsOf("types") = ResourceKeys /\ RowsOf("types") = TypeRows
    /\ IdsOf("items") = ItemIds /\ RowsOf("items") = ItemRows
    /\ IdsOf("conditions") = CondIds /\ RowsOf("conditions") = ConditionRows
    /\ IdsOf("roles") = RoleIds /\ RowsOf("roles") = RoleRows
    /\ IdsOf("users") = UserIds /\ RowsOf("users") = UserRows
  BY DEF Pages, IdsOf, RowsOf

\* A table has the ids of its page, and their rows.
LEMMA TablesAre ==
    ASSUME db \in Db
    PROVE  /\ db = [p \in Pages |-> [id \in IdsOf(p) |-> db[p][id]]]
           /\ \A p \in Pages : db[p] \in [IdsOf(p) -> RowsOf(p) \cup {Absent}]
           /\ db["roles"] \in RoleTables
  BY PagesAre DEF Db, RoleTables, UserTables

\* The rows that New starts from are rows.
LEMMA EmptyRowsOK == \A p \in Pages : EmptyOf(p) \in RowsOf(p)
  <1>1. EmptyType \in TypeRows /\ EmptyUser \in UserRows
    BY DEF EmptyType, TypeRows, EmptyUser, UserRows
  <1>2. EmptyRole \in RoleRows /\ EmptyItem \in ItemRows
    BY DEF EmptyRole, RoleRows, EmptyItem, ItemRows, Values
  <1>3. EmptyCondition \in ConditionRows
    BY ConversionAssumption DEF EmptyCondition, ConditionRows, Symbols
  <1> QED
    BY <1>1, <1>2, <1>3 DEF Pages, RowsOf, EmptyOf

\* A row put by the service, or taken away, leaves the tables tables.
LEMMA PutKeepsTables ==
    ASSUME db \in Db, NEW p \in Pages, NEW id \in IdsOf(p),
           NEW row \in RowsOf(p) \cup {Absent}, db' = [db EXCEPT ![p][id] = row]
    PROVE  db' \in Db
  <1>1. db' = [db EXCEPT ![p] = [db[p] EXCEPT ![id] = row]]
    BY DEF Db
  <1>2. [db[p] EXCEPT ![id] = row] \in [IdsOf(p) -> RowsOf(p) \cup {Absent}]
    BY TablesAre
  <1>3. p = "roles" => [db[p] EXCEPT ![id] = row] \in RoleTables
    BY TablesAre, PagesAre, WrittenRoleTable
  <1>4. CASE p = "types"
    BY <1>1, <1>2, <1>4, PagesAre DEF Db
  <1>5. CASE p = "items"
    BY <1>1, <1>2, <1>5, PagesAre DEF Db
  <1>6. CASE p = "conditions"
    BY <1>1, <1>2, <1>6, PagesAre DEF Db
  <1>7. CASE p = "roles"
    BY <1>1, <1>3, <1>7, PagesAre DEF Db
  <1>8. CASE p = "users"
    BY <1>1, <1>2, <1>8, PagesAre DEF Db, UserTables
  <1> QED
    BY <1>4, <1>5, <1>6, <1>7, <1>8, PagesAre

-----------------------------------------------------------------------------
(* What an edit does *)

\* An edit of a role leaves the grants that are not shown, and the condition ids
\* that are not shown, as they are.
LEMMA RoleEditsKeepHidden ==
    ASSUME NEW shown, NEW row \in RoleRows, NEW new \in RoleEdits(shown, row)
    PROVE  /\ new \in RoleRows
           /\ \A k \in GrantKeys :
                 /\ Shows(shown, "grant", k) \/ new.grants[k] = row.grants[k]
                 /\ new.grants[k].kind = row.grants[k].kind
                 /\ {c \in new.grants[k].conds : ~Shows(shown, "cond", c)}
                        = {c \in row.grants[k].conds : ~Shows(shown, "cond", c)}
           /\ new.parent \in {NoRole, row.parent} \/ Shows(shown, "role", new.parent)
  <1>1. CASE \E r \in {NoRole} \cup {r \in RoleIds : Shows(shown, "role", r)} :
                new = [row EXCEPT !.parent = r]
    BY <1>1 DEF RoleRows
  <1>2. CASE new \in ConditionPicks(shown, row)
    <2>1. PICK k \in GrantKeys, c \in CondIds :
             /\ Shows(shown, "grant", k) /\ row.grants[k].kind = "conditional"
             /\ Shows(shown, "cond", c)
             /\ new = [row EXCEPT !.grants = [row.grants EXCEPT ![k] =
                           Conditional(ToggleIn(row.grants[k].conds, c))]]
      BY <1>2 DEF ConditionPicks
    <2>2. row.grants \in [GrantKeys -> Effects \cup {NoGrant}]
      BY DEF RoleRows
    <2>3. row.grants[k].conds \in SUBSET CondIds
      BY <2>2 DEF Effects, NoGrant, Allow, Deny, Conditional
    <2>4. DEFINE conds == ToggleIn(row.grants[k].conds, c)
    <2>5. /\ conds \in SUBSET CondIds
          /\ {i \in conds : ~Shows(shown, "cond", i)}
                 = {i \in row.grants[k].conds : ~Shows(shown, "cond", i)}
      BY <2>1, <2>3 DEF ToggleIn
    <2>6. /\ Conditional(conds) \in Effects
          /\ Conditional(conds).kind = "conditional" /\ Conditional(conds).conds = conds
      BY <2>5 DEF Effects, Conditional
    <2> HIDE DEF conds
    <2>7. /\ new.parent = row.parent
          /\ new.grants = [row.grants EXCEPT ![k] = Conditional(conds)]
          /\ new \in RoleRows
      BY <2>1, <2>2, <2>6 DEF RoleRows, conds
    <2> QED
      BY <2>1, <2>2, <2>5, <2>6, <2>7
  <1> QED
    BY <1>1, <1>2 DEF RoleEdits

\* Picking a kind changes one grant, which is shown, and adds no condition id.
LEMMA KindPicksKeepHidden ==
    ASSUME NEW shown, NEW row \in RoleRows, NEW k \in GrantKeys,
           NEW new \in KindPicks(shown, row, k)
    PROVE  /\ new \in RoleRows
           /\ Shows(shown, "grant", k)
           /\ new.grants = [row.grants EXCEPT ![k] = new.grants[k]]
           /\ new.grants[k].conds \subseteq row.grants[k].conds
           /\ new.parent = row.parent
  <1>1. PICK kind \in Kinds :
           /\ Shows(shown, "grant", k)
           /\ new = [row EXCEPT !.grants = [row.grants EXCEPT ![k] =
                         OfKind(kind, row.grants[k])]]
    BY DEF KindPicks
  <1>2. row.grants \in [GrantKeys -> Effects \cup {NoGrant}]
    BY DEF RoleRows
  <1>3. row.grants[k].conds \in SUBSET CondIds
    BY <1>2 DEF Effects, NoGrant, Allow, Deny, Conditional
  <1>4. /\ OfKind(kind, row.grants[k]) \in Effects \cup {NoGrant}
        /\ OfKind(kind, row.grants[k]).conds \subseteq row.grants[k].conds
    BY <1>3 DEF OfKind, Kinds, Effects, NoGrant, Allow, Deny, Conditional
  <1> QED
    BY <1>1, <1>2, <1>4 DEF RoleRows

\* An edit of an item leaves the overrides that are not shown as they are.
LEMMA ItemEditsKeepHidden ==
    ASSUME NEW shown, NEW row \in ItemRows, NEW new \in ItemEdits(shown, row)
    PROVE  /\ new \in ItemRows
           /\ \A k \in AttrKeys : Shows(shown, "attr", k) \/ new.attrs[k] = row.attrs[k]
  <1>1. CASE \E t \in ResourceKeys : new = [row EXCEPT !.type = t]
    BY <1>1 DEF ItemRows
  <1>2. CASE \E u \in UserIds : new = [row EXCEPT !.owner = u]
    BY <1>2 DEF ItemRows
  <1>3. ASSUME NEW k \in AttrKeys, NEW t \in Typed, Shows(shown, "attr", k),
               new = [row EXCEPT !.attrs = [row.attrs EXCEPT ![k] = SetAttr(t)]]
        PROVE  /\ new \in ItemRows
               /\ \A j \in AttrKeys : Shows(shown, "attr", j) \/ new.attrs[j] = row.attrs[j]
    <2>1. SetAttr(t) \in Values
      BY FormAssumption DEF SetAttr, Values
    <2> QED
      BY <1>3, <2>1 DEF ItemRows
  <1> QED
    BY <1>1, <1>2, <1>3 DEF ItemEdits

\* A role that is not shown keeps its place when a shown one is picked.
LEMMA UserEditsKeepHidden ==
    ASSUME NEW shown, NEW row \in UserRows, NEW new \in UserEdits(shown, row),
           NEW S, \A r \in RoleIds : Shows(shown, "role", r) => r \in S
    PROVE  new \in UserRows /\ Without(new, S) = Without(row, S)
  <1>1. PICK r \in RoleIds : Shows(shown, "role", r) /\ new = Toggle(row, r)
    BY DEF UserEdits
  <1>2. r \in S /\ {r} \cup S = S
    BY <1>1
  <1>3. row \in Seq(RoleIds)
    BY DEF UserRows
  <1>4. CASE new = Without(row, {r})
    <2>1. /\ Without(row, {r}) \in Seq(RoleIds)
          /\ Without(Without(row, {r}), S) = Without(row, {r} \cup S)
      BY <1>3, WithoutTwice
    <2> QED
      BY <1>2, <1>4, <2>1 DEF UserRows
  <1>5. CASE new = Append(row, r)
    <2>1. Without(Append(row, r), S) = Without(row, S)
      BY <1>2, <1>3, WithoutAppend
    <2> QED
      BY <1>3, <1>5, <2>1 DEF UserRows
  <1> QED
    BY <1>1, <1>4, <1>5 DEF Toggle

\* An edit of a resource type makes a resource type of it.
LEMMA TypeEditsType ==
    ASSUME NEW shown, NEW row \in TypeRows, NEW new \in TypeEdits(shown, row)
    PROVE  new \in TypeRows
  <1>1. row.attrs \in Seq(AttrDecls) /\ row.actions \in SUBSET Actions
    BY DEF TypeRows
  <1>2. ASSUME NEW a \in Actions PROVE ToggleIn(row.actions, a) \in SUBSET Actions
    BY <1>1 DEF ToggleIn
  <1>3. ASSUME NEW t \in Typed PROVE Coerce(t) \in Values
    <2>1. t \in Texts /\ NumberOf[t] \in Numbers \cup {NaN}
      BY FormAssumption
    <2> QED
      BY <2>1 DEF Coerce, Values
  <1>4. ASSUME NEW attrs \in AttrDeclEdits(row.attrs) PROVE attrs \in Seq(AttrDecls)
    <2> DEFINE old == row.attrs
    <2>1. old \in Seq(AttrDecls)
      BY <1>1
    <2>2. \A i \in DOMAIN old : old[i] \in AttrDecls
      BY <2>1
    <2> HIDE DEF old
    <2>3. CASE attrs = Append(old, [key |-> Blank, value |-> Text(Blank)])
      <3>1. [key |-> Blank, value |-> Text(Blank)] \in AttrDecls
        BY ConversionAssumption DEF AttrDecls, Values
      <3> QED
        BY <2>1, <2>3, <3>1
    <2>4. ASSUME NEW i \in DOMAIN old, attrs = RemoveAt(old, i)
          PROVE  attrs \in Seq(AttrDecls)
      <3>1. i \in 1..Len(old) /\ Len(old) \in Nat
        BY <2>1, <2>4
      <3>2. SubSeq(old, 1, i - 1) \in Seq(AttrDecls) /\ SubSeq(old, i + 1, Len(old)) \in Seq(AttrDecls)
        BY <2>1, <3>1
      <3> QED
        BY <2>4, <3>2 DEF RemoveAt
    <2>5. ASSUME NEW i \in DOMAIN old, NEW d \in AttrDecls, attrs = [old EXCEPT ![i] = d]
          PROVE  attrs \in Seq(AttrDecls)
      BY <2>1, <2>5
    <2>6. ASSUME NEW i \in DOMAIN old, NEW k \in AttrKeys \cup {Blank},
                 attrs = [old EXCEPT ![i].key = k]
          PROVE  attrs \in Seq(AttrDecls)
      <3>1. [old[i] EXCEPT !.key = k] \in AttrDecls
        BY <2>2 DEF AttrDecls
      <3> QED
        BY <2>5, <2>6, <3>1
    <2>7. ASSUME NEW i \in DOMAIN old, NEW t \in Typed,
                 attrs = [old EXCEPT ![i].value = Coerce(t)]
          PROVE  attrs \in Seq(AttrDecls)
      <3>1. [old[i] EXCEPT !.value = Coerce(t)] \in AttrDecls
        BY <1>3, <2>2 DEF AttrDecls
      <3> QED
        BY <2>5, <2>7, <3>1
    <2> QED
      BY <2>3, <2>4, <2>6, <2>7 DEF AttrDeclEdits, old
  <1>5. CASE \E a \in Actions : new = [row EXCEPT !.actions = ToggleIn(row.actions, a)]
    BY <1>2, <1>5 DEF TypeRows
  <1>6. CASE \E attrs \in AttrDeclEdits(row.attrs) : new = [row EXCEPT !.attrs = attrs]
    BY <1>4, <1>6 DEF TypeRows
  <1> QED
    BY <1>5, <1>6 DEF TypeEdits

\* An edit of a condition makes a condition of it.
LEMMA ConditionEditsType ==
    ASSUME NEW shown, NEW row \in ConditionRows, NEW new \in ConditionEdits(shown, row)
    PROVE  new \in ConditionRows
  <1>1. Typed \subseteq Texts
    BY FormAssumption
  <1> QED
    BY <1>1 DEF ConditionEdits, ConditionRows

-----------------------------------------------------------------------------
(* The forms keep what they do not show *)

\* The form goes on with a row, made from its old one by an event in what it has
\* shown.
GoesOn(id, row, kinds) ==
    /\ page' = page
    /\ form' = [id |-> id, isNew |-> form.isNew, row |-> row, opened |-> form.opened,
                kinds |-> form.kinds \cup kinds,
                seen |-> form.seen \cup Shown(page, db', id, row)]

\* Such a row keeps what the form has never shown.
LEMMA GoingOnKeeps ==
    ASSUME FormsInv, form # None, db' \in Db, NEW id \in IdsOf(page) \cup {None},
           NEW row, NEW kinds, GoesOn(id, row, kinds), RowOK(row),
           page = "roles" =>
               /\ \A k \in GrantKeys :
                     /\ Seen("grant", k) \/ row.grants[k] = form.row.grants[k]
                     /\ \/ k \in kinds
                        \/ /\ row.grants[k].kind = form.row.grants[k].kind
                           /\ HiddenConds(row.grants[k]) = HiddenConds(form.row.grants[k])
                     /\ HiddenConds(row.grants[k]) \subseteq HiddenConds(form.row.grants[k])
               /\ row.parent \in {NoRole, form.row.parent} \/ Seen("role", row.parent),
           page = "items" =>
               \A k \in AttrKeys : Seen("attr", k) \/ row.attrs[k] = form.row.attrs[k],
           page = "users" => Without(row, SeenRoles) = Without(form.row, SeenRoles)
    PROVE  FormsInv'
  <1>1. /\ form'.row = row /\ form'.opened = form.opened
        /\ form'.kinds = form.kinds \cup kinds
        /\ form'.seen = form.seen \cup Shown(page, db', id, row)
        /\ form'.id = id
        /\ page' = page
    BY DEF GoesOn
  <1>3. FormOK'
    BY <1>1 DEF FormsInv, FormOK, RowOK, GoesOn
  <1>4. ASSUME page = "roles" PROVE HiddenGrantsSurvive'
    <2> DEFINE Rest(effect) == {c \in effect.conds : ~Seen("cond", c)'}
               old(k) == form.row.grants[k]
               opened(k) == form.opened.grants[k]
    <2>1. \A tag, value : Seen(tag, value) => Seen(tag, value)'
      BY <1>1 DEF Seen, Shows
    <2>2. \A e : Rest(e) = {c \in HiddenConds(e) : ~Seen("cond", c)'}
      BY <2>1 DEF HiddenConds
    <2>3. /\ \A k \in GrantKeys :
              /\ Seen("grant", k) \/ old(k) = opened(k)
              /\ \/ k \in form.kinds
                 \/ old(k).kind = opened(k).kind /\ HiddenConds(old(k)) = HiddenConds(opened(k))
              /\ HiddenConds(old(k)) \subseteq HiddenConds(opened(k))
          /\ form.row.parent \in {NoRole, form.opened.parent} \/ Seen("role", form.row.parent)
      BY <1>4 DEF FormsInv, HiddenGrantsSurvive
    <2>4. ASSUME NEW k \in GrantKeys
          PROVE  /\ Seen("grant", k)' \/ row.grants[k] = opened(k)
                 /\ \/ k \in form.kinds \cup kinds
                    \/ row.grants[k].kind = opened(k).kind /\ Rest(row.grants[k]) = Rest(opened(k))
                 /\ Rest(row.grants[k]) \subseteq Rest(opened(k))
      <3> DEFINE new == row.grants[k]
      <3>1. /\ Seen("grant", k) \/ new = old(k)
            /\ \/ k \in kinds
               \/ new.kind = old(k).kind /\ HiddenConds(new) = HiddenConds(old(k))
            /\ HiddenConds(new) \subseteq HiddenConds(old(k))
        BY <1>4
      <3> HIDE DEF new, old, opened, Rest
      <3>2. Seen("grant", k)' \/ new = opened(k)
        BY <2>1, <2>3, <3>1
      <3>3. \/ k \in form.kinds \cup kinds
            \/ new.kind = opened(k).kind /\ Rest(new) = Rest(opened(k))
        BY <2>2, <2>3, <3>1
      <3>4. Rest(new) \subseteq Rest(opened(k))
        BY <2>2, <2>3, <3>1
      <3> QED
        BY <3>2, <3>3, <3>4 DEF new
    <2>5. row.parent \in {NoRole, form.opened.parent} \/ Seen("role", row.parent)'
      BY <1>4, <2>1, <2>3
    <2> QED
      BY <1>1, <2>4, <2>5 DEF HiddenGrantsSurvive, HiddenConds
  <1>5. ASSUME page = "items" PROVE HiddenOverridesSurvive'
    <2>1. \A k \in AttrKeys : Seen("attr", k) \/ row.attrs[k] = form.opened.attrs[k]
      BY <1>5 DEF FormsInv, HiddenOverridesSurvive
    <2>2. \A k \in AttrKeys : Seen("attr", k) => Seen("attr", k)'
      BY <1>1 DEF Seen, Shows
    <2> QED
      BY <1>1, <2>1, <2>2 DEF HiddenOverridesSurvive
  <1>5a. ASSUME page = "users" PROVE HiddenRolesSurvive'
    <2> DEFINE S == SeenRoles'
    <2>1. S = SeenRoles \cup S
      BY <1>1 DEF SeenRoles, Seen, Shows
    <2>2. Without(row, SeenRoles) = Without(form.opened, SeenRoles)
      BY <1>5a DEF FormsInv, HiddenRolesSurvive
    <2>3. row \in Seq(RoleIds) /\ form.opened \in Seq(RoleIds)
      BY <1>5a, PagesAre DEF FormsInv, FormOK, RowOK, UserRows
    <2> HIDE DEF S
    <2>4. /\ Without(row, SeenRoles \cup S) = Without(Without(row, SeenRoles), S)
          /\ Without(form.opened, SeenRoles \cup S) = Without(Without(form.opened, SeenRoles), S)
      BY <2>3, WithoutTwice
    <2>5. Without(row, S) = Without(form.opened, S)
      BY <2>1, <2>2, <2>4
    <2> QED
      BY <1>1, <2>5 DEF HiddenRolesSurvive, S
  <1>6. HiddenGrantsSurvive' /\ HiddenOverridesSurvive' /\ HiddenRolesSurvive'
    BY <1>1, <1>4, <1>5, <1>5a
       DEF HiddenGrantsSurvive, HiddenOverridesSurvive, HiddenRolesSurvive
  <1> QED
    BY <1>3, <1>6 DEF FormsInv

\* Without a form there is nothing to keep but the tables.
LEMMA NoFormKeeps ==
    ASSUME db' \in Db, form' = None
    PROVE  FormsInv'
  BY DEF FormsInv, FormOK, HiddenGrantsSurvive, HiddenOverridesSurvive, HiddenRolesSurvive

\* The lists change under the form, or the id is typed.
LEMMA SameRowKeeps ==
    ASSUME FormsInv, form # None, db' \in Db, NEW id \in IdsOf(page) \cup {None},
           GoesOn(id, form.row, {})
    PROVE  FormsInv'
  <1>1. RowOK(form.row)
    BY DEF FormsInv, FormOK
  <1> QED
    BY <1>1, GoingOnKeeps

\* An event in what the form shows gives it a new row.
LEMMA BecomesGoesOn ==
    ASSUME FormsInv, form # None, NEW id, NEW row, NEW kinds, Becomes(id, row, kinds)
    PROVE  GoesOn(id, row, kinds) /\ db' \in Db
  BY DEF FormsInv, FormOK, Becomes, GoesOn

\* Opening a form keeps the invariant: it starts with the row it was opened with.
LEMMA OpenKeeps ==
    ASSUME FormsInv, NEW id \in IdsOf(page) \cup {None}, NEW row, NEW isNew,
           Open(id, row, isNew), RowOK(row)
    PROVE  FormsInv'
  <1>1. /\ form' = [id |-> id, isNew |-> isNew, row |-> row, opened |-> row,
                    seen |-> Shown(page, db, id, row), kinds |-> {}]
        /\ UNCHANGED <<db, page>> /\ page \in Pages
    BY DEF Open
  <1>2. form'.row = row /\ form'.opened = row
    BY <1>1
  <1>3. db' \in Db /\ FormOK'
    BY <1>1 DEF FormsInv, FormOK, RowOK
  <1>4. HiddenGrantsSurvive' /\ HiddenOverridesSurvive' /\ HiddenRolesSurvive'
    BY <1>2 DEF HiddenGrantsSurvive, HiddenOverridesSurvive, HiddenRolesSurvive, HiddenConds
  <1> QED
    BY <1>3, <1>4 DEF FormsInv

\* An edit of what the form shows keeps the invariant.
LEMMA ChangeKeeps ==
    ASSUME FormsInv, Change
    PROVE  FormsInv'
  <1> DEFINE shown == Shown(page, db, form.id, form.row)
  <1>1. PICK row \in Edits(page, shown, form.row) :
           form # None /\ Becomes(form.id, row, {})
    BY DEF Change
  <1>2. GoesOn(form.id, row, {}) /\ db' \in Db
    BY <1>1, BecomesGoesOn
  <1>3. /\ RowOK(form.row) /\ form.id \in IdsOf(page) \cup {None} /\ page \in Pages
        /\ \A tag, value : Shows(shown, tag, value) => Seen(tag, value)
    BY <1>1 DEF FormsInv, FormOK, Shows, Seen
  <1> HIDE DEF shown
  <1>4. CASE page = "roles"
    <2>1. row \in RoleEdits(shown, form.row) /\ form.row \in RoleRows
      BY <1>3, <1>4, PagesAre DEF Edits, RowOK
    <2>2. /\ row \in RoleRows
          /\ \A k \in GrantKeys :
                /\ Shows(shown, "grant", k) \/ row.grants[k] = form.row.grants[k]
                /\ row.grants[k].kind = form.row.grants[k].kind
                /\ {c \in row.grants[k].conds : ~Shows(shown, "cond", c)}
                       = {c \in form.row.grants[k].conds : ~Shows(shown, "cond", c)}
          /\ row.parent \in {NoRole, form.row.parent} \/ Shows(shown, "role", row.parent)
      BY <2>1, RoleEditsKeepHidden
    <2>3. \A k \in GrantKeys : HiddenConds(row.grants[k]) = HiddenConds(form.row.grants[k])
      BY <1>3, <2>2 DEF HiddenConds
    <2>4. RowOK(row)
      BY <1>4, <2>2, PagesAre DEF RowOK
    <2> QED
      BY <1>1, <1>2, <1>3, <1>4, <2>2, <2>3, <2>4, GoingOnKeeps
  <1>5. CASE page = "items"
    <2>1. row \in ItemEdits(shown, form.row) /\ form.row \in ItemRows
      BY <1>3, <1>5, PagesAre DEF Edits, RowOK
    <2>2. RowOK(row)
      BY <1>5, <2>1, ItemEditsKeepHidden, PagesAre DEF RowOK
    <2>3. \A k \in AttrKeys : Seen("attr", k) \/ row.attrs[k] = form.row.attrs[k]
      BY <1>3, <2>1, ItemEditsKeepHidden
    <2> QED
      BY <1>1, <1>2, <1>3, <1>5, <2>2, <2>3, GoingOnKeeps
  <1>6. CASE page = "users"
    <2>1. row \in UserEdits(shown, form.row) /\ form.row \in UserRows
      BY <1>3, <1>6, PagesAre DEF Edits, RowOK
    <2>2. \A r \in RoleIds : Shows(shown, "role", r) => r \in SeenRoles
      BY <1>3 DEF SeenRoles
    <2>3. row \in UserRows /\ Without(row, SeenRoles) = Without(form.row, SeenRoles)
      BY <2>1, <2>2, UserEditsKeepHidden
    <2>4. RowOK(row)
      BY <1>6, <2>3, PagesAre DEF RowOK
    <2> QED
      BY <1>1, <1>2, <1>3, <1>6, <2>3, <2>4, GoingOnKeeps
  <1>7. CASE page \in {"types", "conditions"}
    <2>1. RowOK(row)
      BY <1>3, <1>7, PagesAre, TypeEditsType, ConditionEditsType DEF Edits, RowOK
    <2> QED
      BY <1>1, <1>2, <1>3, <1>7, <2>1, GoingOnKeeps
  <1> QED
    BY <1>3, <1>4, <1>5, <1>6, <1>7, PagesAre

\* So does picking the kind of a grant.
LEMMA PickKindKeeps ==
    ASSUME FormsInv, PickKind
    PROVE  FormsInv'
  <1> DEFINE shown == Shown(page, db, form.id, form.row)
  <1>0. PICK k \in GrantKeys :
           \E row \in KindPicks(shown, form.row, k) :
               form # None /\ page = "roles" /\ Becomes(form.id, row, {k})
    BY DEF PickKind
  <1>1. PICK row \in KindPicks(shown, form.row, k) :
           form # None /\ page = "roles" /\ Becomes(form.id, row, {k})
    BY <1>0
  <1>2. GoesOn(form.id, row, {k}) /\ db' \in Db
    BY <1>1, BecomesGoesOn
  <1>3. /\ form.row \in RoleRows /\ form.id \in IdsOf(page) \cup {None}
        /\ Shows(shown, "grant", k) => Seen("grant", k)
    BY <1>1, PagesAre DEF FormsInv, FormOK, RowOK, Shows, Seen
  <1> HIDE DEF shown
  <1>4. /\ row \in RoleRows
        /\ Shows(shown, "grant", k)
        /\ row.grants = [form.row.grants EXCEPT ![k] = row.grants[k]]
        /\ row.grants[k].conds \subseteq form.row.grants[k].conds
        /\ row.parent = form.row.parent
    <2>1. /\ form.row \in RoleRows /\ k \in GrantKeys
          /\ row \in KindPicks(shown, form.row, k)
      BY <1>0, <1>1, <1>3
    <2> QED
      BY <2>1, KindPicksKeepHidden
  <1>5. RowOK(row)
    BY <1>1, <1>4, PagesAre DEF RowOK
  <1>6. \A j \in GrantKeys : j = k \/ row.grants[j] = form.row.grants[j]
    BY <1>3, <1>4 DEF RoleRows
  <1>7. \A j \in GrantKeys :
           /\ Seen("grant", j) \/ row.grants[j] = form.row.grants[j]
           /\ \/ j \in {k}
              \/ /\ row.grants[j].kind = form.row.grants[j].kind
                 /\ HiddenConds(row.grants[j]) = HiddenConds(form.row.grants[j])
           /\ HiddenConds(row.grants[j]) \subseteq HiddenConds(form.row.grants[j])
    BY <1>3, <1>4, <1>6 DEF HiddenConds
  <1> QED
    BY <1>1, <1>2, <1>3, <1>4, <1>5, <1>7, GoingOnKeeps

\* What is saved is a row of its page.
LEMMA SaveKeeps ==
    ASSUME FormsInv, Save
    PROVE  FormsInv'
  <1>1. /\ page \in Pages /\ RowOK(form.row) /\ form.id \in IdsOf(page)
        /\ db' = [db EXCEPT ![page][form.id] = Stored(page, form.row)]
        /\ form' = None
    BY DEF FormsInv, FormOK, Save
  <1>2. Stored(page, form.row) \in RowsOf(page)
    BY <1>1, RolesTravel, PagesAre DEF Stored, RowOK
  <1>3. db' \in Db
    BY <1>1, <1>2, PutKeepsTables DEF FormsInv
  <1> QED
    BY <1>1, <1>3, NoFormKeeps

\* Rows put or deleted elsewhere change what the form shows, not its row.
LEMMA OthersKeep ==
    ASSUME FormsInv, NEW p \in Pages, Delete(p) \/ OtherPut(p)
    PROVE  FormsInv'
  <1>1. \E id \in IdsOf(p), row \in RowsOf(p) \cup {Absent} :
            db' = [db EXCEPT ![p][id] = row]
    <2>1. CASE Delete(p)
      BY <2>1, TablesAre DEF Delete, Present, FormsInv
    <2>2. CASE OtherPut(p)
      <3>1. PICK id \in IdsOf(p), row \in OtherPuts[p] : db' = [db EXCEPT ![p][id] = row]
        BY <2>2 DEF OtherPut
      <3>2. row \in RowsOf(p)
        BY FormsAssumption
      <3> QED
        BY <3>1, <3>2
    <2> QED
      BY <2>1, <2>2
  <1>2. db' \in Db
    BY <1>1, PutKeepsTables DEF FormsInv
  <1>3. WithLists /\ page' = page
    BY DEF Delete, OtherPut
  <1>4. CASE form = None
    BY <1>2, <1>3, <1>4, NoFormKeeps DEF WithLists
  <1>5. CASE form # None
    <2>1. GoesOn(form.id, form.row, {}) /\ form.id \in IdsOf(page) \cup {None}
      BY <1>3, <1>5 DEF WithLists, GoesOn, FormsInv, FormOK
    <2> QED
      BY <1>2, <1>5, <2>1, SameRowKeeps
  <1> QED
    BY <1>4, <1>5

\* FormsInv is inductive.
LEMMA FormsInduction == FormsInv /\ [FormsNext]_formsVars => FormsInv'
  <1> SUFFICES ASSUME FormsInv, [FormsNext]_formsVars PROVE FormsInv'
    OBVIOUS
  <1>1. CASE UNCHANGED <<db, page, form>>
    BY <1>1 DEF FormsInv, FormOK, RowOK, HiddenGrantsSurvive, HiddenOverridesSurvive,
                HiddenRolesSurvive, HiddenConds, SeenRoles, Seen
  <1>2. CASE OpenNew
    <2>1. RowOK(EmptyOf(page))
      BY <1>2, EmptyRowsOK DEF RowOK, OpenNew, Open
    <2> QED
      BY <1>2, <2>1, OpenKeeps DEF OpenNew
  <1>3. CASE OpenEdit
    <2>1. PICK id \in Present(db[page]) : Open(id, Listed(page, db[page][id]), FALSE)
      BY <1>3 DEF OpenEdit
    <2>2. page \in Pages
      BY <1>3 DEF OpenEdit
    <2>3. id \in IdsOf(page) /\ db[page][id] \in RowsOf(page)
      BY <2>1, <2>2, TablesAre DEF Present, FormsInv
    <2>4. RowOK(Listed(page, db[page][id]))
      BY <2>3, RolesTravel, PagesAre DEF RowOK, Listed
    <2> QED
      BY <2>1, <2>3, <2>4, OpenKeeps
  <1>4. CASE TypeId
    <2>1. PICK id \in IdsOf(page) : form # None /\ Becomes(id, form.row, {})
      BY <1>4 DEF TypeId
    <2>2. GoesOn(id, form.row, {}) /\ db' \in Db
      BY <2>1, BecomesGoesOn
    <2> QED
      BY <2>1, <2>2, SameRowKeeps
  <1>5. CASE Change \/ PickKind \/ Save
    BY <1>5, ChangeKeeps, PickKindKeeps, SaveKeeps
  <1>6. CASE Cancel \/ Navigate
    BY <1>6, NoFormKeeps DEF Cancel, Navigate, FormsInv
  <1>7. CASE PlayStep
    BY <1>1, <1>7 DEF PlayStep, PickUser, PickType, PickAction, PickItem, Evaluate,
                      Answered, Pick
  <1>8. CASE \E p \in Pages : Delete(p) \/ OtherPut(p)
    BY <1>8, OthersKeep
  <1>9. CASE UNCHANGED formsVars
    BY <1>1, <1>9 DEF formsVars
  <1> QED
    BY <1>2, <1>3, <1>4, <1>5, <1>6, <1>7, <1>8, <1>9 DEF FormsNext

\* It holds of the tables that a run starts from.
LEMMA FormsStart == FormsInit => FormsInv
  <1> SUFFICES ASSUME FormsInit PROVE FormsInv
    OBVIOUS
  <1>1. db \in Db /\ form = None
    BY FormsAssumption DEF FormsInit
  <1> QED
    BY <1>1 DEF FormsInv, FormOK, HiddenGrantsSurvive, HiddenOverridesSurvive,
                HiddenRolesSurvive

\* FormsInv is an invariant.
LEMMA FormsInvariant == FormsSpec => []FormsInv
  BY FormsStart, FormsInduction, PTL DEF FormsSpec

\* Whatever is edited and whatever other clients do meanwhile, what the role form
\* never showed of a role is saved as it was.
THEOREM HiddenGrantsAreKept == FormsSpec => []HiddenGrantsSurvive
  BY FormsInvariant, PTL DEF FormsInv

\* So are the overrides of an item that its form never showed.
THEOREM HiddenOverridesAreKept == FormsSpec => []HiddenOverridesSurvive
  BY FormsInvariant, PTL DEF FormsInv

\* Roles of a user that its form never showed keep their places among each other.
THEOREM HiddenRolesAreKept == FormsSpec => []HiddenRolesSurvive
  BY FormsInvariant, PTL DEF FormsInv

-----------------------------------------------------------------------------
(* Saving without an edit *)

\* A row that was opened and saved without an edit is stored as it was, for both
\* encodings of its effects agree.
THEOREM UntouchedSavesKeep == FormsSpec => UntouchedSaveKeeps
  <1> DEFINE Untouched == /\ Save /\ ~form.isNew /\ form.row = form.opened
                          /\ db[page][form.id] # Absent
                          /\ Listed(page, db[page][form.id]) = form.opened
  <1>1. ASSUME FormsInv, Untouched PROVE db' = db
    <2>1. /\ page \in Pages
          /\ db' = [db EXCEPT ![page][form.id] =
                        Stored(page, Listed(page, db[page][form.id]))]
      BY <1>1 DEF Save, FormsInv, FormOK
    <2>2. db = [p \in Pages |-> [id \in IdsOf(p) |-> db[p][id]]]
      BY <1>1, TablesAre DEF FormsInv
    <2>3. CASE form.id \in IdsOf(page)
      <3>1. page = "roles" => db[page][form.id] \in RoleRows
        BY <1>1, <2>1, <2>3, TablesAre, PagesAre DEF FormsInv
      <3>2. Stored(page, Listed(page, db[page][form.id])) = db[page][form.id]
        BY <3>1, RolesTravel DEF Stored, Listed
      <3> QED
        BY <2>1, <2>2, <3>2
    <2>4. CASE form.id \notin IdsOf(page)
      BY <2>1, <2>2, <2>4
    <2> QED
      BY <2>3, <2>4
  <1>2. FormsInv => [Untouched => db' = db]_formsVars
    BY <1>1
  <1> QED
    BY <1>2, FormsInvariant, PTL DEF UntouchedSaveKeeps

-----------------------------------------------------------------------------
(* Deleting what others refer to *)

\* With fewer conditions and the type or none, less is allowed.
LEMMA LessIsAllowed ==
    ASSUME NEW d, NEW e, NEW u, NEW k, NEW i,
           e.roles = d.roles, e.users = d.users, e.items = d.items,
           \A c \in CondIds : \/ e.conditions[c] = Absent
                             \/ e.conditions[c] = d.conditions[c],
           e.types[k[1]] = Absent \/ e.types[k[1]] = d.types[k[1]],
           Allowed(e, u, k, i)
    PROVE  Allowed(d, u, k, i)
  <1>1. e.types[k[1]] # Absent /\ e.types[k[1]] = d.types[k[1]]
    BY DEF Allowed
  <1>2. ASSUME NEW t PROVE Operand(e, k[1], i, t) = Operand(d, k[1], i, t)
    BY <1>1 DEF Operand, ItemOf
  <1>3. Passing(e, k[1], i) \subseteq Passing(d, k[1], i)
    BY <1>2 DEF Passing, RightOperand
  <1>4. ASSUME NEW denied, NEW allowed, NEW match,
               Precedence(denied, allowed, match, Passing(e, k[1], i)) = "allow"
        PROVE  Precedence(denied, allowed, match, Passing(d, k[1], i)) = "allow"
    BY <1>3, <1>4 DEF Precedence
  <1> QED
    BY <1>1, <1>4 DEF Allowed

\* Whatever roles refer to it, deleting a condition or a resource type admits
\* nobody.
THEOREM DeletingAdmitsNobody == FormsSpec => DeletingNeverAdmits
  <1>1. ASSUME FormsInv, Deleted("conditions") \/ Deleted("types"), NEW r \in Requests,
               Allowed(db', r[1], r[2], r[3])
        PROVE  Allowed(db, r[1], r[2], r[3])
    <2>1. db = [p \in Pages |-> [id \in IdsOf(p) |-> db[p][id]]]
      BY <1>1, TablesAre DEF FormsInv
    <2>2. PICK p \in {"conditions", "types"} : \E id : db' = [db EXCEPT ![p][id] = Absent]
      BY <1>1 DEF Deleted
    <2>3. /\ db'["roles"] = db["roles"] /\ db'["users"] = db["users"]
          /\ db'["items"] = db["items"]
      BY <2>1, <2>2 DEF Pages
    <2>4. \A c \in CondIds : \/ db'["conditions"][c] = Absent
                            \/ db'["conditions"][c] = db["conditions"][c]
      BY <2>1, <2>2 DEF Pages, IdsOf
    <2>5. \A t \in ResourceKeys : \/ db'["types"][t] = Absent
                                 \/ db'["types"][t] = db["types"][t]
      BY <2>1, <2>2 DEF Pages, IdsOf
    <2>6. r[2][1] \in ResourceKeys
      BY DEF Requests, GrantKeys
    <2> QED
      BY <1>1, <2>3, <2>4, <2>5, <2>6, LessIsAllowed
  <1>2. FormsInv =>
           [Deleted("conditions") \/ Deleted("types")
              => \A r \in Requests : Admitted(db', r) => Admitted(db, r)]_formsVars
    BY <1>1 DEF Admitted
  <1> QED
    BY <1>2, FormsInvariant, PTL DEF DeletingNeverAdmits

-----------------------------------------------------------------------------
(* The playground *)

\* The playground is a record of what is picked, asked and shown.
PlayInv == play = [user |-> play.user, type |-> play.type, action |-> play.action,
                   item |-> play.item, asked |-> play.asked, shown |-> play.shown]

LEMMA PlayStaysRecord ==
    ASSUME PlayInv, [FormsNext]_formsVars
    PROVE  PlayInv'
  <1>1. CASE UNCHANGED play
    BY <1>1 DEF PlayInv
  <1>2. CASE Navigate
    BY <1>2 DEF Navigate, NothingPicked, PlayInv
  <1>3. CASE PlayStep
    BY <1>3 DEF PlayStep, PickUser, PickType, PickAction, PickItem, Evaluate, Answered,
                Pick, PlayInv
  <1>4. CASE OpenNew \/ OpenEdit \/ TypeId \/ Change \/ PickKind \/ Save \/ Cancel
             \/ \E p \in Pages : Delete(p) \/ OtherPut(p)
    BY <1>1, <1>4 DEF OpenNew, OpenEdit, Open, TypeId, Change, PickKind, Becomes, Save,
                      Cancel, Delete, OtherPut
  <1> QED
    BY <1>1, <1>2, <1>3, <1>4 DEF FormsNext, formsVars

\* The choices made in the playground keep the items picked and asked to their types.
LEMMA ChoicesFit ==
    ASSUME PlayInv, PlayStep, AllFit(db, play)
    PROVE  UNCHANGED db /\ AllFit(db, play')
  <1> UNCHANGED db
    BY DEF PlayStep, PickUser, PickType, PickAction, PickItem, Evaluate, Answered, Pick
  <1> SUFFICES AllFit(db, play')
    OBVIOUS
  <1>1. CASE PickUser
    BY <1>1 DEF PickUser, Pick, PlayInv, AllFit, Fits
  <1>2. CASE PickType
    BY <1>2 DEF PickType, Pick, PlayInv, AllFit, Fits
  <1>3. CASE PickAction
    BY <1>3 DEF PickAction, Pick, PlayInv, AllFit, Fits
  <1>4. CASE PickItem
    BY <1>4 DEF PickItem, Pick, PlayInv, AllFit, Fits, Present
  <1>5. CASE Evaluate
    BY <1>5 DEF Evaluate, Pick, PlayInv, AllFit, Fits
  <1>6. CASE Answered
    <2>1. \E shown : play' = [play EXCEPT !.asked = None, !.shown = shown]
      BY <1>6 DEF Answered, Pick
    <2> QED
      BY <2>1 DEF PlayInv, AllFit, Fits
  <1> QED
    BY <1>1, <1>2, <1>3, <1>4, <1>5, <1>6 DEF PlayStep

\* Only a change of the items elsewhere makes the playground ask about an item under
\* a type that is not its own.
THEOREM ItemsAskedFit == FormsSpec => ItemAskedIsOfItsType
  <1>1. FormsInit => PlayInv
    BY DEF FormsInit, NothingPicked, PlayInv
  <1>2. PlayInv /\ [FormsNext]_formsVars => PlayInv'
    BY PlayStaysRecord
  <1>3. PlayInv /\ [FormsNext]_formsVars
          => [AllFit(db, play) /\ ~AllFit(db', play') => db'.items # db.items]_formsVars
    <2> SUFFICES ASSUME PlayInv, FormsNext, AllFit(db, play), db'.items = db.items
                 PROVE  AllFit(db', play')
      OBVIOUS
    <2>1. CASE PlayStep
      BY <2>1, ChoicesFit DEF AllFit, Fits
    <2>2. CASE Navigate
      BY <2>2 DEF Navigate, NothingPicked, AllFit, Fits
    <2>3. CASE UNCHANGED play
      BY <2>3 DEF AllFit, Fits
    <2>4. CASE OpenNew \/ OpenEdit \/ TypeId \/ Change \/ PickKind \/ Save \/ Cancel
               \/ \E p \in Pages : Delete(p) \/ OtherPut(p)
      BY <2>3, <2>4 DEF OpenNew, OpenEdit, Open, TypeId, Change, PickKind, Becomes, Save,
                        Cancel, Delete, OtherPut
    <2> QED
      BY <2>1, <2>2, <2>3, <2>4 DEF FormsNext
  <1> QED
    BY <1>1, <1>2, <1>3, PTL DEF FormsSpec, ItemAskedIsOfItsType

-----------------------------------------------------------------------------
(* Types *)

\* What is picked in the playground, the page and the bounds have their types.
PickTyped == /\ play.user \in UserIds \cup {None}
             /\ play.type \in ResourceKeys \cup {None}
             /\ play.action \in Actions \cup {None}
             /\ play.item \in ItemIds \cup {AnyItem}
Typing == /\ page \in Pages \cup {Playground}
          /\ play = [user |-> play.user, type |-> play.type, action |-> play.action,
                     item |-> play.item, asked |-> play.asked, shown |-> play.shown]
          /\ PickTyped
          /\ opens \in 0..MaxOpens /\ others \in 0..MaxOthers

\* Only what a table has can be picked, and only an action of its type.
LEMMA PickKeepsTypes ==
    ASSUME db \in Db, Typing, PlayStep
    PROVE  Typing'
  <1>1. /\ UNCHANGED <<page, opens, others>>
        /\ play = [user |-> play.user, type |-> play.type, action |-> play.action,
                   item |-> play.item, asked |-> play.asked, shown |-> play.shown]
        /\ PickTyped
    BY DEF PlayStep, PickUser, PickType, PickAction, PickItem, Evaluate, Answered, Pick,
           Typing
  <1>2. /\ Present(db.users) \subseteq UserIds /\ Present(db.types) \subseteq ResourceKeys
        /\ Present(db.items) \subseteq ItemIds
        /\ \A t \in Present(db.types) : db.types[t].actions \subseteq Actions
    BY DEF Db, UserTables, Present, TypeRows
  <1>3. CASE PickUser
    BY <1>1, <1>2, <1>3 DEF PickUser, Pick, Typing, PickTyped
  <1>4. CASE PickType
    BY <1>1, <1>2, <1>4 DEF PickType, Pick, Typing, PickTyped
  <1>5. CASE PickAction
    BY <1>1, <1>2, <1>5 DEF PickAction, Pick, Typing, PickTyped
  <1>6. CASE PickItem
    BY <1>1, <1>2, <1>6 DEF PickItem, Pick, Typing, PickTyped
  <1>7. CASE Evaluate
    BY <1>1, <1>7 DEF Evaluate, Pick, Typing, PickTyped
  <1>8. CASE Answered
    <2>1. \E shown : play' = [play EXCEPT !.asked = None, !.shown = shown]
      BY <1>8 DEF Answered, Pick
    <2> QED
      BY <1>1, <2>1 DEF Typing, PickTyped
  <1> QED
    BY <1>3, <1>4, <1>5, <1>6, <1>7, <1>8 DEF PlayStep

\* The tables, the open form, what is picked and the bounds have their types.
THEOREM FormsTypeCorrect == FormsSpec => []FormsTypeOK
  <1>1. FormsInit => Typing
    BY FormsAssumption DEF FormsInit, NothingPicked, Typing, PickTyped
  <1>2. FormsInv /\ Typing /\ [FormsNext]_formsVars => Typing'
    <2> SUFFICES ASSUME FormsInv, Typing, [FormsNext]_formsVars PROVE Typing'
      OBVIOUS
    <2>1. CASE UNCHANGED <<page, play, opens, others>>
      BY <2>1 DEF Typing, PickTyped
    <2>2. CASE OpenNew \/ OpenEdit
      BY <2>2, FormsAssumption DEF OpenNew, OpenEdit, Open, Typing, PickTyped
    <2>3. CASE TypeId \/ Change \/ PickKind \/ Save \/ Cancel
      BY <2>1, <2>3 DEF TypeId, Change, PickKind, Becomes, Save, Cancel
    <2>4. CASE Navigate
      BY <2>4 DEF Navigate, NothingPicked, Typing, PickTyped
    <2>5. CASE PlayStep
      BY <2>5, PickKeepsTypes DEF FormsInv
    <2>6. CASE \E p \in Pages : Delete(p) \/ OtherPut(p)
      <3>1. /\ UNCHANGED <<page, play, opens>>
            /\ others < MaxOthers /\ others' = others + 1
        BY <2>6 DEF Delete, OtherPut
      <3> QED
        BY <3>1, FormsAssumption DEF Typing, PickTyped
    <2> QED
      BY <2>1, <2>2, <2>3, <2>4, <2>5, <2>6 DEF FormsNext, formsVars
  <1>3. FormsInv /\ Typing => FormsTypeOK
    BY DEF FormsInv, FormOK, RowOK, Typing, PickTyped, FormsTypeOK
  <1> QED
    BY <1>1, <1>2, <1>3, FormsInvariant, PTL DEF FormsSpec

-----------------------------------------------------------------------------
(* What a field shows *)

\* A value prints alike unless it is missing, which the engine prints as nothing.
LEMMA ValuesPrint ==
    ASSUME NEW v \in Values, ShownAlike(v)
    PROVE  IF v = Missing THEN ToStr(v) = Blank ELSE JsString(v) = ToStr(v)
  BY DEF Values, ShownAlike, PrintsAlike, ToStr, JsString, Missing, Num, Flag, Text, Value

\* An attribute that a type declares has a default: the last that is declared.
LEMMA DeclaredDefault ==
    ASSUME NEW attrs \in Seq(AttrDecls), NEW k \in AttrKeys,
           NEW j \in DOMAIN attrs, attrs[j].key = k
    PROVE  /\ DeclsOf(attrs)[k] \in Values
           /\ LastOfItsKey(attrs, j) => DeclsOf(attrs)[k] = attrs[j].value
  <1> DEFINE at == {h \in DOMAIN attrs : attrs[h].key = k}
             last == CHOOSE h \in at : \A g \in at : g <= h
  <1>1. /\ Len(attrs) \in Nat /\ at \in SUBSET (1..Len(attrs)) /\ at # {}
        /\ \A h \in at : attrs[h] \in AttrDecls
    OBVIOUS
  <1>2. DeclsOf(attrs)[k] = attrs[last].value
    BY <1>1 DEF DeclsOf
  <1>3. LastOfItsKey(attrs, j) => \A h \in at : h <= j
    BY <1>1 DEF LastOfItsKey
  <1>4. j \in at
    OBVIOUS
  <1> HIDE DEF at
  <1>5. last \in at /\ \A h \in at : h <= last
    BY <1>1, GreatestNatural
  <1> HIDE DEF last
  <1>6. LastOfItsKey(attrs, j) => last = j
    BY <1>1, <1>3, <1>4, <1>5
  <1> QED
    BY <1>1, <1>2, <1>5, <1>6 DEF AttrDecls

\* What a field of the item form shows is what decides, unless it is blank and a later
\* declaration of its attribute follows.
THEOREM FieldsShowWhatDecides == FormsSpec => []FieldShowsWhatDecides
  <1>1. FormsInv => FieldShowsWhatDecides
    <2> SUFFICES ASSUME FormsInv,
                        NEW i \in Present(db.items),
                        db.items[i].type \in Present(db.types),
                        NEW j \in DOMAIN db.types[db.items[i].type].attrs,
                        NEW k \in AttrKeys,
                        db.types[db.items[i].type].attrs[j].key = k,
                        ShownAlike(db.items[i].attrs[k]),
                        ShownAlike(db.types[db.items[i].type].attrs[j].value),
                        \/ Counts(db.items[i].attrs[k])
                        \/ LastOfItsKey(db.types[db.items[i].type].attrs, j)
                 PROVE  FieldText(db.items[i].attrs[k],
                                  db.types[db.items[i].type].attrs[j].value)
                        = ToStr(Attr(DeclsOf(db.types[db.items[i].type].attrs),
                                     db.items[i], k))
      BY DEF FieldShowsWhatDecides
    <2> DEFINE item == db.items[i]
               attrs == db.types[item.type].attrs
               override == item.attrs[k]
               default == DeclsOf(attrs)[k]
               shown == attrs[j].value
    <2>1. item \in ItemRows /\ item # NoItem
      BY NoItemAssumption DEF FormsInv, Db, Present
    <2>2. override \in Values
      BY <2>1 DEF ItemRows
    <2>3. attrs \in Seq(AttrDecls)
      BY DEF FormsInv, Db, Present, TypeRows
    <2>4. shown \in Values
      <3> HIDE DEF attrs
      <3>1. attrs[j] \in AttrDecls
        BY <2>3 DEF attrs
      <3> QED
        BY <3>1 DEF AttrDecls
    <2>5. /\ default \in Values
          /\ LastOfItsKey(attrs, j) => default = shown
      <3> HIDE DEF attrs
      <3> QED
        BY <2>3, DeclaredDefault DEF attrs
    <2>6. Attr(DeclsOf(attrs), item, k) = ResolveItemAttr(override, default)
      BY <2>1, <2>5, BagAssumption DEF Attr, OverrideOf
    <2>7. /\ IF override = Missing THEN ToStr(override) = Blank
             ELSE JsString(override) = ToStr(override)
          /\ IF shown = Missing THEN ToStr(shown) = Blank
             ELSE JsString(shown) = ToStr(shown)
      BY <2>2, <2>4, ValuesPrint
    <2>8. Counts(override) \/ default = shown
      BY <2>5
    <2> HIDE DEF item, attrs, override, default, shown
    <2>9. FieldText(override, shown) = ToStr(ResolveItemAttr(override, default))
      BY <2>7, <2>8 DEF FieldText, ResolveItemAttr, Counts
    <2> QED
      BY <2>6, <2>9 DEF item, attrs, override, default, shown
  <1> QED
    BY <1>1, FormsInvariant, PTL
=============================================================================
