---------------------------------- MODULE Forms ----------------------------------
(***************************************************************************)
(* An administrator at the console: five pages, each with the form of one  *)
(* entity, and the playground, over the tables of the service.             *)
(*                                                                         *)
(* A form holds a copy of a whole row.  Its controls change the parts that *)
(* they show, by the other tables' lists, and Save puts the whole copy.    *)
(* Meanwhile other clients change any table, and the lists follow.  The    *)
(* lists are up to date here and a mutation is one step: AdminConsole has  *)
(* their delays and failures.  Keto is in step with the tables.            *)
(***************************************************************************)
EXTENDS FormRows

CONSTANTS
    StartDbs,       \* tables that a run starts from
    OtherPuts,      \* rows that other clients put, by page
    None,           \* no form open; nothing picked, asked or shown
    AnyItem,        \* the playground's "none / type defaults"
    MaxOpens,       \* bound: forms opened in a run
    MaxOthers       \* bound: other mutations in a run

Playground == "playground"
NothingPicked == [user |-> None, type |-> None, action |-> None, item |-> AnyItem,
                  asked |-> None, shown |-> None]

ASSUME FormsAssumption ==
    /\ StartDbs \subseteq Db
    /\ \A p \in Pages : OtherPuts[p] \subseteq RowsOf(p)
    /\ MaxOpens \in Nat /\ MaxOthers \in Nat

VARIABLES
    db,         \* the tables
    page,       \* the page of the console
    form,       \* the open form: the row in it, and as history the row it was
                \* opened with, what it has shown, the grants of a picked kind
    play,       \* the playground: what is picked, asked and shown
    opens, others

formsVars == <<db, page, form, play, opens, others>>

FormsTypeOK ==
    /\ db \in Db
    /\ page \in Pages \cup {Playground}
    /\ form # None =>
           /\ page \in Pages /\ form.id \in IdsOf(page) \cup {None}
           /\ form.row \in RowsOf(page) /\ form.opened \in RowsOf(page)
    /\ play.user \in UserIds \cup {None} /\ play.type \in ResourceKeys \cup {None}
    /\ play.action \in Actions \cup {None} /\ play.item \in ItemIds \cup {AnyItem}
    /\ opens \in 0..MaxOpens /\ others \in 0..MaxOthers

FormsInit ==
    /\ db \in StartDbs
    /\ page \in Pages \cup {Playground}
    /\ form = None /\ play = NothingPicked
    /\ opens = 0 /\ others = 0

-----------------------------------------------------------------------------
(* The form of the page *)

Open(id, row, isNew) ==
    /\ page \in Pages /\ form = None
    /\ opens < MaxOpens /\ opens' = opens + 1
    /\ form' = [id |-> id, isNew |-> isNew, row |-> row, opened |-> row,
                seen |-> Shown(page, db, id, row), kinds |-> {}]
    /\ UNCHANGED <<db, page, play, others>>

OpenNew == Open(None, EmptyOf(page), TRUE)
OpenEdit == page \in Pages
            /\ \E id \in Present(db[page]) : Open(id, Listed(page, db[page][id]), FALSE)

\* The form now shows what its new row and the lists make it show.
Becomes(id, row, kinds) ==
    /\ form' = [form EXCEPT !.id = id, !.row = row, !.kinds = @ \cup kinds,
                            !.seen = @ \cup Shown(page, db, id, row)]
    /\ UNCHANGED <<db, page, play, opens, others>>

\* Only the id of a new row can be typed.
TypeId == /\ form # None /\ form.isNew
          /\ \E id \in IdsOf(page) : Becomes(id, form.row, {})

Change == /\ form # None
          /\ \E row \in Edits(page, Shown(page, db, form.id, form.row), form.row) :
                 Becomes(form.id, row, {})

PickKind == /\ form # None /\ page = "roles"
            /\ \E k \in GrantKeys :
                   \E row \in KindPicks(Shown(page, db, form.id, form.row), form.row, k) :
                       Becomes(form.id, row, {k})

\* The service stores the row, whether or not it had one with this id.
Save == /\ form # None /\ form.id # None /\ Valid(page, form.row)
        /\ db' = [db EXCEPT ![page][form.id] = Stored(page, form.row)]
        /\ form' = None
        /\ UNCHANGED <<page, play, opens, others>>

Cancel == /\ form # None /\ form' = None
          /\ UNCHANGED <<db, page, play, opens, others>>

\* Leaving a page unmounts its form and what was picked.
Navigate == /\ page' \in Pages \cup {Playground}
            /\ form' = None /\ play' = NothingPicked
            /\ UNCHANGED <<db, opens, others>>

-----------------------------------------------------------------------------
(* Rows deleted, here or elsewhere, and rows that other clients put *)

WithLists == IF form = None THEN form' = None
             ELSE form' = [form EXCEPT !.seen = @ \cup Shown(page, db', form.id, form.row)]

Delete(p) ==
    /\ others < MaxOthers /\ others' = others + 1
    /\ \E id \in Present(db[p]) : db' = [db EXCEPT ![p][id] = Absent]
    /\ WithLists
    /\ UNCHANGED <<page, play, opens>>

OtherPut(p) ==
    /\ others < MaxOthers /\ others' = others + 1
    /\ \E id \in IdsOf(p), row \in OtherPuts[p] : db' = [db EXCEPT ![p][id] = row]
    /\ WithLists
    /\ UNCHANGED <<page, play, opens>>

-----------------------------------------------------------------------------
(* The playground *)

Pick(changed) == /\ page = Playground /\ play' = changed
                 /\ UNCHANGED <<db, page, form, opens, others>>

PickUser == \E u \in Present(db.users) : Pick([play EXCEPT !.user = u])

\* Faulty variant: the item stays picked.
PickTypeKeepingItem ==
    \E t \in Present(db.types) : Pick([play EXCEPT !.type = t, !.action = None])

PickType ==
    \E t \in Present(db.types) :
        Pick([play EXCEPT !.type = t, !.action = None, !.item = AnyItem])
PickAction ==
    /\ play.type \in Present(db.types)
    /\ \E a \in db.types[play.type].actions : Pick([play EXCEPT !.action = a])
PickItem ==
    /\ play.type \in Present(db.types)
    /\ \/ Pick([play EXCEPT !.item = AnyItem])
       \/ \E i \in Present(db.items) :
              /\ db.items[i].type = play.type
              /\ Pick([play EXCEPT !.item = i])

\* A new question takes away the verdict on the last one.
Evaluate ==
    /\ None \notin {play.user, play.type, play.action} /\ play.asked = None
    /\ Pick([play EXCEPT !.shown = None, !.asked =
           [user |-> play.user, type |-> play.type, action |-> play.action,
            item |-> play.item]])

\* The verdict, or a message that the request failed; it fails when there is no
\* such user or type.
Answered ==
    /\ play.asked # None
    /\ \/ /\ db.users[play.asked.user] # Absent /\ db.types[play.asked.type] # Absent
          /\ Pick([play EXCEPT !.asked = None, !.shown =
                 IF Allowed(db, play.asked.user, <<play.asked.type, play.asked.action>>,
                            play.asked.item)
                 THEN "allow" ELSE "deny"])
       \/ Pick([play EXCEPT !.asked = None, !.shown = "error"])

PlayStep == PickUser \/ PickType \/ PickAction \/ PickItem \/ Evaluate \/ Answered

FormsNext == \/ OpenNew \/ OpenEdit \/ TypeId \/ Change \/ PickKind \/ Save \/ Cancel
             \/ Navigate \/ PlayStep
             \/ \E p \in Pages : Delete(p) \/ OtherPut(p)

FormsSpec == FormsInit /\ [][FormsNext]_formsVars

-----------------------------------------------------------------------------
(* Properties *)

Seen(tag, value) == Shows(form.seen, tag, value)
SeenRoles == {r \in RoleIds : Seen("role", r)}
HiddenConds(effect) == {c \in effect.conds : ~Seen("cond", c)}

\* The whole role is put although its form shows a part: the grants of types and
\* actions that were never listed while it was open, and the ids of conditions
\* that were not, stay as they were; a condition id that is not shown goes only
\* with the kind of its grant, and nothing comes in that was not shown.
HiddenGrantsSurvive ==
    form # None /\ page = "roles" =>
        /\ \A k \in GrantKeys :
               /\ Seen("grant", k) \/ form.row.grants[k] = form.opened.grants[k]
               /\ k \in form.kinds
                  \/ /\ form.row.grants[k].kind = form.opened.grants[k].kind
                     /\ HiddenConds(form.row.grants[k]) = HiddenConds(form.opened.grants[k])
               /\ HiddenConds(form.row.grants[k]) \subseteq HiddenConds(form.opened.grants[k])
        /\ form.row.parent \in {NoRole, form.opened.parent} \/ Seen("role", form.row.parent)

\* Overrides of attributes that no selected type declared survive an edit of the
\* item, whichever types are tried on the way.
HiddenOverridesSurvive ==
    form # None /\ page = "items" =>
        \A k \in AttrKeys : Seen("attr", k) \/ form.row.attrs[k] = form.opened.attrs[k]

\* Roles of a user that have no row, and so no line in the menu, keep their places
\* among each other: their order decides once the roles are there again.
HiddenRolesSurvive ==
    form # None /\ page = "users" =>
        Without(form.row, SeenRoles) = Without(form.opened, SeenRoles)

\* Opening a stored row, whatever client wrote it, and saving it as it is changes
\* nothing, through the service's encoding of effects and the console's and back.
UntouchedSaveKeeps ==
    [][Save /\ ~form.isNew /\ form.row = form.opened
            /\ db[page][form.id] # Absent
            /\ Listed(page, db[page][form.id]) = form.opened
        => db' = db]_formsVars

\* The text in the field of one declaration, or else its placeholder.
FieldText(override, default) ==
    IF override # Missing /\ JsString(override) # Blank THEN JsString(override)
    ELSE IF default = Missing THEN Blank ELSE JsString(default)
ShownAlike(v) == v = Missing \/ PrintsAlike(v)
Counts(override) == override # Missing /\ ToStr(override) # Blank
LastOfItsKey(attrs, j) == \A h \in DOMAIN attrs : h > j => attrs[h].key # attrs[j].key

\* The item form has one field for each declaration of the type.  The text in it,
\* or the default in its placeholder, is what resource.<key> is compared as.  One
\* field is excepted: blank, of an attribute that is declared again further down.
\* Its placeholder is a default that decides nothing.
FieldShowsWhatDecides ==
    \A i \in Present(db.items) :
        LET item == db.items[i]
            attrs == db.types[item.type].attrs
        IN  item.type \in Present(db.types) =>
                \A j \in DOMAIN attrs : \A k \in AttrKeys :
                    /\ attrs[j].key = k
                    /\ ShownAlike(item.attrs[k]) /\ ShownAlike(attrs[j].value)
                    /\ Counts(item.attrs[k]) \/ LastOfItsKey(attrs, j)
                    => FieldText(item.attrs[k], attrs[j].value)
                       = ToStr(Attr(DeclsOf(attrs), item, k))

Requests == UserIds \X GrantKeys \X (ItemIds \cup {AnyItem})
Admitted(d, r) == Allowed(d, r[1], r[2], r[3])
Deleted(p) == \E id \in Present(db[p]) : db' = [db EXCEPT ![p][id] = Absent]

\* Whatever refers to it, deleting a condition or a resource type never admits a
\* request that was refused.
DeletingNeverAdmits ==
    [][Deleted("conditions") \/ Deleted("types")
        => \A r \in Requests : Admitted(db', r) => Admitted(db, r)]_formsVars

\* An item is picked, and asked about, with the type it has; one that is gone has none.
Fits(d, q) == q.item # AnyItem => d.items[q.item] # Absent /\ d.items[q.item].type = q.type
AllFit(d, p) == Fits(d, p) /\ (p.asked # None => Fits(d, p.asked))

\* What is picked and what is asked in the playground come to name an item under a
\* type that is not its own only by a change of the items elsewhere, never by a
\* choice made here: the choice of another type takes the item back.  An item that
\* another client retypes or deletes stays picked and is asked about.
ItemAskedIsOfItsType ==
    [][AllFit(db, play) /\ ~AllFit(db', play') => db'.items # db.items]_formsVars

\* README: a condition is left <op> right with op in eq, neq, gt, gte, lt, lte, in;
\* the engine knows no other operator, and a rule with another never holds.
OperatorsAreTheEngines ==
    \A c \in Present(db.conditions) : db.conditions[c].op \in Ops
=============================================================================
