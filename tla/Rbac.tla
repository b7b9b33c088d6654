---------------------------------- MODULE Rbac ----------------------------------
(***************************************************************************)
(* The pure part of KAM's RBAC layer: rows of the configuration tables,   *)
(* the relation tuples that keto.SyncAll derives from them, what Keto     *)
(* answers about a set of tuples, and the effective grants that the       *)
(* engine recomputes from the rows.                                        *)
(*                                                                         *)
(* Data kept: a grant key "<resourceKey>:<action>" is the pair it splits  *)
(* into; a role or user row keeps only the columns that authorization     *)
(* reads; a conditional effect keeps the set of its condition ids (their  *)
(* order only shows in the wording of the trace).                         *)
(***************************************************************************)
EXTENDS Sequences, SequencesExt

CONSTANTS
    RoleIds,        \* ids a role row may have, or a row may refer to
    UserIds,        \* ids of subjects
    ResourceKeys,   \* keys of resource types
    Actions,        \* ActionsLib
    CondIds,        \* ids a condition row may have, or an effect may name
    NoRole,         \* a parent column that is nil or ""
    Absent          \* no row has this primary key

ASSUME NoRoleAssumption == NoRole \notin RoleIds

-----------------------------------------------------------------------------
(* Rows *)

GrantKeys == ResourceKeys \X Actions

Allow == [kind |-> "allow", conds |-> {}]
Deny == [kind |-> "deny", conds |-> {}]
Conditional(ids) == [kind |-> "conditional", conds |-> ids]
Effects == {Allow, Deny} \cup {Conditional(ids) : ids \in SUBSET CondIds}

\* A key that a grants map does not have.
NoGrant == [kind |-> "none", conds |-> {}]

RoleRows == [parent : RoleIds \cup {NoRole},
             grants : [GrantKeys -> Effects \cup {NoGrant}]]
UserRows == Seq(RoleIds)

\* The keys under which a table has a row, as indexRoles maps them.
Present(table) == {id \in DOMAIN table : table[id] # Absent}

\* A table has finitely many rows.
RoleTables == {rs \in [RoleIds -> RoleRows \cup {Absent}] : IsFiniteSet(Present(rs))}
UserTables == [UserIds -> UserRows \cup {Absent}]

ASSUME AbsentAssumption == Absent \notin RoleRows /\ Absent \notin UserRows

-----------------------------------------------------------------------------
(* Relation tuples, one field per kind of tuple: Role:<rid>#members@User:<uid>, *)
(* Role:<parent>#members@(Role:<child>#members) and                          *)
(* Resource:<key>#[deny_]<action>@(Role:<rid>#members).                       *)

GrantTupleSet == [role : RoleIds, key : GrantKeys, deny : BOOLEAN]

KetoStates == [members : SUBSET (UserIds \X RoleIds),
               nested  : SUBSET (RoleIds \X RoleIds),
               grants  : SUBSET GrantTupleSet]

NoTuples == [members |-> {}, nested |-> {}, grants |-> {}]

MemberTuples(us) ==
    {t \in UserIds \X RoleIds :
        us[t[1]] # Absent /\ \E i \in DOMAIN us[t[1]] : us[t[1]][i] = t[2]}

\* Faulty variant: the subject set and the object of the tuple are swapped.
NestedTuplesSwapped(rs) ==
    {t \in RoleIds \X RoleIds : rs[t[2]] # Absent /\ rs[t[2]].parent = t[1]}

\* <<child, parent>>; the parent row need not exist.
NestedTuples(rs) ==
    {t \in RoleIds \X RoleIds : rs[t[1]] # Absent /\ rs[t[1]].parent = t[2]}

GrantTuples(rs) ==
    {t \in GrantTupleSet :
        /\ rs[t.role] # Absent
        /\ rs[t.role].grants[t.key].kind # "none"
        /\ t.deny = (rs[t.role].grants[t.key].kind = "deny")}

Tuples(rs, us) == [members |-> MemberTuples(us),
                   nested  |-> NestedTuples(rs),
                   grants  |-> GrantTuples(rs)]

Within(k1, k2) == /\ k1.members \subseteq k2.members
                  /\ k1.nested \subseteq k2.nested
                  /\ k1.grants \subseteq k2.grants

Join(k1, k2) == [members |-> k1.members \cup k2.members,
                 nested  |-> k1.nested \cup k2.nested,
                 grants  |-> k1.grants \cup k2.grants]

-----------------------------------------------------------------------------
(* Keto's answer to Check: the user is in some subject set that the relation *)
(* names, where membership is the least set of roles that holds the user's   *)
(* direct memberships and follows nested groups, however deep: the depth at  *)
(* which Keto gives up is left out.                                          *)

UpClosed(S, nested) == \A t \in nested : t[1] \in S => t[2] \in S

KetoMember(k, uid, rid) ==
    \A S \in SUBSET RoleIds :
        /\ \A r \in RoleIds : <<uid, r>> \in k.members => r \in S
        /\ UpClosed(S, k.nested)
        => rid \in S

KetoCheck(k, uid, key, deny) ==
    \E t \in k.grants : /\ t.key = key
                        /\ t.deny = deny
                        /\ KetoMember(k, uid, t.role)

-----------------------------------------------------------------------------
(* The engine's own reading of the rows *)

\* Faulty variant: the walk never leaves the role it starts from.
ChainTurnOnce(rs, walk) ==
    IF walk.cur = NoRole \/ rs[walk.cur] = Absent \/ walk.chain # <<>> THEN walk
    ELSE [cur |-> walk.cur, chain |-> <<walk.cur>>]

\* One turn of roleChain's loop, at the role cur.  It ends at a missing row, past
\* a root and at a role already seen.
ChainTurn(rs, walk) ==
    IF walk.cur = NoRole \/ rs[walk.cur] = Absent \/ walk.cur \in ToSet(walk.chain)
    THEN walk
    ELSE [cur |-> rs[walk.cur].parent, chain |-> Append(walk.chain, walk.cur)]

\* Ancestry of a role, self first: a turn for each row there is is enough.
RoleChain(rs, id) ==
    LET walk[turn \in Nat] ==
            IF turn = 0 THEN [cur |-> id, chain |-> <<>>]
            ELSE ChainTurn(rs, walk[turn - 1])
    IN  walk[Cardinality(Present(rs))].chain

\* The roles of a user, inherited ones included, as resolvedRoleNames lists them.
ResolvedRoles(rs, userRow) ==
    UNION {ToSet(RoleChain(rs, userRow[i])) : i \in DOMAIN userRow}

HasKey(rs, r, key) == rs[r].grants[key].kind # "none"

\* Faulty variant: the chain is flattened in the wrong direction, so that the
\* remotest ancestor overrides.
FarthestHolder(rs, id, key) ==
    LET chain == RoleChain(rs, id)
        last == SelectLastInSeq(chain, LAMBDA r : HasKey(rs, r, key))
    IN  IF last = 0 THEN NoRole ELSE chain[last]

\* The role whose grant is left in effectiveRoleGrants(id)[key]: the nearest of
\* the chain that has the key, if any.
NearestHolder(rs, id, key) ==
    LET chain == RoleChain(rs, id)
        first == SelectInSeq(chain, LAMBDA r : HasKey(rs, r, key))
    IN  IF first = 0 THEN NoRole ELSE chain[first]

EffectiveRoleGrant(rs, id, key) ==
    LET holder == NearestHolder(rs, id, key)
    IN  IF holder = NoRole THEN NoGrant ELSE rs[holder].grants[key]

\* Faulty variant: the last role wins even over a deny.
MergeGrantLast(existing, info) == IF info.kind = "none" THEN existing ELSE info

\* One turn of the merge loop of effectiveUserGrants, for one key.
MergeGrant(existing, info) ==
    IF info.kind = "none" THEN existing
    ELSE IF existing.kind = "deny" /\ info.kind # "deny" THEN existing
    ELSE info

EffectiveUserGrant(rs, userRow, key) ==
    FoldLeft(LAMBDA out, rid : MergeGrant(out, EffectiveRoleGrant(rs, rid, key)),
             NoGrant, userRow)

\* grants[key] in Go: a missing key yields the zero Grant, whose effect kind is
\* the first constant of the enumeration, EffectAllow.
MatchOf(grant) == IF grant.kind = "none" THEN Allow ELSE grant

\* Faulty variant: the deny branch is missing.
PrecedenceWithoutDeny(denied, allowed, match, passing) ==
    IF allowed /\ (match.kind = "allow" \/ match.conds \subseteq passing)
    THEN "allow" ELSE "deny"

\* The precedence that Decide applies once everything is read; passing is the
\* set of condition ids that hold.
Precedence(denied, allowed, match, passing) ==
    IF denied \/ ~allowed THEN "deny"
    ELSE IF match.kind = "allow" \/ match.conds \subseteq passing THEN "allow"
    ELSE "deny"
=============================================================================
