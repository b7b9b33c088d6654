------------------------------- MODULE MCKetoSync -------------------------------
(* Small inputs for KetoSync: two roles, one user, one resource type with one *)
(* action.                                                                   *)
EXTENDS KetoSync

CONSTANTS Base, Sales, Ann, Invoice, Read

Grant(effect) == [k \in GrantKeys |-> effect]
Row(parent, effect) == [parent |-> parent, grants |-> Grant(effect)]

\* A role that allows, one that denies, and one that only inherits.
MCRolePuts == {Row(NoRole, Allow), Row(NoRole, Deny), Row(Base, NoGrant)}
MCUserPuts == {<<>>, <<Sales>>}

MCSeed == [roles |-> [r \in RoleIds |-> IF r = Base THEN Row(NoRole, Allow)
                                                    ELSE Row(Base, NoGrant)],
           users |-> [u \in UserIds |-> <<Sales>>]]
MCStart == {MCSeed, [roles |-> NoRoles, users |-> NoUsers]}
=============================================================================
