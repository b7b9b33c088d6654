-------------------------------- MODULE MCDecide --------------------------------
(* Small inputs for Decide: the roles and the user of MCKetoSync, one item and *)
(* one condition, and one check request to be asked.                          *)
EXTENDS MCKetoSync, Decide

CONSTANTS Invoice1, Owner

\* The tables hold a conditional grant or none, a deny, or inheritance only.
MCDecideRolePuts == {Row(NoRole, Conditional({Owner})), Row(NoRole, Deny),
                     Row(Base, NoGrant)}
MCDecideUserPuts == {<<Sales>>, <<Sales, Base>>}

MCChecks == {[user |-> Ann, key |-> <<Invoice, Read>>, item |-> Invoice1]}
MCCondPuts == {[holds |-> {"item"}]}
MCOthers == [types |-> {Invoice}, items |-> {Invoice1},
             conds |-> [i \in CondIds |-> [holds |-> {"item"}]]]

\* A user who is denied, and one who is granted nothing.
MCDeniedStart == {[roles |-> [r \in RoleIds |->
                                IF r = Sales THEN Row(NoRole, Deny)
                                ELSE Row(NoRole, Conditional({Owner}))],
                   users |-> [u \in UserIds |-> <<Sales, Base>>]]}
MCUngrantedStart == {[roles |-> [r \in RoleIds |-> Row(NoRole, NoGrant)],
                      users |-> [u \in UserIds |-> <<Sales>>]]}
MCUngrantedRolePuts == {Row(NoRole, Allow), Row(NoRole, NoGrant)}
MCUngrantedUserPuts == {<<>>}
=============================================================================
