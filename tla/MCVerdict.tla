------------------------------- MODULE MCVerdict -------------------------------
(* Every table of three roles over one grant key and one condition, and every *)
(* row of up to two roles; nothing tells one role's id from another's.        *)
EXTENDS Verdict

CONSTANTS Invoice, Read

MCKey == <<Invoice, Read>>
MCRoleInputs == RoleRows
MCSymmetry == Permutations(RoleIds)
MCUserInputs == {<<>>} \cup [1..1 -> RoleIds] \cup [1..2 -> RoleIds]
=============================================================================
