------------------------------ MODULE MCAdminConsole ------------------------------
(* Two tabs on one role that has two contents. *)
EXTENDS AdminConsole, TLC

CONSTANTS r1, x, y
MCIds == {r1}
MCContents == {x, y}
MCSeedRows == [i \in MCIds |-> y]
=============================================================================
