---------------------------------- MODULE MCGuard ----------------------------------
(* The inputs of MCDecide, for checks of a guard and of other clients. *)
EXTENDS MCDecide, Guard
=============================================================================
