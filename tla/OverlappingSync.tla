----------------------------- MODULE OverlappingSync -----------------------------
(***************************************************************************)
(* What the mutating half of the service promises however many requests it *)
(* handles at a time.  A request that is alone from its commit to its      *)
(* reply, and is answered with success, makes Keto exactly what the        *)
(* configuration calls for, whatever was there before.  Of requests that   *)
(* overlap, those that complete add tuples that some configuration called  *)
(* for: the last of them need not leave Keto exact.  In between, and when  *)
(* requests fail, Keto only loses tuples.                                  *)
(***************************************************************************)
CONSTANTS
    Tuples(_, _),       \* what a roles table and a users table call for
    Within(_, _),       \* every tuple of the one is a tuple of the other
    Join(_, _)          \* the tuples of both

VARIABLES
    roles, users,       \* the configuration
    keto,               \* the tuples
    called,             \* those that some configuration so far called for
    phase,              \* "stable", or a mutation is "alone", or several "overlap"
    assured             \* the latest event completed a mutation that was alone

overlapVars == <<roles, users, keto, called, phase, assured>>

OverlapInit == /\ keto = Tuples(roles, users) /\ called = keto
               /\ phase = "stable" /\ assured = TRUE

\* A mutation that arrives while others are under way takes "alone" from them.
Commit == /\ phase' = IF phase = "stable" THEN "alone" ELSE "overlap"
          /\ called' = Join(called, Tuples(roles', users'))
          /\ assured' = FALSE
          /\ UNCHANGED keto

Shrink == /\ phase # "stable"
          /\ Within(keto', keto)
          /\ UNCHANGED <<roles, users, called, phase, assured>>

Complete == /\ phase = "alone" /\ phase' = "stable"
            /\ keto' = Tuples(roles, users)
            /\ assured' = TRUE
            /\ UNCHANGED <<roles, users, called>>

Mix == /\ phase = "overlap" /\ phase' \in {"overlap", "stable"}
       /\ Within(keto, keto') /\ Within(keto', called)
       /\ assured' = FALSE
       /\ UNCHANGED <<roles, users, called>>

GiveUp == /\ phase' \in {phase, "stable"}
          /\ assured' = FALSE
          /\ UNCHANGED <<roles, users, keto, called>>

OverlapNext == Commit \/ Shrink \/ Complete \/ Mix \/ GiveUp
OverlapSpec == OverlapInit /\ [][OverlapNext]_overlapVars
=============================================================================
