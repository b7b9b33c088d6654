------------------------------- MODULE AtomicSync -------------------------------
(***************************************************************************)
(* What the mutating half of the service promises while its requests are   *)
(* handled one at a time: a mutation replaces the configuration, and its   *)
(* rebuild either makes Keto exactly what the configuration calls for and  *)
(* says "ok", or says "failed".  On the way, and after a failure, Keto may *)
(* lack tuples that it had; it never gains one that is not called for.     *)
(***************************************************************************)
CONSTANTS
    Tuples(_, _),       \* what a roles table and a users table call for
    Within(_, _)        \* every tuple of the one is a tuple of the other

VARIABLES
    roles, users,       \* the configuration
    keto,               \* the tuples
    phase,              \* "stable", or "rebuilding" for a mutation
    told                \* what the client of the last mutation was told

atomicVars == <<roles, users, keto, phase, told>>

AtomicInit == /\ keto = Tuples(roles, users)
              /\ phase = "stable" /\ told = "none"

Commit == /\ phase = "stable" /\ phase' = "rebuilding"
          /\ told' = "none"
          /\ UNCHANGED keto

\* A rebuild only ever takes away before it is done.
Shrink == /\ phase = "rebuilding"
          /\ Within(keto', keto)
          /\ UNCHANGED <<roles, users, phase, told>>

Complete == /\ phase = "rebuilding" /\ phase' = "stable"
            /\ keto' = Tuples(roles, users)
            /\ told' = "ok"
            /\ UNCHANGED <<roles, users>>

GiveUp == /\ phase = "rebuilding" /\ phase' = "stable"
          /\ told' = "failed"
          /\ UNCHANGED <<roles, users, keto>>

AtomicNext == Commit \/ Shrink \/ Complete \/ GiveUp
AtomicSpec == AtomicInit /\ [][AtomicNext]_atomicVars
=============================================================================
