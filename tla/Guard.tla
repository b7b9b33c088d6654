---------------------------------- MODULE Guard ----------------------------------
(***************************************************************************)
(* A service whose endpoints stand behind middleware.Guard: each of its     *)
(* requests is first asked about at KAM through the SDK, and the handler    *)
(* behind the guard runs only on an allow.                                  *)
(*                                                                         *)
(* The answer of KAM travels, so the tables may change before it arrives;   *)
(* the SDK's client gives up after its timeout, while KAM may go on with    *)
(* the check.  Other clients ask KAM directly, in the same slots.           *)
(***************************************************************************)
EXTENDS Decide

VARIABLE gate   \* of each slot: what became of the guarded request, and as
                \* history the question that the guard asked for it

guardVars == <<allVars, gate>>

Outcomes == {"none", "asking", "served", "unauthorized", "forbidden", "failed"}
GateStates == [outcome : Outcomes, body : CheckBodies \cup {NoCheck}]

\* A guarded request is under way exactly when it has a question on its way, and
\* KAM's own state is sound.
GuardTypeOK == /\ DecideTypeOK
               /\ gate \in [Checkers -> GateStates]
               /\ \A c \in Checkers : gate[c].outcome = "asking" => gate[c].body # NoCheck

GInit == DInit /\ gate = [c \in Checkers |-> [outcome |-> "none", body |-> NoCheck]]

Outcome(c, o) == gate' = [gate EXCEPT ![c].outcome = o]

\* The slot of a question is taken until the guard has its answer or gives up.
Waiting(c) == gate[c].outcome = "asking"
Kam == /\ DNext
       /\ \A c \in Checkers : Waiting(c) /\ cpc[c] = "idle" => cpc'[c] = "idle"
       /\ UNCHANGED gate

\* A request without a subject is not asked about.
RefuseAnonymous(c) ==
    /\ ~Waiting(c) /\ cpc[c] = "idle" /\ gate[c].outcome = "none"
    /\ gate' = [gate EXCEPT ![c] = [outcome |-> "unauthorized", body |-> NoCheck]]
    /\ UNCHANGED allVars

GuardAsk(c) ==
    /\ ~Waiting(c)
    /\ Ask(c)
    /\ gate' = [gate EXCEPT ![c] = [outcome |-> "asking", body |-> asked'[c]]]

\* Faulty variant: whatever is not a deny lets the request through.
AnswerArrivesOpen(c) ==
    /\ Waiting(c) /\ cpc[c] = "idle"
    /\ Outcome(c, IF answer[c] = "deny" THEN "forbidden" ELSE "served")
    /\ UNCHANGED allVars

\* Anything but a 2xx is an error to the SDK, and no decision.
AnswerArrives(c) ==
    /\ Waiting(c) /\ cpc[c] = "idle"
    /\ Outcome(c, CASE answer[c] = "allow" -> "served"
                    [] answer[c] = "deny" -> "forbidden"
                    [] OTHER -> "failed")
    /\ UNCHANGED allVars

\* The connection breaks or the ten seconds are over; KAM may not notice.
GiveUp(c) == /\ Waiting(c) /\ Outcome(c, "failed")
             /\ UNCHANGED allVars

GNext == Kam \/ \E c \in Checkers : \/ RefuseAnonymous(c) \/ GuardAsk(c)
                                    \/ AnswerArrives(c) \/ GiveUp(c)

GSpec == GInit /\ [][GNext]_guardVars

-----------------------------------------------------------------------------
(* Properties *)

\* The guard fails closed: an endpoint behind it runs only for a request whose
\* subject the tuples ever committed connect to a grant of the action, whatever
\* KAM went through, and however late, broken or missing its answer was.
ServedOnlyIfEverReachable ==
    \A c \in Checkers : gate[c].outcome = "served" =>
        KetoCheck(ever, gate[c].body.user, gate[c].body.key, FALSE)
=============================================================================
