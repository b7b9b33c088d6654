--------------------------------- MODULE Decide ---------------------------------
(***************************************************************************)
(* The whole service: engine.Decide answers POST /v1/check while other     *)
(* requests change the configuration and rebuild Keto's tuples.            *)
(*                                                                         *)
(* Decide reads the subject, the resource type, the roles and the          *)
(* conditions from Postgres, asks Keto for a deny and then for a grant,    *)
(* and last reads the item: seven steps between which anything may happen. *)
(* A condition is kept as the set of attribute sources under which its     *)
(* rule holds for the request: the item's values, or the defaults that the *)
(* type declares when there is no item.                                    *)
(***************************************************************************)
EXTENDS KetoSyncHistory

CONSTANTS
    Checkers,       \* check requests the server may be working on at a time
    ItemIds, NoItem,
    NoCheck,        \* stands where no check is being worked on
    CheckInputs,    \* bodies that a POST /v1/check may carry
    CondPuts,       \* condition rows that a PUT /v1/conditions may carry
    SeedOthers,     \* resource types, items and conditions of seed.DB()
    MaxChecks       \* bound: check requests in a run

Sources == {"item", "defaults"}
CondRows == [holds : SUBSET Sources]
CondTables == [CondIds -> CondRows \cup {Absent}]
CheckBodies == [user : UserIds, key : GrantKeys, item : ItemIds \cup {NoItem}]
Others == [types : SUBSET ResourceKeys, items : SUBSET ItemIds, conds : CondTables]

ASSUME DecideAssumption == /\ NoItem \notin ItemIds
                           /\ NoCheck \notin CheckBodies
                           /\ Absent \notin CondRows
                           /\ CheckInputs \subseteq CheckBodies
                           /\ CondPuts \subseteq CondRows
                           /\ SeedOthers \in Others
                           /\ MaxChecks \in Nat

VARIABLES
    others,         \* the tables resource_types, items and conditions
    cpc,            \* what each check does next
    asked,          \* the body of each check
    seen,           \* what each check has read so far
    answer,         \* what each checker's last request was answered
    checks,         \* how many there were, for the bound
    calm,           \* history: nothing moved since the check was asked, and
                    \* Keto was in step with Postgres
    alwaysDenied,   \* history: bodies that every configuration so far denies
    neverGranted    \* history: bodies that no configuration so far grants

checkVars == <<cpc, asked, seen, answer, checks>>
factVars == <<alwaysDenied, neverGranted>>
allVars == <<vars, others, checkVars, calm, factVars>>

CheckSteps == {"idle", "user", "type", "roles", "conds", "deny", "allow", "item"}
Answers == {"none", "allow", "deny", "notFound", "error"}

NothingSeen == [row |-> <<>>, match |-> NoGrant,
                conds |-> [i \in CondIds |-> Absent], denied |-> FALSE]

\* Every variable of the decision holds a value of its kind.
DecideTypeOK ==
    /\ HistoryTypeOK
    /\ others \in Others
    /\ cpc \in [Checkers -> CheckSteps]
    /\ asked \in [Checkers -> CheckBodies \cup {NoCheck}]
    /\ \A c \in Checkers : (cpc[c] = "idle") = (asked[c] = NoCheck)
    /\ seen \in [Checkers -> [row : UserRows, match : Effects \cup {NoGrant},
                              conds : CondTables, denied : BOOLEAN]]
    /\ answer \in [Checkers -> Answers]
    /\ checks \in 0..MaxChecks
    /\ calm \in [Checkers -> BOOLEAN]
    /\ alwaysDenied \subseteq CheckInputs
    /\ neverGranted \subseteq CheckInputs

-----------------------------------------------------------------------------
(* What a configuration says of a request, without Keto *)

Reached(rs, us, q) ==
    IF us[q.user] = Absent THEN {} ELSE ResolvedRoles(rs, us[q.user])
Denies(rs, us, q) ==
    \E r \in Reached(rs, us, q) : rs[r].grants[q.key].kind = "deny"
Grants(rs, us, q) ==
    \E r \in Reached(rs, us, q) :
        rs[r].grants[q.key].kind \in {"allow", "conditional"}

\* evalCondition: an unknown condition does not hold.
Passing(conds, source) ==
    {i \in CondIds : conds[i] # Absent /\ source \in conds[i].holds}
SourceOf(items, item) == IF item \in items THEN "item" ELSE "defaults"

\* README's decision precedence, read off the tables.
Policy(q) ==
    IF users[q.user] = Absent \/ q.key[1] \notin others.types THEN "notFound"
    ELSE IF Denies(roles, users, q) \/ ~Grants(roles, users, q) THEN "deny"
    ELSE LET grant == EffectiveUserGrant(roles, users[q.user], q.key)
             held == Passing(others.conds, SourceOf(others.items, q.item))
         IN  IF grant.conds \subseteq held THEN "allow" ELSE "deny"

-----------------------------------------------------------------------------
DInit ==
    /\ HInit
    /\ others = SeedOthers
    /\ cpc = [c \in Checkers |-> "idle"]
    /\ asked = [c \in Checkers |-> NoCheck]
    /\ seen = [c \in Checkers |-> NothingSeen]
    /\ answer = [c \in Checkers |-> "none"]
    /\ checks = 0
    /\ calm = [c \in Checkers |-> FALSE]
    /\ alwaysDenied = {q \in CheckInputs : Denies(roles, users, q)}
    /\ neverGranted = {q \in CheckInputs : ~Grants(roles, users, q)}

Disturb == calm' = [c \in Checkers |-> FALSE]

-----------------------------------------------------------------------------
(* Mutations: those of KetoSync, with the tables that Keto does not mirror *)

Committed(h) ==
    /\ Record(h)
    /\ Disturb
    /\ alwaysDenied' = {q \in alwaysDenied : Denies(roles', users', q)}
    /\ neverGranted' = {q \in neverGranted : ~Grants(roles', users', q)}
    /\ UNCHANGED checkVars

MutateRbac(h) ==
    /\ PutRole(h) \/ DeleteRole(h) \/ PutUser(h) \/ DeleteUser(h)
    /\ Committed(h)
    /\ UNCHANGED others

MutateTypes(h) ==
    /\ MutateOther(h)
    /\ Committed(h)
    /\ \E k \in ResourceKeys :
          \/ others' = [others EXCEPT !.types = @ \cup {k}]
          \/ others' = [others EXCEPT !.types = @ \ {k}]

MutateItems(h) ==
    /\ MutateOther(h)
    /\ Committed(h)
    /\ \E i \in ItemIds :
          \/ others' = [others EXCEPT !.items = @ \cup {i}]
          \/ others' = [others EXCEPT !.items = @ \ {i}]

MutateConditions(h) ==
    /\ MutateOther(h)
    /\ Committed(h)
    /\ \E i \in CondIds, row \in CondPuts \cup {Absent} :
          others' = [others EXCEPT !.conds[i] = row]

SeedAll(h) ==
    /\ Seed(h)
    /\ Committed(h)
    /\ others' = SeedOthers

SyncPart(h) ==
    /\ HPrepare(h) \/ HTransact(h)
    /\ Disturb
    /\ UNCHANGED <<others, checkVars, factVars>>

\* A failed step of a handler leaves the checks alone; a crash ends them too.
SyncFault ==
    /\ HFault
    /\ \/ /\ \E h \in Handlers : Fail(h)
          /\ UNCHANGED checkVars
       \/ /\ Crash
          /\ cpc' = [c \in Checkers |-> "idle"]
          /\ asked' = [c \in Checkers |-> NoCheck]
          /\ seen' = [c \in Checkers |-> NothingSeen]
          /\ answer' = [c \in Checkers |->
                          IF cpc[c] = "idle" THEN answer[c] ELSE "error"]
          /\ UNCHANGED checks
    /\ Disturb
    /\ UNCHANGED <<others, factVars>>

-----------------------------------------------------------------------------
(* engine.Decide, one action per call it makes *)

Proceed(c, step) == cpc' = [cpc EXCEPT ![c] = step]

\* Faulty variant: the answered request stays around.
ReplyKeepsBody(c, a) ==
    /\ Proceed(c, "idle")
    /\ answer' = [answer EXCEPT ![c] = a]
    /\ UNCHANGED <<asked, seen>>

Reply(c, a) ==
    /\ Proceed(c, "idle")
    /\ answer' = [answer EXCEPT ![c] = a]
    /\ asked' = [asked EXCEPT ![c] = NoCheck]
    /\ seen' = [seen EXCEPT ![c] = NothingSeen]

\* What a step of a check leaves alone.
Reads == UNCHANGED <<vars, others, checks, calm, factVars>>

Ask(c) ==
    /\ cpc[c] = "idle"
    /\ checks < MaxChecks
    /\ checks' = checks + 1
    /\ \E q \in CheckInputs : asked' = [asked EXCEPT ![c] = q]
    /\ Proceed(c, "user")
    /\ answer' = [answer EXCEPT ![c] = "none"]
    /\ calm' = [calm EXCEPT ![c] = Quiet /\ Synced]
    /\ UNCHANGED <<vars, others, seen, factVars>>

ReadUser(c) ==
    /\ cpc[c] = "user"
    /\ LET found == users[asked[c].user]
       IN  \/ found = Absent /\ Reply(c, "notFound")
           \/ /\ found # Absent
              /\ seen' = [seen EXCEPT ![c].row = found]
              /\ Proceed(c, "type")
              /\ UNCHANGED <<asked, answer>>
    /\ Reads

ReadType(c) ==
    /\ cpc[c] = "type"
    /\ \/ asked[c].key[1] \notin others.types /\ Reply(c, "notFound")
       \/ /\ asked[c].key[1] \in others.types
          /\ Proceed(c, "roles")
          /\ UNCHANGED <<asked, seen, answer>>
    /\ Reads

\* The roles serve to compute the effective grant, so that is what is kept.
LoadRoles(c) ==
    /\ cpc[c] = "roles"
    /\ seen' = [seen EXCEPT ![c].match =
                    EffectiveUserGrant(roles, seen[c].row, asked[c].key)]
    /\ Proceed(c, "conds")
    /\ UNCHANGED <<asked, answer>>
    /\ Reads

LoadConditions(c) ==
    /\ cpc[c] = "conds"
    /\ seen' = [seen EXCEPT ![c].conds = others.conds]
    /\ Proceed(c, "deny")
    /\ UNCHANGED <<asked, answer>>
    /\ Reads

CheckDeny(c) ==
    /\ cpc[c] = "deny"
    /\ seen' = [seen EXCEPT ![c].denied =
                    KetoCheck(keto, asked[c].user, asked[c].key, TRUE)]
    /\ Proceed(c, "allow")
    /\ UNCHANGED <<asked, answer>>
    /\ Reads

\* Faulty variant: a grant is looked at before the deny.
CheckGrantFirst(c) ==
    /\ cpc[c] = "allow"
    /\ LET allowed == KetoCheck(keto, asked[c].user, asked[c].key, FALSE)
           match == MatchOf(seen[c].match)
       IN  \/ ~allowed /\ Reply(c, "deny")
           \/ allowed /\ match.kind = "allow" /\ Reply(c, "allow")
           \/ /\ allowed /\ match.kind # "allow"
              /\ Proceed(c, "item")
              /\ UNCHANGED <<asked, seen, answer>>
    /\ Reads

\* Faulty variant: Keto's answer about the grant is not consulted.
CheckMatchOnly(c) ==
    /\ cpc[c] = "allow"
    /\ LET match == MatchOf(seen[c].match)
       IN  \/ seen[c].denied /\ Reply(c, "deny")
           \/ ~seen[c].denied /\ match.kind = "allow" /\ Reply(c, "allow")
           \/ /\ ~seen[c].denied /\ match.kind # "allow"
              /\ Proceed(c, "item")
              /\ UNCHANGED <<asked, seen, answer>>
    /\ Reads

\* Both answers are in: everything but a conditional grant is settled here.
Check(c) ==
    /\ cpc[c] = "allow"
    /\ LET allowed == KetoCheck(keto, asked[c].user, asked[c].key, FALSE)
           match == MatchOf(seen[c].match)
       IN  \/ (seen[c].denied \/ ~allowed) /\ Reply(c, "deny")
           \/ ~seen[c].denied /\ allowed /\ match.kind = "allow" /\ Reply(c, "allow")
           \/ /\ ~seen[c].denied /\ allowed /\ match.kind # "allow"
              /\ Proceed(c, "item")
              /\ UNCHANGED <<asked, seen, answer>>
    /\ Reads

Evaluate(c, source) ==
    Reply(c, Precedence(FALSE, TRUE, seen[c].match, Passing(seen[c].conds, source)))

LoadItem(c) ==
    /\ cpc[c] = "item"
    /\ Evaluate(c, SourceOf(others.items, asked[c].item))
    /\ Reads

\* A call fails, or the client goes away: 500, except that loadItem's error is
\* dropped and the conditions are evaluated as if there were no item.
CheckFault(c) ==
    /\ cpc[c] # "idle"
    /\ IF cpc[c] = "item" THEN Evaluate(c, "defaults") ELSE Reply(c, "error")
    /\ calm' = [calm EXCEPT ![c] = FALSE]
    /\ UNCHANGED <<vars, others, checks, factVars>>

DecideStep(c) == \/ ReadUser(c) \/ ReadType(c) \/ LoadRoles(c) \/ LoadConditions(c)
                 \/ CheckDeny(c) \/ Check(c) \/ LoadItem(c)

DNext == \/ SyncFault
         \/ \E h \in Handlers : \/ MutateRbac(h) \/ MutateTypes(h) \/ MutateItems(h)
                                \/ MutateConditions(h) \/ SeedAll(h) \/ SyncPart(h)
         \/ \E c \in Checkers : Ask(c) \/ DecideStep(c) \/ CheckFault(c)

DSpec == DInit /\ [][DNext]_allVars

-----------------------------------------------------------------------------
(* Properties *)

Decided(c) == cpc[c] # "idle" /\ cpc'[c] = "idle"

\* A check that meets no concurrent change and finds Keto in step with Postgres
\* is answered as README's decision precedence says of the tables, although it
\* puts the answer together from Keto's reachability and its own match.
CalmDecisionIsPolicy ==
    [][\A c \in Checkers : Decided(c) /\ calm[c] /\ calm'[c]
                               => answer'[c] = Policy(asked[c])]_allVars

AllowIsReachable ==
    \A c \in Checkers : Decided(c) /\ answer'[c] = "allow"
        => KetoCheck(ever, asked[c].user, asked[c].key, FALSE)

\* Whatever races, failures and crashes the syncs went through, an allow goes
\* only to a user whom the tuples ever committed, taken together, connect to a
\* grant of the action.
AllowedOnlyIfEverReachable == [][AllowIsReachable]_allVars

\* README: explicit deny (resolved via Keto) beats any allow.  So a user whom
\* every configuration so far denies the action is never allowed it.
DenyBeatsAllow ==
    [][\A c \in Checkers : Decided(c) /\ asked[c] \in alwaysDenied
                               => answer'[c] # "allow"]_allVars

\* README: no grant -> deny.  So a user whom no configuration so far grants the
\* action is never allowed it.
NoGrantNoAllow ==
    [][\A c \in Checkers : Decided(c) /\ asked[c] \in neverGranted
                               => answer'[c] # "allow"]_allVars
=============================================================================
