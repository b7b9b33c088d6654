------------------------------ MODULE GuardProofs ------------------------------
(***************************************************************************)
(* The service behind the guard: that its handlers are those of            *)
(* KetoSyncHistory, so that every invariant proved there holds of it; what *)
(* an allow implies whatever the interleaving; that an undisturbed check   *)
(* is answered by README's decision precedence; and that the guard fails   *)
(* closed.                                                                 *)
(***************************************************************************)
EXTENDS Guard, HistoryProofs

-----------------------------------------------------------------------------
(* Decide implements KetoSyncHistory *)

\* The steps of a check change nothing that KetoSyncHistory speaks of.
LEMMA ChecksOnlyRead ==
    ASSUME NEW c \in Checkers, Ask(c) \/ DecideStep(c) \/ CheckFault(c)
    PROVE  UNCHANGED vars
  BY DEF Ask, DecideStep, ReadUser, ReadType, LoadRoles, LoadConditions, CheckDeny,
         Check, LoadItem, CheckFault, Reads

\* Every mutation of the service is a mutation of KetoSyncHistory.
LEMMA MutationsMap ==
    ASSUME NEW h \in Handlers,
           \/ MutateRbac(h) \/ MutateTypes(h) \/ MutateItems(h)
           \/ MutateConditions(h) \/ SeedAll(h)
    PROVE  HMutate(h)
  BY DEF MutateRbac, MutateTypes, MutateItems, MutateConditions, SeedAll,
         Committed, HMutate, Mutate

\* Every step of the service is a step of KetoSyncHistory or leaves it as it is.
LEMMA StepsMap == [DNext]_allVars => [HNext]_vars
  <1> SUFFICES ASSUME [DNext]_allVars PROVE [HNext]_vars
    OBVIOUS
  <1>1. CASE UNCHANGED allVars
    BY <1>1 DEF allVars
  <1>2. ASSUME NEW h \in Handlers,
               \/ MutateRbac(h) \/ MutateTypes(h) \/ MutateItems(h)
               \/ MutateConditions(h) \/ SeedAll(h)
        PROVE  HNext
    BY <1>2, MutationsMap DEF HNext
  <1>3. ASSUME NEW h \in Handlers, SyncPart(h) PROVE HNext
    BY <1>3 DEF SyncPart, HNext
  <1>4. CASE SyncFault
    BY <1>4 DEF SyncFault, HNext
  <1> QED
    BY <1>1, <1>2, <1>3, <1>4, ChecksOnlyRead DEF DNext

\* Seen from the tables that Keto mirrors, the whole service behaves as
\* KetoSyncHistory allows.
THEOREM DecideRefinesSync == DSpec => HSpec
  <1>1. DInit => HInit
    BY DEF DInit
  <1> QED
    BY <1>1, StepsMap, PTL DEF DSpec, HSpec

-----------------------------------------------------------------------------
(* What an allow implies *)

\* The strengthening: a check that is about to load its item has been told by
\* Keto that a grant is reachable, so one is reachable in what was ever committed.
ReachInv ==
    /\ cpc \in [Checkers -> CheckSteps]
    /\ answer \in [Checkers -> Answers]
    /\ asked \in [Checkers -> CheckBodies \cup {NoCheck}]
    /\ \A c \in Checkers : cpc[c] = "item"
           => KetoCheck(ever, asked[c].user, asked[c].key, FALSE)

\* What was ever committed only grows.
LEMMA EverGrows ==
    ASSUME HistoryTypeOK, HistoryTypeOK', [HNext]_vars,
           NEW uid, NEW key, KetoCheck(ever, uid, key, FALSE)
    PROVE  KetoCheck(ever', uid, key, FALSE)
  <1>1. ever' = ever \/ Within(ever, ever')
    BY JoinBounds DEF HNext, HFault, HMutate, Record, HPrepare, HTransact,
                      vars, historyVars
  <1> QED
    BY <1>1, CheckMonotone DEF HistoryTypeOK

\* A user whom Keto says is granted something is reachably granted it by what was
\* ever committed.
LEMMA AllowedIsEver ==
    ASSUME HistoryTypeOK, NoInventedTuples, NEW uid, NEW key,
           KetoCheck(keto, uid, key, FALSE)
    PROVE  KetoCheck(ever, uid, key, FALSE)
  BY CheckMonotone DEF HistoryTypeOK, TypeOK, NoInventedTuples

\* What a step of a check does to its place and to its answer.
LEMMA CheckStep ==
    ASSUME ReachInv, HistoryTypeOK, NoInventedTuples, NEW c \in Checkers,
           Ask(c) \/ DecideStep(c) \/ CheckFault(c)
    PROVE  /\ ReachInv'
           /\ AllowIsReachable
  <1>1. ever' = ever
    BY ChecksOnlyRead DEF vars, historyVars
  <1>2. ASSUME Ask(c)
        PROVE  /\ ReachInv'
               /\ AllowIsReachable
    <2>1. PICK q \in CheckInputs : asked' = [asked EXCEPT ![c] = q]
      BY <1>2 DEF Ask
    <2>2. q \in CheckBodies
      BY DecideAssumption
    <2> QED
      BY <1>1, <1>2, <2>1, <2>2 DEF Ask, Proceed, ReachInv, CheckSteps, Answers,
                                      Decided, AllowIsReachable
  <1>3. ASSUME NEW a \in Answers, Reply(c, a),
               a = "allow" => KetoCheck(ever, asked[c].user, asked[c].key, FALSE)
        PROVE  /\ ReachInv'
               /\ AllowIsReachable
    BY <1>1, <1>3 DEF Reply, Proceed, ReachInv, CheckSteps,
                      AllowIsReachable, Decided
  <1>4. ASSUME NEW step \in CheckSteps \ {"idle"}, Proceed(c, step),
               UNCHANGED <<asked, answer>>,
               step = "item" => KetoCheck(ever, asked[c].user, asked[c].key, FALSE)
        PROVE  /\ ReachInv'
               /\ AllowIsReachable
    BY <1>1, <1>4 DEF Proceed, ReachInv, CheckSteps, Decided, AllowIsReachable
  <1>5. CASE ReadUser(c)
    BY <1>3, <1>4, <1>5 DEF ReadUser, CheckSteps, Answers
  <1>6. CASE ReadType(c)
    BY <1>3, <1>4, <1>6 DEF ReadType, CheckSteps, Answers
  <1>7. CASE LoadRoles(c) \/ LoadConditions(c) \/ CheckDeny(c)
    BY <1>4, <1>7 DEF LoadRoles, LoadConditions, CheckDeny, CheckSteps
  <1>8. CASE Check(c)
    <2>1. CASE KetoCheck(keto, asked[c].user, asked[c].key, FALSE)
      <3>1. KetoCheck(ever, asked[c].user, asked[c].key, FALSE)
        BY <2>1, AllowedIsEver
      <3> QED
        BY <1>3, <1>4, <1>8, <3>1 DEF Check, CheckSteps, Answers
    <2>2. CASE ~KetoCheck(keto, asked[c].user, asked[c].key, FALSE)
      <3>1. Reply(c, "deny")
        BY <1>8, <2>2 DEF Check
      <3> QED
        BY <1>3, <3>1 DEF Answers
    <2> QED
      BY <2>1, <2>2
  <1>9. ASSUME NEW source, Evaluate(c, source), cpc[c] = "item"
        PROVE  /\ ReachInv'
               /\ AllowIsReachable
    BY <1>3, <1>9 DEF Evaluate, Precedence, Answers, ReachInv
  <1>10. CASE LoadItem(c)
    BY <1>9, <1>10 DEF LoadItem
  <1>11. CASE CheckFault(c)
    BY <1>3, <1>9, <1>11 DEF CheckFault, Answers
  <1> QED
    BY <1>2, <1>5, <1>6, <1>7, <1>8, <1>10, <1>11 DEF DecideStep

\* A step of a handler, or a crash, never makes a check answer allow.
LEMMA HandlerStep ==
    ASSUME ReachInv, HistoryTypeOK, HistoryTypeOK', [HNext]_vars,
           \/ SyncFault
           \/ \E h \in Handlers : \/ MutateRbac(h) \/ MutateTypes(h) \/ MutateItems(h)
                                  \/ MutateConditions(h) \/ SeedAll(h) \/ SyncPart(h)
    PROVE  /\ ReachInv'
           /\ \A d \in Checkers : Decided(d) => answer'[d] # "allow"
  <1>1. CASE UNCHANGED <<cpc, asked, answer>>
    BY <1>1, EverGrows DEF ReachInv, Decided
  <1>2. CASE SyncFault /\ ~UNCHANGED <<cpc, asked, answer>>
    BY <1>2 DEF SyncFault, ReachInv, Decided, CheckSteps, Answers, checkVars
  <1> QED
    BY <1>1, <1>2 DEF MutateRbac, MutateTypes, MutateItems, MutateConditions,
                      SeedAll, SyncPart, Committed, checkVars

\* Every step of the service keeps the strengthening, and allows only what was
\* ever reachable.
LEMMA ReachStep ==
    ASSUME ReachInv, HistoryTypeOK, HistoryTypeOK', NoInventedTuples,
           [HNext]_vars, [DNext]_allVars
    PROVE  ReachInv' /\ [AllowIsReachable]_allVars
  <1>1. CASE UNCHANGED allVars
    BY <1>1 DEF allVars, vars, historyVars, checkVars, ReachInv
  <1>2. ASSUME NEW c \in Checkers, Ask(c) \/ DecideStep(c) \/ CheckFault(c)
        PROVE  ReachInv' /\ AllowIsReachable
    BY <1>2, CheckStep
  <1>3. CASE \/ SyncFault
             \/ \E h \in Handlers :
                   \/ MutateRbac(h) \/ MutateTypes(h) \/ MutateItems(h)
                   \/ MutateConditions(h) \/ SeedAll(h) \/ SyncPart(h)
    BY <1>3, HandlerStep DEF AllowIsReachable
  <1> QED
    BY <1>1, <1>2, <1>3 DEF DNext

\* At the start no check is under way.
LEMMA ReachInit == DInit => ReachInv
  BY DEF DInit, ReachInv, CheckSteps, Answers

\* Whatever races, failures and crashes the rebuilds of Keto went through, an
\* allow goes only to a user whom the tuples ever committed connect to a grant.
THEOREM AllowNeedsACommittedGrant == DSpec => AllowedOnlyIfEverReachable
  <1>1. DSpec => []HistoryTypeOK /\ []NoInventedTuples /\ [][HNext]_vars
    BY DecideRefinesSync, HistoryTypeCorrect, NothingInvented, PTL DEF HSpec
  <1>2. /\ ReachInv /\ HistoryTypeOK /\ HistoryTypeOK' /\ NoInventedTuples
        /\ [HNext]_vars /\ [DNext]_allVars
        => ReachInv' /\ [AllowIsReachable]_allVars
    BY ReachStep
  <1> QED
    BY ReachInit, <1>1, <1>2, PTL DEF DSpec, AllowedOnlyIfEverReachable
-----------------------------------------------------------------------------
(* Types *)

\* The part of the type invariant that is about the checks.
Seen == [row : UserRows, match : Effects \cup {NoGrant}, conds : CondTables, denied : BOOLEAN]
ChecksOK ==
    /\ cpc \in [Checkers -> CheckSteps]
    /\ asked \in [Checkers -> CheckBodies \cup {NoCheck}]
    /\ \A c \in Checkers : (cpc[c] = "idle") = (asked[c] = NoCheck)
    /\ seen \in [Checkers -> Seen]
    /\ answer \in [Checkers -> Answers]
    /\ checks \in 0..MaxChecks
    /\ calm \in [Checkers -> BOOLEAN]
TablesOK == /\ others \in Others
            /\ alwaysDenied \subseteq CheckInputs
            /\ neverGranted \subseteq CheckInputs

LEMMA DecideTypeParts == DecideTypeOK <=> HistoryTypeOK /\ ChecksOK /\ TablesOK
  BY DEF DecideTypeOK, ChecksOK, TablesOK, Seen

LEMMA NothingSeenOK == NothingSeen \in Seen
  BY DEF NothingSeen, Seen, UserRows, NoGrant, CondTables

\* A check that is under way has a body.
LEMMA BodyOf ==
    ASSUME ChecksOK, NEW c \in Checkers, cpc[c] # "idle"
    PROVE  asked[c] \in CheckBodies /\ asked[c].user \in UserIds /\ asked[c].key \in GrantKeys
  <1>1. asked[c] \in CheckBodies
    BY DEF ChecksOK
  <1> QED
    BY <1>1 DEF CheckBodies

\* An answer, and a step that goes on.
LEMMA ReplyType ==
    ASSUME ChecksOK, NEW c \in Checkers, NEW a \in Answers, Reply(c, a), checks' = checks,
           calm' \in [Checkers -> BOOLEAN]
    PROVE  ChecksOK'
  BY NothingSeenOK DEF ChecksOK, Reply, Proceed, CheckSteps

LEMMA ProceedType ==
    ASSUME ChecksOK, NEW c \in Checkers, cpc[c] # "idle",
           NEW step \in CheckSteps \ {"idle"}, Proceed(c, step),
           UNCHANGED <<asked, answer, checks, calm>>,
           NEW s \in Seen, seen' = [seen EXCEPT ![c] = s]
    PROVE  ChecksOK'
  BY DEF ChecksOK, Proceed

\* Each step of a check keeps the variables of the checks of their kind.
LEMMA CheckTypes ==
    ASSUME HistoryTypeOK, ChecksOK, TablesOK, NEW c \in Checkers,
           Ask(c) \/ DecideStep(c) \/ CheckFault(c)
    PROVE  ChecksOK' /\ TablesOK'
  <1>1. TablesOK'
    BY DEF Ask, DecideStep, ReadUser, ReadType, LoadRoles, LoadConditions, CheckDeny,
           Check, LoadItem, CheckFault, Reads, factVars, TablesOK
  <1> SUFFICES ChecksOK'
    BY <1>1
  <1>2. ChecksOK /\ seen[c] \in Seen
    BY DEF ChecksOK
  <1>3. cpc[c] # "idle" => asked[c] \in CheckBodies /\ asked[c].user \in UserIds
                               /\ asked[c].key \in GrantKeys
    BY <1>2, BodyOf
  <1>4. CASE Ask(c)
    <2>1. PICK q \in CheckBodies : asked' = [asked EXCEPT ![c] = q]
      BY <1>4, DecideAssumption DEF Ask
    <2>2. checks' \in 0..MaxChecks
      BY <1>4, DecideAssumption DEF Ask, ChecksOK
    <2>3. q # NoCheck
      BY DecideAssumption
    <2>4. calm' \in [Checkers -> BOOLEAN]
      BY <1>4 DEF Ask, ChecksOK, Quiet, Synced
    <2> QED
      BY <1>4, <2>1, <2>2, <2>3, <2>4 DEF Ask, Proceed, ChecksOK, CheckSteps, Answers
  <1>5. ASSUME NEW a \in Answers, Reply(c, a), UNCHANGED <<checks, calm>> PROVE ChecksOK'
    BY <1>2, <1>5, ReplyType DEF ChecksOK
  <1>6. CASE ReadUser(c)
    <2>1. CASE Reply(c, "notFound")
      BY <1>5, <1>6, <2>1 DEF ReadUser, Reads, Answers
    <2>2. CASE ~Reply(c, "notFound")
      <3> DEFINE s == [seen[c] EXCEPT !.row = users[asked[c].user]]
      <3>1. users[asked[c].user] \in UserRows
        BY <1>3, <1>6, <2>2 DEF ReadUser, HistoryTypeOK, TypeOK, UserTables
      <3>2. s \in Seen /\ seen' = [seen EXCEPT ![c] = s]
        BY <1>2, <1>6, <2>2, <3>1 DEF ReadUser, Seen
      <3> QED
        BY <1>2, <1>6, <2>2, <3>2, ProceedType DEF ReadUser, Reads, CheckSteps
    <2> QED
      BY <2>1, <2>2
  <1>7. CASE ReadType(c)
    <2>1. CASE Reply(c, "notFound")
      BY <1>5, <1>7, <2>1 DEF ReadType, Reads, Answers
    <2>2. CASE ~Reply(c, "notFound")
      <3>1. seen' = [seen EXCEPT ![c] = seen[c]]
        BY <1>2, <1>7, <2>2 DEF ReadType, ChecksOK
      <3> QED
        BY <1>2, <1>7, <2>2, <3>1, ProceedType DEF ReadType, Reads, CheckSteps
    <2> QED
      BY <2>1, <2>2
  <1>8. CASE LoadRoles(c)
    <2> DEFINE s == [seen[c] EXCEPT !.match =
                        EffectiveUserGrant(roles, seen[c].row, asked[c].key)]
    <2>1. EffectiveUserGrant(roles, seen[c].row, asked[c].key) \in GrantsOrNone
      BY <1>2, <1>3, <1>8, UserGrantType DEF LoadRoles, Seen, HistoryTypeOK, TypeOK
    <2>2. s \in Seen /\ seen' = [seen EXCEPT ![c] = s]
      BY <1>2, <1>8, <2>1 DEF LoadRoles, Seen, GrantsOrNone
    <2> QED
      BY <1>2, <1>8, <2>2, ProceedType DEF LoadRoles, Reads, CheckSteps
  <1>9. CASE LoadConditions(c)
    <2> DEFINE s == [seen[c] EXCEPT !.conds = others.conds]
    <2>1. s \in Seen /\ seen' = [seen EXCEPT ![c] = s]
      BY <1>2, <1>9 DEF LoadConditions, Seen, TablesOK, Others
    <2> QED
      BY <1>2, <1>9, <2>1, ProceedType DEF LoadConditions, Reads, CheckSteps
  <1>10. CASE CheckDeny(c)
    <2> DEFINE s == [seen[c] EXCEPT !.denied =
                        KetoCheck(keto, asked[c].user, asked[c].key, TRUE)]
    <2>1. KetoCheck(keto, asked[c].user, asked[c].key, TRUE) \in BOOLEAN
      BY DEF KetoCheck
    <2>2. s \in Seen /\ seen' = [seen EXCEPT ![c] = s]
      BY <1>2, <1>10, <2>1 DEF CheckDeny, Seen
    <2> QED
      BY <1>2, <1>10, <2>2, ProceedType DEF CheckDeny, Reads, CheckSteps
  <1>11. CASE Check(c)
    <2>1. CASE Reply(c, "deny") \/ Reply(c, "allow")
      BY <1>5, <1>11, <2>1 DEF Check, Reads, Answers
    <2>2. CASE ~(Reply(c, "deny") \/ Reply(c, "allow"))
      <3>1. seen' = [seen EXCEPT ![c] = seen[c]]
        BY <1>2, <1>11, <2>2 DEF Check, ChecksOK
      <3> QED
        BY <1>2, <1>11, <2>2, <3>1, ProceedType DEF Check, Reads, CheckSteps
    <2> QED
      BY <2>1, <2>2
  <1>12. CASE LoadItem(c)
    BY <1>5, <1>12 DEF LoadItem, Evaluate, Precedence, Reads, Answers
  <1>13. CASE CheckFault(c)
    <2>1. calm' \in [Checkers -> BOOLEAN] /\ checks' = checks
      BY <1>2, <1>13 DEF CheckFault, ChecksOK
    <2>2. \E a \in Answers : Reply(c, a)
      BY <1>13 DEF CheckFault, Evaluate, Precedence, Answers
    <2> QED
      BY <1>2, <2>1, <2>2, ReplyType
  <1> QED
    BY <1>4, <1>6, <1>7, <1>8, <1>9, <1>10, <1>11, <1>12, <1>13 DEF DecideStep

\* So does each step of a handler, of a rebuild or of a fault.
LEMMA HandlerTypes ==
    ASSUME ChecksOK, TablesOK,
           \/ SyncFault
           \/ \E h \in Handlers : \/ MutateRbac(h) \/ MutateTypes(h) \/ MutateItems(h)
                                  \/ MutateConditions(h) \/ SeedAll(h) \/ SyncPart(h)
    PROVE  ChecksOK' /\ TablesOK'
  <1>1. calm' \in [Checkers -> BOOLEAN]
    BY DEF SyncFault, MutateRbac, MutateTypes, MutateItems, MutateConditions, SeedAll,
           SyncPart, Committed, Disturb
  <1>2. ChecksOK'
    <2>1. CASE UNCHANGED checkVars
      BY <1>1, <2>1 DEF ChecksOK, checkVars
    <2>2. CASE SyncFault
      BY <1>1, <2>2, NothingSeenOK DEF SyncFault, ChecksOK, checkVars, CheckSteps, Answers
    <2> QED
      BY <2>1, <2>2 DEF MutateRbac, MutateTypes, MutateItems, MutateConditions,
                        SeedAll, SyncPart, Committed
  <1>3. alwaysDenied' \subseteq alwaysDenied /\ neverGranted' \subseteq neverGranted
    BY DEF SyncFault, MutateRbac, MutateTypes, MutateItems, MutateConditions, SeedAll,
           SyncPart, Committed, factVars
  <1>4. others' \in Others
    <2>1. others \in Others
      BY DEF TablesOK
    <2>2. ASSUME NEW h \in Handlers, MutateTypes(h) PROVE others' \in Others
      BY <2>1, <2>2 DEF MutateTypes, Others
    <2>3. ASSUME NEW h \in Handlers, MutateItems(h) PROVE others' \in Others
      BY <2>1, <2>3 DEF MutateItems, Others
    <2>4. ASSUME NEW h \in Handlers, MutateConditions(h) PROVE others' \in Others
      <3>1. PICK i \in CondIds, row \in CondPuts \cup {Absent} :
               others' = [others EXCEPT !.conds[i] = row]
        BY <2>4 DEF MutateConditions
      <3>2. row \in CondRows \cup {Absent}
        BY DecideAssumption
      <3> QED
        BY <2>1, <3>1, <3>2 DEF Others, CondTables
    <2>5. ASSUME NEW h \in Handlers, SeedAll(h) PROVE others' \in Others
      BY <2>5, DecideAssumption DEF SeedAll
    <2>6. CASE UNCHANGED others
      BY <2>1, <2>6
    <2> QED
      BY <2>2, <2>3, <2>4, <2>5, <2>6 DEF SyncFault, MutateRbac, SyncPart
  <1> QED
    BY <1>2, <1>3, <1>4 DEF TablesOK

LEMMA DecideTypeInit ==
    ASSUME DInit, HistoryTypeOK
    PROVE  DecideTypeOK
  <1>1. ChecksOK
    BY NothingSeenOK, DecideAssumption DEF DInit, ChecksOK, CheckSteps, Answers
  <1>2. TablesOK
    BY DecideAssumption DEF DInit, TablesOK
  <1> QED
    BY <1>1, <1>2, DecideTypeParts

LEMMA DecideTypeStep ==
    ASSUME DecideTypeOK, HistoryTypeOK', [DNext]_allVars
    PROVE  DecideTypeOK'
  <1>1. CASE UNCHANGED allVars
    <2>1. ChecksOK' /\ TablesOK'
      BY <1>1, DecideTypeParts DEF allVars, checkVars, factVars, ChecksOK, TablesOK
    <2> QED
      BY <2>1 DEF DecideTypeOK, ChecksOK, TablesOK, Seen
  <1>2. CASE DNext
    <2>1. ChecksOK' /\ TablesOK'
      BY <1>2, CheckTypes, HandlerTypes, DecideTypeParts DEF DNext
    <2> QED
      BY <2>1 DEF DecideTypeOK, ChecksOK, TablesOK, Seen
  <1> QED
    BY <1>1, <1>2

\* Every variable of the service holds a value of its kind; an idle slot holds no
\* question, and a busy one does.
THEOREM DecideTypeCorrect == DSpec => []DecideTypeOK
  <1>1. DSpec => []HistoryTypeOK
    BY DecideRefinesSync, HistoryTypeCorrect, PTL
  <1> QED
    BY <1>1, DecideTypeInit, DecideTypeStep, PTL DEF DSpec

-----------------------------------------------------------------------------
(* What an undisturbed check answers *)

\* The strengthening: while nothing has moved since the question q was asked, what
\* has been read on the way to a step is still what is there, and none of it has
\* settled the answer.
CalmAt(q, step, got) ==
    LET match == EffectiveUserGrant(roles, users[q.user], q.key)
        denied == KetoCheck(keto, q.user, q.key, TRUE)
        allowed == KetoCheck(keto, q.user, q.key, FALSE)
    IN  /\ keto = Tuples(roles, users)
        /\ step # "user" => users[q.user] # Absent /\ got.row = users[q.user]
        /\ step \notin {"user", "type"} => q.key[1] \in others.types
        /\ step \in {"conds", "deny", "allow", "item"} => got.match = match
        /\ step \in {"deny", "allow", "item"} => got.conds = others.conds
        /\ step \in {"allow", "item"} => got.denied = denied
        /\ step = "item" => ~denied /\ allowed /\ match.kind # "allow"
CalmInv ==
    \A c \in Checkers : cpc[c] # "idle" /\ calm[c] => CalmAt(asked[c], cpc[c], seen[c])

CalmAnswer == \A c \in Checkers : Decided(c) /\ calm[c] /\ calm'[c]
                                     => answer'[c] = Policy(asked[c])

\* When Keto is in step, what it says of a request is what the tables say, and a
\* request that is granted and not denied has a match that the merge put there:
\* the zero Grant of a key that is missing plays no part.
LEMMA InStep ==
    ASSUME HistoryTypeOK, NEW q \in CheckBodies, users[q.user] # Absent,
           keto = Tuples(roles, users)
    PROVE  LET match == EffectiveUserGrant(roles, users[q.user], q.key)
               denied == KetoCheck(keto, q.user, q.key, TRUE)
               allowed == KetoCheck(keto, q.user, q.key, FALSE)
           IN  /\ Denies(roles, users, q) <=> denied
               /\ Grants(roles, users, q) <=> allowed
               /\ ~denied /\ allowed => match = Allow \/ match.kind = "conditional"
  <1> DEFINE row == users[q.user]
             match == EffectiveUserGrant(roles, row, q.key)
             reached(deny) == KetoCheck(keto, q.user, q.key, deny)
  <1>1. /\ roles \in RoleTables /\ users \in UserTables
        /\ q.user \in UserIds /\ q.key \in GrantKeys /\ row \in UserRows
    BY DEF HistoryTypeOK, TypeOK, CheckBodies, UserTables
  <1>2. \A deny \in BOOLEAN : reached(deny) <=>
            \E r \in ResolvedRoles(roles, row) :
               HasKey(roles, r, q.key) /\ (roles[r].grants[q.key].kind = "deny") = deny
    BY <1>1, CheckIsResolved
  <1>3. /\ match # NoGrant <=> reached(TRUE) \/ reached(FALSE)
        /\ match = Deny => reached(TRUE)
    BY <1>1, MatchFitsReach
  <1>4. match \in GrantsOrNone
    BY <1>1, UserGrantType
  <1>5. Reached(roles, users, q) = ResolvedRoles(roles, row)
    BY DEF Reached
  <1>6. \A r \in ResolvedRoles(roles, row) :
            roles[r].grants[q.key].kind \in {"none", "allow", "deny", "conditional"}
    <2> TAKE r \in ResolvedRoles(roles, row)
    <2>1. PICK i \in DOMAIN row : r \in ToSet(RoleChain(roles, row[i]))
      BY DEF ResolvedRoles
    <2>2. r \in Present(roles)
      BY <1>1, <2>1, RoleChainIsAncestry DEF UserRows, Ancestry, ToSet
    <2>3. roles[r] \in RoleRows
      BY <1>1, <2>2 DEF Present, RoleTables
    <2>4. roles[r].grants[q.key] \in GrantsOrNone
      BY <1>1, <2>3 DEF RoleRows, GrantsOrNone
    <2> QED
      BY <2>4, KindsTell
  <1> HIDE DEF match, reached, row
  <1>7. Denies(roles, users, q) <=> reached(TRUE)
    BY <1>2, <1>5 DEF Denies, HasKey
  <1>8. Grants(roles, users, q) <=> reached(FALSE)
    BY <1>2, <1>5, <1>6 DEF Grants, HasKey
  <1>9. ~reached(TRUE) /\ reached(FALSE) => match = Allow \/ match.kind = "conditional"
    BY <1>3, <1>4, KindsTell
  <1> QED
    BY <1>7, <1>8, <1>9 DEF match, reached, row

\* It is about the tables and Keto alone.
LEMMA CalmFrame ==
    ASSUME UNCHANGED <<roles, users, keto, others>>, NEW d \in Checkers,
           CalmAt(asked'[d], cpc'[d], seen'[d])
    PROVE  CalmAt(asked[d], cpc[d], seen[d])'
  BY DEF CalmAt

\* An answer that is Policy's keeps the strengthening.
LEMMA CalmReply ==
    ASSUME ChecksOK, CalmInv, NEW c \in Checkers, NEW a, Reply(c, a), cpc[c] # "idle", Reads,
           calm[c] => a = Policy(asked[c])
    PROVE  CalmInv' /\ CalmAnswer
  <1>1. \A d \in Checkers : d # c => /\ cpc'[d] = cpc[d] /\ asked'[d] = asked[d]
                                     /\ seen'[d] = seen[d]
    BY DEF Reply, Proceed, ChecksOK
  <1>2. cpc'[c] = "idle" /\ answer'[c] = a
    BY DEF Reply, Proceed, ChecksOK
  <1>3. UNCHANGED <<roles, users, keto, others, calm>>
    BY DEF Reads, vars, syncVars
  <1>4. CalmInv'
    BY <1>1, <1>2, <1>3, CalmFrame DEF CalmInv
  <1>5. CalmAnswer
    BY <1>1, <1>2 DEF CalmAnswer, Decided
  <1> QED
    BY <1>4, <1>5

\* A step that goes on keeps it when what it adds is what is there.
LEMMA CalmProceed ==
    ASSUME ChecksOK, CalmInv, NEW c \in Checkers, cpc[c] # "idle", Reads,
           NEW step \in CheckSteps \ {"idle"}, Proceed(c, step), UNCHANGED <<asked, answer>>,
           NEW got, seen' = [seen EXCEPT ![c] = got],
           calm[c] => CalmAt(asked[c], step, got)
    PROVE  CalmInv' /\ CalmAnswer
  <1>1. \A d \in Checkers : d # c => cpc'[d] = cpc[d] /\ seen'[d] = seen[d]
    BY DEF Proceed, ChecksOK
  <1>2. cpc'[c] = step /\ seen'[c] = got
    BY DEF Proceed, ChecksOK
  <1>3. UNCHANGED <<roles, users, keto, others, calm>>
    BY DEF Reads, vars, syncVars
  <1>4. CalmInv'
    BY <1>1, <1>2, <1>3, CalmFrame DEF CalmInv
  <1>5. CalmAnswer
    BY <1>1, <1>2 DEF CalmAnswer, Decided
  <1> QED
    BY <1>4, <1>5

\* A step that disturbs every check leaves nothing to show.
LEMMA CalmDisturb ==
    ASSUME Disturb
    PROVE  CalmInv' /\ CalmAnswer
  BY DEF Disturb, CalmInv, CalmAnswer

\* Each step of a check keeps it, and answers as Policy says.
LEMMA CalmStep ==
    ASSUME HistoryTypeOK, ChecksOK, CalmInv, NEW c \in Checkers,
           Ask(c) \/ DecideStep(c) \/ CheckFault(c)
    PROVE  CalmInv' /\ CalmAnswer
  <1> DEFINE q == asked[c]
             got == seen[c]
             match == EffectiveUserGrant(roles, users[q.user], q.key)
             denied == KetoCheck(keto, q.user, q.key, TRUE)
             allowed == KetoCheck(keto, q.user, q.key, FALSE)
             held == Passing(others.conds, SourceOf(others.items, q.item))
  <1>1. seen[c] \in Seen
    BY DEF ChecksOK
  <1>2. cpc[c] # "idle" => q \in CheckBodies
    BY BodyOf
  <1>3. calm[c] /\ cpc[c] # "idle" => CalmAt(q, cpc[c], got)
    BY DEF CalmInv
  <1>4. calm[c] /\ cpc[c] \in {"allow", "item"} =>
            /\ got.denied = denied /\ got.match = match /\ got.conds = others.conds
            /\ denied \/ ~allowed => Policy(q) = "deny"
            /\ ~denied /\ allowed =>
                  /\ match = Allow \/ match.kind = "conditional"
                  /\ Policy(q) = IF match.conds \subseteq held THEN "allow" ELSE "deny"
    <2> SUFFICES ASSUME calm[c], cpc[c] \in {"allow", "item"}
                 PROVE  /\ got.denied = denied /\ got.match = match
                        /\ got.conds = others.conds
                        /\ denied \/ ~allowed => Policy(q) = "deny"
                        /\ ~denied /\ allowed =>
                              /\ match = Allow \/ match.kind = "conditional"
                              /\ Policy(q) = IF match.conds \subseteq held
                                             THEN "allow" ELSE "deny"
      OBVIOUS
    <2>1. /\ keto = Tuples(roles, users) /\ users[q.user] # Absent
          /\ q.key[1] \in others.types
          /\ got.denied = denied /\ got.match = match /\ got.conds = others.conds
      BY <1>3 DEF CalmAt
    <2>2. /\ Denies(roles, users, q) <=> denied
          /\ Grants(roles, users, q) <=> allowed
          /\ ~denied /\ allowed => match = Allow \/ match.kind = "conditional"
      BY <1>2, <2>1, InStep
    <2> QED
      BY <2>1, <2>2 DEF Policy
  <1>5. CASE Ask(c)
    <2>1. \A d \in Checkers : d # c => /\ cpc'[d] = cpc[d] /\ asked'[d] = asked[d]
                                       /\ seen'[d] = seen[d] /\ calm'[d] = calm[d]
      BY <1>5 DEF Ask, Proceed, ChecksOK
    <2>2. cpc'[c] = "user" /\ calm'[c] = (Quiet /\ Synced)
      BY <1>5 DEF Ask, Proceed, ChecksOK
    <2>3. UNCHANGED <<roles, users, keto, others>>
      BY <1>5 DEF Ask, vars, syncVars
    <2>4. CalmInv'
      <3>1. calm'[c] => CalmAt(q', "user", seen'[c])
        BY <2>2, <2>3 DEF CalmAt, Synced
      <3> QED
        BY <2>1, <2>2, <2>3, <3>1, CalmFrame DEF CalmInv
    <2>5. CalmAnswer
      BY <2>1, <2>2 DEF CalmAnswer, Decided
    <2> QED
      BY <2>4, <2>5
  <1>6. CASE ReadUser(c)
    <2>1. CASE Reply(c, "notFound")
      <3>1. users[q.user] = Absent
        BY <1>6, <2>1 DEF ReadUser, Reply, Proceed, ChecksOK
      <3> QED
        BY <1>6, <2>1, <3>1, CalmReply DEF ReadUser, Policy
    <2>2. CASE ~Reply(c, "notFound")
      <3> DEFINE new == [got EXCEPT !.row = users[q.user]]
      <3>1. new.row = users[q.user] /\ seen' = [seen EXCEPT ![c] = new]
        BY <1>1, <1>6, <2>2 DEF ReadUser, Seen
      <3> HIDE DEF new
      <3>2. calm[c] => CalmAt(q, "type", new)
        BY <1>3, <1>6, <2>2, <3>1 DEF ReadUser, CalmAt
      <3> QED
        BY <1>6, <2>2, <3>1, <3>2, CalmProceed DEF ReadUser, CheckSteps
    <2> QED
      BY <2>1, <2>2
  <1>7. CASE ReadType(c)
    <2>1. CASE Reply(c, "notFound")
      <3>1. q.key[1] \notin others.types
        BY <1>7, <2>1 DEF ReadType, Reply, Proceed, ChecksOK
      <3> QED
        BY <1>7, <2>1, <3>1, CalmReply DEF ReadType, Policy
    <2>2. CASE ~Reply(c, "notFound")
      <3>1. seen' = [seen EXCEPT ![c] = got]
        BY <1>7, <2>2 DEF ReadType, ChecksOK
      <3>2. calm[c] => CalmAt(q, "roles", got)
        BY <1>3, <1>7, <2>2 DEF ReadType, CalmAt
      <3> QED
        BY <1>7, <2>2, <3>1, <3>2, CalmProceed DEF ReadType, CheckSteps
    <2> QED
      BY <2>1, <2>2
  <1>8. CASE LoadRoles(c)
    <2> DEFINE new == [got EXCEPT !.match = EffectiveUserGrant(roles, got.row, q.key)]
    <2>1. /\ new.row = got.row
          /\ new.match = EffectiveUserGrant(roles, got.row, q.key)
          /\ seen' = [seen EXCEPT ![c] = new]
      BY <1>1, <1>8 DEF LoadRoles, Seen
    <2> HIDE DEF new
    <2>2. calm[c] => CalmAt(q, "conds", new)
      BY <1>3, <1>8, <2>1 DEF LoadRoles, CalmAt
    <2> QED
      BY <1>8, <2>1, <2>2, CalmProceed DEF LoadRoles, CheckSteps
  <1>9. CASE LoadConditions(c)
    <2> DEFINE new == [got EXCEPT !.conds = others.conds]
    <2>1. /\ new.row = got.row /\ new.match = got.match /\ new.conds = others.conds
          /\ seen' = [seen EXCEPT ![c] = new]
      BY <1>1, <1>9 DEF LoadConditions, Seen
    <2> HIDE DEF new
    <2>2. calm[c] => CalmAt(q, "deny", new)
      BY <1>3, <1>9, <2>1 DEF LoadConditions, CalmAt
    <2> QED
      BY <1>9, <2>1, <2>2, CalmProceed DEF LoadConditions, CheckSteps
  <1>10. CASE CheckDeny(c)
    <2> DEFINE new == [got EXCEPT !.denied = denied]
    <2>1. /\ new.row = got.row /\ new.match = got.match /\ new.conds = got.conds
          /\ new.denied = denied /\ seen' = [seen EXCEPT ![c] = new]
      BY <1>1, <1>10 DEF CheckDeny, Seen
    <2> HIDE DEF new
    <2>2. calm[c] => CalmAt(q, "allow", new)
      BY <1>3, <1>10, <2>1 DEF CheckDeny, CalmAt
    <2> QED
      BY <1>10, <2>1, <2>2, CalmProceed DEF CheckDeny, CheckSteps
  <1>11. CASE Check(c)
    <2>1. CASE (got.denied \/ ~allowed) /\ Reply(c, "deny")
      BY <1>4, <1>11, <2>1, CalmReply DEF Check
    <2>2. CASE ~got.denied /\ allowed /\ MatchOf(got.match).kind = "allow"
                   /\ Reply(c, "allow")
      <3>1. calm[c] => match = Allow
        BY <1>4, <1>11, <2>2 DEF Check, MatchOf
      <3>2. Allow.conds = {}
        BY DEF Allow
      <3>3. calm[c] => Policy(q) = "allow"
        BY <1>4, <1>11, <2>2, <3>1, <3>2 DEF Check
      <3> QED
        BY <1>11, <2>2, <3>3, CalmReply DEF Check
    <2>3. CASE /\ ~got.denied /\ allowed /\ MatchOf(got.match).kind # "allow"
               /\ Proceed(c, "item")
               /\ UNCHANGED <<asked, seen, answer>>
      <3>1. seen' = [seen EXCEPT ![c] = got]
        BY <2>3 DEF ChecksOK
      <3>2. calm[c] => CalmAt(q, "item", got)
        BY <1>3, <1>4, <1>11, <2>3 DEF Check, CalmAt, MatchOf, Allow
      <3> QED
        BY <1>11, <2>3, <3>1, <3>2, CalmProceed DEF Check, CheckSteps
    <2> QED
      BY <1>11, <2>1, <2>2, <2>3 DEF Check
  <1>12. CASE LoadItem(c)
    <2> DEFINE a == Precedence(FALSE, TRUE, got.match,
                               Passing(got.conds, SourceOf(others.items, q.item)))
    <2>1. Reply(c, a) /\ cpc[c] = "item" /\ Reads
      BY <1>12 DEF LoadItem, Evaluate
    <2>2. calm[c] => a = Policy(q)
      BY <1>3, <1>4, <2>1 DEF CalmAt, Precedence
    <2> HIDE DEF a
    <2> QED
      BY <2>1, <2>2, CalmReply
  <1>13. CASE CheckFault(c)
    <2>1. calm' = [calm EXCEPT ![c] = FALSE] /\ UNCHANGED <<roles, users, keto, others>>
      BY <1>13 DEF CheckFault, vars, syncVars
    <2>2. PICK a : Reply(c, a)
      BY <1>13 DEF CheckFault, Evaluate
    <2>3. \A d \in Checkers : d # c => /\ cpc'[d] = cpc[d] /\ asked'[d] = asked[d]
                                       /\ seen'[d] = seen[d] /\ calm'[d] = calm[d]
      BY <2>1, <2>2 DEF Reply, Proceed, ChecksOK
    <2>4. calm'[c] = FALSE
      BY <2>1 DEF ChecksOK
    <2> QED
      BY <2>1, <2>3, <2>4, CalmFrame DEF CalmInv, CalmAnswer, Decided
  <1> QED
    BY <1>5, <1>6, <1>7, <1>8, <1>9, <1>10, <1>11, <1>12, <1>13 DEF DecideStep

\* A check that meets no concurrent change and finds Keto in step with Postgres is
\* answered as README's decision precedence says of the tables.
THEOREM UndisturbedIsPolicy == DSpec => CalmDecisionIsPolicy
  <1>1. DInit => CalmInv
    BY DEF DInit, CalmInv
  <1>2. HistoryTypeOK /\ DecideTypeOK /\ CalmInv /\ [DNext]_allVars
           => CalmInv' /\ [CalmAnswer]_allVars
    <2> SUFFICES ASSUME HistoryTypeOK, ChecksOK, CalmInv, [DNext]_allVars
                 PROVE  CalmInv' /\ [CalmAnswer]_allVars
      BY DecideTypeParts
    <2>1. CASE UNCHANGED allVars
      BY <2>1 DEF allVars, vars, syncVars, checkVars, CalmInv, CalmAt
    <2>2. ASSUME NEW c \in Checkers, Ask(c) \/ DecideStep(c) \/ CheckFault(c)
          PROVE  CalmInv' /\ [CalmAnswer]_allVars
      BY <2>2, CalmStep
    <2>3. CASE Disturb
      BY <2>3, CalmDisturb
    <2> QED
      BY <2>1, <2>2, <2>3 DEF DNext, SyncFault, MutateRbac, MutateTypes, MutateItems,
                              MutateConditions, SeedAll, SyncPart, Committed
  <1>3. DSpec => []HistoryTypeOK
    BY DecideRefinesSync, HistoryTypeCorrect, PTL
  <1> QED
    BY <1>1, <1>2, <1>3, DecideTypeCorrect, PTL DEF DSpec, CalmDecisionIsPolicy, CalmAnswer

-----------------------------------------------------------------------------
(* The guard leaves KAM a service of Decide *)

\* Every step of the guarded service is a step of KAM or leaves KAM as it is.
LEMMA GuardedStepsMap == [GNext]_guardVars => [DNext]_allVars
  BY DEF GNext, guardVars, Kam, RefuseAnonymous, GuardAsk, AnswerArrives, GiveUp, DNext

\* So all that is proved of KAM holds behind a guard too.
THEOREM GuardRefinesDecide == GSpec => DSpec
  <1>1. GInit => DInit
    BY DEF GInit
  <1> QED
    BY <1>1, GuardedStepsMap, PTL DEF GSpec, DSpec

-----------------------------------------------------------------------------
(* What KAM does to a slot *)

\* An answer stays until the next question, and a question until its answer.
LEMMA SlotFrame ==
    ASSUME ReachInv, [DNext]_allVars, NEW d \in Checkers
    PROVE  /\ cpc[d] = "idle" /\ cpc'[d] = "idle" => answer'[d] = answer[d]
           /\ cpc[d] # "idle" /\ cpc'[d] # "idle" => asked'[d] = asked[d]
  <1>1. CASE UNCHANGED <<cpc, asked, answer>>
    BY <1>1
  <1>2. ASSUME NEW c \in Checkers, NEW a, Reply(c, a), cpc[c] # "idle"
        PROVE  /\ cpc[d] = "idle" /\ cpc'[d] = "idle" => answer'[d] = answer[d]
               /\ cpc[d] # "idle" /\ cpc'[d] # "idle" => asked'[d] = asked[d]
    BY <1>2 DEF Reply, Proceed, ReachInv
  <1>3. ASSUME NEW c \in Checkers, NEW step, Proceed(c, step),
               UNCHANGED <<asked, answer>>
        PROVE  /\ cpc[d] = "idle" /\ cpc'[d] = "idle" => answer'[d] = answer[d]
               /\ cpc[d] # "idle" /\ cpc'[d] # "idle" => asked'[d] = asked[d]
    BY <1>3
  <1>4. ASSUME NEW c \in Checkers, Ask(c)
        PROVE  /\ cpc[d] = "idle" /\ cpc'[d] = "idle" => answer'[d] = answer[d]
               /\ cpc[d] # "idle" /\ cpc'[d] # "idle" => asked'[d] = asked[d]
    BY <1>4 DEF Ask, Proceed, ReachInv
  <1>5. ASSUME NEW c \in Checkers, DecideStep(c)
        PROVE  /\ cpc[d] = "idle" /\ cpc'[d] = "idle" => answer'[d] = answer[d]
               /\ cpc[d] # "idle" /\ cpc'[d] # "idle" => asked'[d] = asked[d]
    BY <1>2, <1>3, <1>5 DEF DecideStep, ReadUser, ReadType, LoadRoles, LoadConditions,
                            CheckDeny, Check, LoadItem, Evaluate
  <1>6. ASSUME NEW c \in Checkers, CheckFault(c)
        PROVE  /\ cpc[d] = "idle" /\ cpc'[d] = "idle" => answer'[d] = answer[d]
               /\ cpc[d] # "idle" /\ cpc'[d] # "idle" => asked'[d] = asked[d]
    BY <1>2, <1>6 DEF CheckFault, Evaluate
  <1>7. CASE SyncFault
    BY <1>7 DEF SyncFault, checkVars, ReachInv
  <1>8. CASE \E h \in Handlers : \/ MutateRbac(h) \/ MutateTypes(h) \/ MutateItems(h)
                                 \/ MutateConditions(h) \/ SeedAll(h) \/ SyncPart(h)
    BY <1>1, <1>8 DEF MutateRbac, MutateTypes, MutateItems, MutateConditions,
                      SeedAll, SyncPart, Committed, checkVars
  <1>9. CASE UNCHANGED allVars
    BY <1>1, <1>9 DEF allVars, checkVars
  <1> QED
    BY <1>4, <1>5, <1>6, <1>7, <1>8, <1>9 DEF DNext

-----------------------------------------------------------------------------
(* The guard *)

\* The strengthening: a question on its way at KAM is the guard's own, and an
\* allow that travels back, or was acted on, was once reachable.
Reachable(b) == KetoCheck(ever, b.user, b.key, FALSE)
GateInv ==
    /\ gate \in [Checkers -> GateStates]
    /\ \A c \in Checkers :
          /\ Waiting(c) => gate[c].body # NoCheck
          /\ Waiting(c) /\ cpc[c] # "idle" => asked[c] = gate[c].body
          /\ Waiting(c) /\ cpc[c] = "idle" /\ answer[c] = "allow"
                 => Reachable(gate[c].body)
          /\ gate[c].outcome = "served" => Reachable(gate[c].body)

\* KAM's own steps keep it.
LEMMA KamKeeps ==
    ASSUME GateInv, ReachInv, HistoryTypeOK, HistoryTypeOK', NoInventedTuples,
           [HNext]_vars, [DNext]_allVars, UNCHANGED gate,
           \A c \in Checkers : Waiting(c) /\ cpc[c] = "idle" => cpc'[c] = "idle"
    PROVE  GateInv'
  <1> SUFFICES ASSUME NEW c \in Checkers
               PROVE  /\ Waiting(c) /\ cpc'[c] # "idle" => asked'[c] = gate[c].body
                      /\ Waiting(c) /\ cpc'[c] = "idle" /\ answer'[c] = "allow"
                             => Reachable(gate[c].body)'
                      /\ gate[c].outcome = "served" => Reachable(gate[c].body)'
    BY DEF GateInv, Waiting, Reachable
  <1>1. ASSUME NEW b, Reachable(b) PROVE Reachable(b)'
    BY <1>1, EverGrows DEF Reachable
  <1>2. Waiting(c) /\ cpc'[c] # "idle" => asked'[c] = gate[c].body
    BY SlotFrame DEF GateInv
  <1>3. ASSUME Waiting(c), cpc'[c] = "idle", answer'[c] = "allow"
        PROVE  Reachable(gate[c].body)
    <2>1. CASE cpc[c] = "idle"
      BY <1>3, <2>1, SlotFrame DEF GateInv
    <2>2. CASE cpc[c] # "idle"
      <3>1. AllowIsReachable
        BY <1>3, <2>2, ReachStep DEF allVars, checkVars
      <3> QED
        BY <1>3, <2>2, <3>1 DEF AllowIsReachable, Decided, GateInv, Reachable
    <2> QED
      BY <2>1, <2>2
  <1> QED
    BY <1>1, <1>2, <1>3 DEF GateInv

\* The steps of the guard keep it.
LEMMA GuardKeeps ==
    ASSUME GateInv, ReachInv, NEW c \in Checkers,
           RefuseAnonymous(c) \/ GuardAsk(c) \/ AnswerArrives(c) \/ GiveUp(c)
    PROVE  GateInv'
  <1>1. CASE RefuseAnonymous(c)
    BY <1>1 DEF RefuseAnonymous, GateInv, GateStates, Outcomes, Waiting, Reachable,
                allVars, checkVars, vars, historyVars
  <1>2. CASE GuardAsk(c)
    <2>1. PICK q \in CheckBodies : asked' = [asked EXCEPT ![c] = q]
      BY <1>2, DecideAssumption DEF GuardAsk, Ask
    <2>2. /\ UNCHANGED <<ever>>
          /\ cpc' = [cpc EXCEPT ![c] = "user"]
          /\ answer' = [answer EXCEPT ![c] = "none"]
      BY <1>2 DEF GuardAsk, Ask, Proceed, vars, historyVars
    <2>3. /\ asked'[c] = q
          /\ gate' = [gate EXCEPT ![c] = [outcome |-> "asking", body |-> q]]
      BY <1>2, <2>1 DEF GuardAsk, ReachInv
    <2>4. q # NoCheck
      BY DecideAssumption
    <2> QED
      BY <2>1, <2>2, <2>3, <2>4 DEF ReachInv, GateInv, GateStates, Outcomes, Waiting, Reachable
  <1>3. CASE AnswerArrives(c)
    <2>1. PICK o \in Outcomes \ {"asking"} :
             Outcome(c, o) /\ (o = "served" => answer[c] = "allow")
      BY <1>3 DEF AnswerArrives, Outcomes
    <2>2. UNCHANGED <<ever, cpc, asked, answer>>
      BY <1>3 DEF AnswerArrives, allVars, checkVars, vars, historyVars
    <2> QED
      BY <1>3, <2>1, <2>2 DEF AnswerArrives, Outcome, GateInv, GateStates, Waiting, Reachable
  <1>4. CASE GiveUp(c)
    BY <1>4 DEF GiveUp, Outcome, GateInv, GateStates, Outcomes, Waiting, Reachable,
                allVars, checkVars, vars, historyVars
  <1> QED
    BY <1>1, <1>2, <1>3, <1>4

\* Every step of the guarded service keeps the strengthening.
LEMMA GateInvariant == GSpec => []GateInv
  <1>1. GInit => GateInv
    BY DEF GInit, DInit, GateInv, GateStates, Outcomes, Waiting
  <1>2. GSpec => []HistoryTypeOK /\ []NoInventedTuples /\ [][HNext]_vars /\ [][DNext]_allVars
    BY GuardRefinesDecide, DecideRefinesSync, HistoryTypeCorrect, NothingInvented,
       PTL DEF HSpec, DSpec
  <1>3. /\ GateInv /\ ReachInv /\ HistoryTypeOK /\ HistoryTypeOK' /\ NoInventedTuples
        /\ [HNext]_vars /\ [DNext]_allVars /\ [GNext]_guardVars
        => GateInv' /\ ReachInv'
    <2> SUFFICES ASSUME GateInv, ReachInv, HistoryTypeOK, HistoryTypeOK', NoInventedTuples,
                        [HNext]_vars, [DNext]_allVars, [GNext]_guardVars
                 PROVE  GateInv'
      BY ReachStep
    <2>1. CASE UNCHANGED guardVars
      BY <2>1, KamKeeps DEF guardVars, allVars, checkVars
    <2>2. CASE Kam
      BY <2>2, KamKeeps DEF Kam
    <2> QED
      BY <2>1, <2>2, GuardKeeps DEF GNext
  <1> QED
    BY <1>1, <1>2, <1>3, ReachInit, PTL DEF GSpec, GInit

\* An endpoint behind the guard runs only for a subject whom the tuples ever
\* committed connect to a grant of the action.
THEOREM GuardFailsClosed == GSpec => []ServedOnlyIfEverReachable
  <1>1. GateInv => ServedOnlyIfEverReachable
    BY DEF GateInv, ServedOnlyIfEverReachable, Reachable
  <1> QED
    BY <1>1, GateInvariant, PTL

\* A guarded request is under way exactly when it has a question on its way, and
\* KAM's own state is sound.
THEOREM GuardTypeCorrect == GSpec => []GuardTypeOK
  <1>1. DecideTypeOK /\ GateInv => GuardTypeOK
    BY DEF GuardTypeOK, GateInv, Waiting
  <1> QED
    BY <1>1, GuardRefinesDecide, DecideTypeCorrect, GateInvariant, PTL
=============================================================================
